----------------------------- MODULE AuthSessionProofs -----------------------------
(***************************************************************************)
(* Machine-checked proofs about AuthSession, for any users, devices and    *)
(* calls and any number of tokens and faults.                              *)
(***************************************************************************)
EXTENDS AuthSession, TLAPS

TokenRows == [user : Users, family : Rows, consumed : BOOLEAN, revoked : BOOLEAN, expired : BOOLEAN]
JobRows == [kind : {"login", "refresh", "logout", "revoke_all"},
            user : Users, token : Rows \union {0}, locked : Rows \union {0},
            seen : SUBSET Rows, phase : {"sent", "rotating", "revoking"} \union Final]

\* No token of a session that a logout ended works.
EndedAreDead == \A f \in ended : \A t \in Rows : Stored(t) /\ tokens[t].family = f => ~Live(t)

\* AuthInv without what follows from it.
Core ==
    /\ TypeOK
    /\ SessionsAreChains /\ JobsAreTrue /\ DevicesWaitForTheirOwn /\ SessionsHaveOneDevice
    /\ \A f \in ended : Stored(f)
    /\ EndedAreDead

\* Rows are never deleted, and a row that stopped working never works again.
Grows == \A t \in Rows : Stored(t) =>
    /\ tokens'[t] # NoRow
    /\ tokens'[t].family = tokens[t].family /\ tokens'[t].user = tokens[t].user
    /\ tokens[t].consumed => tokens'[t].consumed
    /\ ~Live(t) => ~Live(t)'

\* What JobsAreTrue says of one request.
JobIsTrue(j) ==
    /\ j.kind \in {"refresh", "logout"} => Stored(j.token)
    /\ j.kind = "login" => j.phase \in {"sent", "ok", "refused"} /\ (j.phase = "ok" => Stored(j.token))
    /\ j.kind = "logout" => j.phase \in {"sent", "ok"} /\ (j.phase = "ok" => ~Live(j.token))
    /\ j.kind = "revoke_all" => j.phase = "revoking"
    /\ j.phase = "revoking" =>
        \/ /\ j.kind = "refresh" /\ tokens[j.token].consumed
           /\ j.seen \subseteq InFamily(tokens[j.token].family)
        \/ /\ j.kind = "revoke_all" /\ j.user \in purged
           /\ \A t \in j.seen : Stored(t) /\ tokens[t].user = j.user

\* What SessionsHaveOneDevice says of the newest token of a device that
\* missed nothing.
Untouched(d) ==
    /\ ~tokens[Current(d)].consumed
    /\ tokens[Current(d)].revoked =>
        \/ tokens[Current(d)].user \in purged
        \/ waiting[d] # NoCall /\ jobs[waiting[d]].kind = "logout" /\ jobs[waiting[d]].phase = "ok"

-------------------------------------------------------------------------------

LEMMA Sizes == MaxTokens \in Nat /\ MaxFaults \in Nat /\ 0 \notin Rows /\ Rows \subseteq Nat /\ NoCall \notin Calls
BY SizesAssumption, CallsAssumption DEF Rows, NoCall

LEMMA Typed ==
    ASSUME TypeOK
    PROVE  /\ \A t \in Rows : Stored(t) => tokens[t] \in TokenRows
           /\ \A t : Stored(t) => t \in Rows
           /\ \A c \in Calls : jobs[c] = NoJob \/ jobs[c] \in JobRows
           /\ \A t : Live(t) => Stored(t) /\ ~tokens[t].consumed /\ ~tokens[t].revoked /\ ~tokens[t].expired
<1>1. \A t \in Rows : tokens[t] = NoRow \/ tokens[t] \in TokenRows
    BY DEF TypeOK, TokenRows
<1>2. \A c \in Calls : jobs[c] = NoJob \/ jobs[c] \in JobRows
    BY DEF TypeOK, JobRows
<1> QED
    BY <1>1, <1>2 DEF Stored, Live, Revocable

LEMMA InitCore == Init => Core
<1> SUFFICES ASSUME Init PROVE Core
    OBVIOUS
<1>1. TypeOK
    BY Sizes DEF Init, TypeOK
<1>2. \A t : ~Stored(t)
    BY DEF Init, Stored
<1>3. \A c \in Calls : jobs[c].kind = "none" /\ jobs[c].phase = "none"
    BY DEF Init, NoJob
<1>4. SessionsAreChains /\ JobsAreTrue
    BY <1>2, <1>3 DEF SessionsAreChains, JobsAreTrue
<1>5. \A d \in Devices : held[d] = 0 /\ waiting[d] = NoCall /\ Current(d) = 0
    BY DEF Init, Current
<1>6. DevicesWaitForTheirOwn /\ SessionsHaveOneDevice
    BY <1>5 DEF Init, DevicesWaitForTheirOwn, SessionsHaveOneDevice
<1> QED
    BY <1>1, <1>4, <1>6 DEF Core, Init, EndedAreDead

\* One row that was not consumed in each session: at most one works, and none
\* of a session whose tokens do not work is being rotated.
LEMMA CoreSuffices == Core => AuthInv /\ HeldTokenIsCurrent
<1> SUFFICES ASSUME Core PROVE AuthInv /\ HeldTokenIsCurrent
    OBVIOUS
<1> USE DEF Core
<1>1. OneTokenPerSession
    BY Typed DEF OneTokenPerSession, SessionsAreChains
<1>2. LogoutEndsTheSession
    <2>1. \A c \in Calls : jobs[c].phase = "rotating" => Live(jobs[c].locked)
        BY DEF SessionsAreChains
    <2> QED
        BY <2>1 DEF LogoutEndsTheSession, EndedAreDead, InFamily, Locked
<1>3. HeldTokenIsCurrent
    <2> SUFFICES ASSUME NEW d \in Devices, held[d] # 0, waiting[d] = NoCall, d \notin lost
                 PROVE  ~tokens[held[d]].consumed /\ (tokens[held[d]].revoked => tokens[held[d]].user \in purged)
        BY DEF HeldTokenIsCurrent, Idle
    <2>1. Current(d) = held[d]
        BY DEF Current
    <2> QED
        BY <2>1 DEF SessionsHaveOneDevice
<1> QED
    BY <1>1, <1>2, <1>3 DEF AuthInv

-------------------------------------------------------------------------------
(* The server's steps: one request changes, rows grow, devices stay.       *)

LEMMA ServerStep ==
    ASSUME Core, NEW c, NEW j,
           \A x \in Calls : jobs'[x] = IF x = c THEN j ELSE jobs[x],
           UNCHANGED <<held, waiting, lost, ended>>, purged \subseteq purged',
           TypeOK', Grows, SessionsAreChains', EndedAreDead',
           c \in Calls => JobIsTrue(j)',
           c \in Calls => jobs[c].phase # "ok",
           j.kind \in {"refresh", "logout"} =>
               jobs[c].kind = j.kind /\ tokens'[j.token].family = tokens[jobs[c].token].family,
           \A d \in Devices : c \in Calls /\ waiting[d] = c =>
               /\ j.kind = jobs[c].kind
               /\ j.kind = "logout" \/ (j.kind = "refresh" /\ j.phase # "ok") => j.token = jobs[c].token,
           j.kind = "login" /\ j.phase = "ok" =>
               \A t \in Rows : Stored(t) => tokens[t].family # tokens'[j.token].family,
           \A d \in Devices \ lost : Current(d)' # 0 => Untouched(d)'
    PROVE  Core'
<1> USE DEF Core
<1>1. \A t : Stored(t) => /\ Stored(t)' /\ t \in Rows
                          /\ tokens'[t].family = tokens[t].family /\ tokens'[t].user = tokens[t].user
                          /\ tokens[t].consumed => tokens'[t].consumed
                          /\ ~Live(t) => ~Live(t)'
    BY Typed DEF Grows, Stored
<1>2. JobsAreTrue'
    <2> SUFFICES ASSUME NEW x \in Calls PROVE JobIsTrue(jobs[x])'
        BY DEF JobsAreTrue, JobIsTrue
    <2>1. CASE x = c
        BY <2>1
    <2>2. CASE x # c
        <3>1. jobs'[x] = jobs[x] /\ JobIsTrue(jobs[x])
            BY <2>2 DEF JobsAreTrue, JobIsTrue
        <3>2. \A f : InFamily(f) \subseteq InFamily(f)'
            BY <1>1 DEF InFamily
        <3>3. jobs[x].phase = "revoking" => jobs[x].kind = "refresh" \/ jobs[x].kind = "revoke_all"
            BY <3>1 DEF JobIsTrue
        <3> QED
            BY <1>1, <3>1, <3>2, <3>3 DEF JobIsTrue
    <2> QED
        BY <2>1, <2>2
<1>3. DevicesWaitForTheirOwn'
    <2> SUFFICES ASSUME NEW d \in Devices
                 PROVE  /\ held[d] # 0 => Stored(held[d])'
                        /\ d \in lost => held[d] # 0
                        /\ waiting[d] # NoCall => LET i == jobs'[waiting[d]] IN
                            /\ i.kind \in {"login", "refresh", "logout"}
                            /\ \A e \in Devices \ {d} : waiting[e] # waiting[d]
                            /\ i.kind = "login" <=> held[d] = 0
                            /\ i.kind = "logout" => i.token = held[d]
                            /\ i.kind = "refresh" =>
                                /\ tokens'[i.token].family = tokens'[held[d]].family
                                /\ i.phase # "ok" => i.token = held[d]
        BY DEF DevicesWaitForTheirOwn
    <2>1. /\ held[d] # 0 => Stored(held[d])'
          /\ d \in lost => held[d] # 0
        BY <1>1 DEF DevicesWaitForTheirOwn
    <2>2. waiting[d] = NoCall \/ waiting[d] \in Calls
        BY DEF TypeOK
    <2>3. CASE waiting[d] # NoCall /\ waiting[d] = c
        <3>1. /\ jobs'[c] = j /\ j.kind = jobs[c].kind /\ jobs[c].phase # "ok"
              /\ j.kind = "logout" \/ (j.kind = "refresh" /\ j.phase # "ok") => j.token = jobs[c].token
            BY <2>2, <2>3
        <3>2. /\ jobs[c].kind \in {"login", "refresh", "logout"}
              /\ \A e \in Devices \ {d} : waiting[e] # c
              /\ jobs[c].kind = "login" <=> held[d] = 0
              /\ jobs[c].kind \in {"logout", "refresh"} => jobs[c].token = held[d]
            BY <2>3, <3>1 DEF DevicesWaitForTheirOwn
        <3>3. held[d] # 0 => tokens'[held[d]].family = tokens[held[d]].family
            BY <1>1 DEF DevicesWaitForTheirOwn
        <3> QED
            BY <2>1, <2>3, <3>1, <3>2, <3>3
    <2>4. CASE waiting[d] # NoCall /\ waiting[d] # c
        <3> DEFINE i == jobs[waiting[d]]
        <3>1. jobs'[waiting[d]] = i
            BY <2>2, <2>4
        <3>2. /\ i.kind \in {"login", "refresh", "logout"}
              /\ \A e \in Devices \ {d} : waiting[e] # waiting[d]
              /\ i.kind = "login" <=> held[d] = 0
              /\ i.kind = "logout" => i.token = held[d]
              /\ i.kind = "refresh" => /\ tokens[i.token].family = tokens[held[d]].family
                                       /\ i.phase # "ok" => i.token = held[d]
            BY <2>4 DEF DevicesWaitForTheirOwn
        <3>3. i.kind = "refresh" => Stored(i.token) /\ Stored(held[d])
            BY <2>2, <2>4, <3>2 DEF JobsAreTrue, DevicesWaitForTheirOwn
        <3> QED
            BY <1>1, <2>1, <3>1, <3>2, <3>3
    <2> QED
        BY <2>1, <2>3, <2>4
\* Every newest token is in the family of the one before, or in a new one.
<1>4. \A d \in Devices : Current(d)' # 0 =>
        \/ /\ Current(d) # 0 /\ Stored(Current(d))
           /\ tokens'[Current(d)'].family = tokens[Current(d)].family
        \/ /\ waiting[d] = c /\ c \in Calls
           /\ \A t \in Rows : Stored(t) => tokens[t].family # tokens'[Current(d)'].family
    <2> SUFFICES ASSUME NEW d \in Devices, Current(d)' # 0
                 PROVE  \/ /\ Current(d) # 0 /\ Stored(Current(d))
                           /\ tokens'[Current(d)'].family = tokens[Current(d)].family
                        \/ /\ waiting[d] = c /\ c \in Calls
                           /\ \A t \in Rows : Stored(t) => tokens[t].family # tokens'[Current(d)'].family
        OBVIOUS
    <2>1. waiting[d] = NoCall \/ waiting[d] \in Calls
        BY DEF TypeOK
    <2>2. CASE waiting[d] # NoCall /\ waiting[d] = c
        <3>1. /\ jobs'[c] = j /\ c \in Calls /\ j.kind = jobs[c].kind
              /\ Current(d) = held[d]
              /\ Current(d)' = IF j.kind # "logout" /\ j.phase = "ok" THEN j.token ELSE held[d]
            BY <2>1, <2>2 DEF Current
        <3>2. held[d] # 0 => Stored(held[d]) /\ tokens'[held[d]].family = tokens[held[d]].family
            BY <1>1 DEF DevicesWaitForTheirOwn
        <3>3. /\ jobs[c].kind \in {"login", "refresh", "logout"}
              /\ jobs[c].kind = "login" <=> held[d] = 0
              /\ jobs[c].kind = "refresh" => jobs[c].token = held[d]
            BY <2>1, <2>2 DEF DevicesWaitForTheirOwn
        <3> QED
            BY <2>2, <3>1, <3>2, <3>3
    <2>3. CASE waiting[d] = NoCall \/ waiting[d] # c
        <3>1. Current(d)' = Current(d)
            BY <2>1, <2>3 DEF Current
        <3>2. Stored(Current(d))
            BY <2>1, <3>1 DEF Current, DevicesWaitForTheirOwn, JobsAreTrue
        <3> QED
            BY <1>1, <3>1, <3>2
    <2> QED
        BY <2>2, <2>3
<1>5. SessionsHaveOneDevice'
    <2> SUFFICES ASSUME NEW d \in Devices, Current(d)' # 0
                 PROVE  /\ \A e \in Devices \ {d} :
                            Current(e)' # 0 => tokens'[Current(e)'].family # tokens'[Current(d)'].family
                        /\ d \notin lost =>
                            /\ \A x \in Calls :
                                /\ jobs'[x].kind \in {"refresh", "logout"}
                                /\ tokens'[jobs'[x].token].family = tokens'[Current(d)'].family
                                => waiting[d] = x
                            /\ Untouched(d)'
        BY DEF SessionsHaveOneDevice, Untouched
    <2>1. ASSUME NEW e \in Devices \ {d}, Current(e)' # 0
          PROVE  tokens'[Current(e)'].family # tokens'[Current(d)'].family
        <3>1. waiting[d] = c /\ c \in Calls => waiting[e] # c
            BY Sizes DEF DevicesWaitForTheirOwn
        <3>2. Current(d) # 0 /\ Current(e) # 0 => tokens[Current(e)].family # tokens[Current(d)].family
            BY DEF SessionsHaveOneDevice
        <3>3. \A t : Stored(t) => t \in Rows
            BY Typed
        <3> QED
            BY <1>4, <2>1, <3>1, <3>2, <3>3
    <2>2. ASSUME NEW x \in Calls, d \notin lost, jobs'[x].kind \in {"refresh", "logout"},
                 tokens'[jobs'[x].token].family = tokens'[Current(d)'].family
          PROVE  waiting[d] = x
        <3>1. jobs[x].kind \in {"refresh", "logout"} /\ Stored(jobs[x].token) /\ jobs[x].token \in Rows
            BY <2>2, Typed DEF JobsAreTrue
        <3>2. tokens'[jobs'[x].token].family = tokens[jobs[x].token].family
            BY <1>1, <2>2, <3>1
        <3>3. Current(d) # 0 /\ tokens'[Current(d)'].family = tokens[Current(d)].family
            BY <1>4, <2>2, <3>1, <3>2
        <3> QED
            BY <2>2, <3>1, <3>2, <3>3 DEF SessionsHaveOneDevice
    <2> QED
        BY <2>1, <2>2
<1>6. \A f \in ended : Stored(f)'
    BY <1>1
<1> QED
    BY <1>2, <1>3, <1>5, <1>6

-------------------------------------------------------------------------------
(* The devices' steps: rows stay, a request is dropped.                    *)

LEMMA DeviceStep ==
    ASSUME Core, NEW c \in Calls, UNCHANGED <<tokens, purged>>, TypeOK',
           \A x \in Calls : jobs'[x] = jobs[x] \/ (x = c /\ jobs'[x] = NoJob),
           \A e \in Devices : waiting[e] # c =>
               held'[e] = held[e] /\ waiting'[e] = waiting[e] /\ (e \in lost' <=> e \in lost),
           \A e \in Devices : waiting[e] = c =>
               /\ waiting'[e] = NoCall
               /\ held'[e] \in {0, held[e], Current(e)}
               /\ e \in lost' => held'[e] # 0
               /\ e \notin lost' /\ held'[e] # 0 =>
                    /\ e \notin lost /\ held'[e] = Current(e)
                    /\ jobs'[c] = NoJob \/ jobs[c].kind = "login"
                    /\ jobs[c].kind # "logout",
           \A f \in ended' : Stored(f), EndedAreDead'
    PROVE  Core'
<1> USE DEF Core
<1>1. \A t : (Stored(t)' <=> Stored(t)) /\ (Live(t)' <=> Live(t))
    BY DEF Stored, Live, Revocable
<1>2. \A f : InFamily(f)' = InFamily(f)
    BY DEF InFamily, Stored
<1>3. \A x \in Calls : jobs'[x].kind # "none" \/ jobs'[x].phase # "none" => jobs'[x] = jobs[x]
    BY DEF NoJob
<1>4. SessionsAreChains'
    BY <1>1, <1>3 DEF SessionsAreChains
<1>5. JobsAreTrue'
    <2> SUFFICES ASSUME NEW x \in Calls PROVE JobIsTrue(jobs[x])'
        BY DEF JobsAreTrue, JobIsTrue
    <2>1. CASE jobs'[x] = NoJob
        BY <2>1 DEF JobIsTrue, NoJob
    <2>2. CASE jobs'[x] = jobs[x]
        <3>1. JobIsTrue(jobs[x])
            BY DEF JobsAreTrue, JobIsTrue
        <3> QED
            BY <1>1, <1>2, <2>2, <3>1 DEF JobIsTrue
    <2> QED
        BY <2>1, <2>2
<1>6. \A e \in Devices : held'[e] # 0 =>
        /\ Current(e) # 0 /\ Stored(Current(e)) /\ Stored(held'[e])
        /\ waiting[e] = c => tokens[held'[e]].family = tokens[Current(e)].family
    <2> SUFFICES ASSUME NEW e \in Devices, held'[e] # 0
                 PROVE  /\ Current(e) # 0 /\ Stored(Current(e)) /\ Stored(held'[e])
                        /\ waiting[e] = c => tokens[held'[e]].family = tokens[Current(e)].family
        OBVIOUS
    <2>1. waiting[e] = NoCall \/ waiting[e] \in Calls
        BY DEF TypeOK
    <2>2. held[e] # 0 => Stored(held[e])
        BY DEF DevicesWaitForTheirOwn
    <2>3. held[e] # 0 => Stored(Current(e)) /\ tokens[held[e]].family = tokens[Current(e)].family
        BY <2>1, <2>2 DEF Current, DevicesWaitForTheirOwn, JobsAreTrue
    <2>4. Current(e) # 0 => Stored(Current(e))
        BY <2>1, <2>2 DEF Current, DevicesWaitForTheirOwn, JobsAreTrue
    <2>5. ~Stored(0)
        BY Sizes DEF Stored
    <2> QED
        BY <2>2, <2>3, <2>4, <2>5
<1>7. DevicesWaitForTheirOwn'
    <2> SUFFICES ASSUME NEW d \in Devices
                 PROVE  /\ held'[d] # 0 => Stored(held'[d])
                        /\ d \in lost' => held'[d] # 0
                        /\ waiting'[d] # NoCall => LET i == jobs'[waiting'[d]] IN
                            /\ i.kind \in {"login", "refresh", "logout"}
                            /\ \A e \in Devices \ {d} : waiting'[e] # waiting'[d]
                            /\ i.kind = "login" <=> held'[d] = 0
                            /\ i.kind = "logout" => i.token = held'[d]
                            /\ i.kind = "refresh" =>
                                /\ tokens[i.token].family = tokens[held'[d]].family
                                /\ i.phase # "ok" => i.token = held'[d]
        BY <1>1 DEF DevicesWaitForTheirOwn
    <2>1. CASE waiting[d] = c
        BY <1>6, <2>1
    <2>2. CASE waiting[d] # c
        <3>1. waiting[d] # NoCall => waiting[d] \in Calls /\ jobs'[waiting[d]] = jobs[waiting[d]]
            BY <2>2 DEF TypeOK
        <3>2. waiting[d] # NoCall => \A e \in Devices \ {d} : waiting'[e] # waiting[d]
            BY <2>2 DEF DevicesWaitForTheirOwn
        <3> QED
            BY <1>6, <2>2, <3>1, <3>2 DEF DevicesWaitForTheirOwn
    <2> QED
        BY <2>1, <2>2
<1>8. \A e \in Devices : Current(e)' # 0 =>
        /\ Current(e) # 0 /\ tokens[Current(e)'].family = tokens[Current(e)].family
        /\ waiting[e] # c => Current(e)' = Current(e)
        /\ waiting[e] = c => Current(e)' = held'[e]
    <2> SUFFICES ASSUME NEW e \in Devices, Current(e)' # 0
                 PROVE  /\ Current(e) # 0 /\ tokens[Current(e)'].family = tokens[Current(e)].family
                        /\ waiting[e] # c => Current(e)' = Current(e)
                        /\ waiting[e] = c => Current(e)' = held'[e]
        OBVIOUS
    <2>1. CASE waiting[e] = c
        <3>1. Current(e)' = held'[e]
            BY <2>1 DEF Current
        <3> QED
            BY <1>6, <2>1, <3>1
    <2>2. CASE waiting[e] # c
        <3>1. waiting[e] # NoCall => jobs'[waiting[e]] = jobs[waiting[e]]
            BY <2>2 DEF TypeOK
        <3>2. Current(e)' = Current(e)
            BY <2>2, <3>1 DEF Current
        <3> QED
            BY <2>2, <3>2
    <2> QED
        BY <2>1, <2>2
<1>9. SessionsHaveOneDevice'
    <2> SUFFICES ASSUME NEW d \in Devices, Current(d)' # 0
                 PROVE  /\ \A e \in Devices \ {d} :
                            Current(e)' # 0 => tokens[Current(e)'].family # tokens[Current(d)'].family
                        /\ d \notin lost' =>
                            /\ \A x \in Calls :
                                /\ jobs'[x].kind \in {"refresh", "logout"}
                                /\ tokens[jobs'[x].token].family = tokens[Current(d)'].family
                                => waiting'[d] = x
                            /\ Untouched(d)'
        BY DEF SessionsHaveOneDevice, Untouched
    <2>1. \A e \in Devices \ {d} :
            Current(e)' # 0 => tokens[Current(e)'].family # tokens[Current(d)'].family
        BY <1>8 DEF SessionsHaveOneDevice
    <2>2. CASE d \notin lost' /\ waiting[d] = c
        <3>1. /\ d \notin lost /\ held'[d] = Current(d) /\ Current(d)' = Current(d)
              /\ jobs'[c] = NoJob \/ jobs[c].kind = "login"
              /\ jobs[c].kind # "logout" /\ waiting'[d] = NoCall
            BY <1>8, <2>2
        <3>2. ASSUME NEW x \in Calls, jobs'[x].kind \in {"refresh", "logout"},
                     tokens[jobs'[x].token].family = tokens[Current(d)].family
              PROVE  FALSE
            <4>1. jobs'[x] = jobs[x]
                BY <1>3, <3>2
            <4>2. x = c
                BY <2>2, <3>1, <3>2, <4>1 DEF SessionsHaveOneDevice
            <4> QED
                BY <3>1, <3>2, <4>1, <4>2 DEF NoJob
        <3>3. Untouched(d)'
            BY <2>2, <3>1 DEF Untouched, SessionsHaveOneDevice
        <3> QED
            BY <2>1, <3>1, <3>2, <3>3
    <2>3. CASE d \notin lost' /\ waiting[d] # c
        <3>1. d \notin lost /\ Current(d)' = Current(d) /\ waiting'[d] = waiting[d]
            BY <1>8, <2>3
        <3>2. waiting[d] # NoCall => jobs'[waiting[d]] = jobs[waiting[d]]
            BY <2>3 DEF TypeOK
        <3>3. \A x \in Calls : jobs'[x].kind \in {"refresh", "logout"} => jobs'[x] = jobs[x]
            BY <1>3
        <3>4. Untouched(d)'
            BY <3>1, <3>2 DEF Untouched, SessionsHaveOneDevice
        <3> QED
            BY <2>1, <3>1, <3>3, <3>4 DEF SessionsHaveOneDevice
    <2> QED
        BY <2>1, <2>2, <2>3
<1> QED
    BY <1>1, <1>4, <1>5, <1>7, <1>9

-------------------------------------------------------------------------------
(* What the queries do to the rows.                                        *)

\* Rows that stay as they are.
LEMMA SameRows ==
    ASSUME UNCHANGED tokens
    PROVE  Grows /\ (\A t : (Stored(t)' <=> Stored(t)) /\ (Live(t)' <=> Live(t)))
BY DEF Grows, Stored, Live, Revocable

\* UPDATEs of revoked and expired: no family or consumption changes.
LEMMA RowsMarked ==
    ASSUME TypeOK, SessionsAreChains, EndedAreDead, UNCHANGED ended,
           tokens' \in [Rows -> {NoRow} \union TokenRows],
           \A t \in Rows : \/ tokens'[t] = tokens[t]
                           \/ /\ Stored(t) /\ tokens'[t] # NoRow
                              /\ tokens'[t].family = tokens[t].family /\ tokens'[t].user = tokens[t].user
                              /\ tokens'[t].consumed = tokens[t].consumed
                              /\ ~Live(t)' /\ t \notin Locked,
           \A c \in Calls : jobs'[c].phase = "rotating" => jobs'[c] = jobs[c]
    PROVE  Grows /\ SessionsAreChains' /\ EndedAreDead'
<1>1. \A t : (Stored(t)' <=> Stored(t)) /\ (Stored(t) => t \in Rows)
    BY DEF Stored
<1>2. \A t \in Rows : Stored(t) => tokens'[t].family = tokens[t].family /\ tokens'[t].consumed = tokens[t].consumed
    OBVIOUS
<1>3. \A t \in Rows : Live(t)' => Live(t) /\ tokens'[t] = tokens[t]
    BY DEF Live, Revocable, Stored
<1>4. Grows
    BY <1>1, <1>3 DEF Grows, Stored
<1>5. \A c \in Calls : jobs[c].phase = "rotating" => jobs[c].locked \in Locked
    BY DEF Locked
<1>6. \A c \in Calls : jobs'[c].phase = "rotating" => jobs'[c] = jobs[c] /\ Live(jobs[c].token)'
    <2> SUFFICES ASSUME NEW c \in Calls, jobs'[c].phase = "rotating"
                 PROVE  jobs'[c] = jobs[c] /\ Live(jobs[c].token)'
        OBVIOUS
    <2>1. jobs'[c] = jobs[c] /\ Live(jobs[c].token) /\ jobs[c].token \in Locked /\ jobs[c].token \in Rows
        BY <1>5 DEF SessionsAreChains, Live, Revocable, Stored
    <2>2. tokens'[jobs[c].token] = tokens[jobs[c].token]
        BY <2>1
    <2> QED
        BY <2>1, <2>2 DEF Live, Revocable, Stored
<1>7. SessionsAreChains'
    <2>1. \A t \in Rows : Stored(t)' => Stored(tokens[t].family)'
        BY <1>1, <1>2 DEF SessionsAreChains
    <2>2. \A t, u \in Rows :
            /\ Stored(t)' /\ Stored(u)' /\ tokens'[t].family = tokens'[u].family
            /\ ~tokens'[t].consumed /\ ~tokens'[u].consumed
            => t = u
        BY <1>1, <1>2 DEF SessionsAreChains
    <2>3. \A c \in Calls : jobs'[c].phase = "rotating" =>
            /\ jobs'[c].kind = "refresh" /\ jobs'[c].locked = jobs'[c].token
            /\ Live(jobs[c].token)'
            /\ \A x \in Calls \ {c} : jobs'[x].phase = "rotating" => jobs'[x].locked # jobs'[c].locked
        BY <1>6 DEF SessionsAreChains
    <2> QED
        BY <2>1, <2>2, <2>3 DEF SessionsAreChains
<1>8. EndedAreDead'
    BY <1>1, <1>2, <1>3 DEF EndedAreDead
<1> QED
    BY <1>4, <1>7, <1>8

\* What Answer makes of a request.
LEMMA Answers ==
    ASSUME TypeOK, NEW c \in Calls, jobs[c] \in JobRows, NEW phase \in Final, NEW t \in Rows \union {0},
           Answer(c, phase, t)
    PROVE  \E j \in JobRows \union {NoJob} :
            /\ jobs' \in [Calls -> {NoJob} \union JobRows]
            /\ \A x \in Calls : jobs'[x] = IF x = c THEN j ELSE jobs[x]
            /\ \/ j = NoJob /\ \A d \in Devices : waiting[d] # c
               \/ j.kind = jobs[c].kind /\ j.phase = phase /\ j.token = t /\ j.user = jobs[c].user
<1>1. jobs \in [Calls -> {NoJob} \union JobRows]
    BY DEF TypeOK, JobRows
<1>2. CASE \E d \in Devices : waiting[d] = c
    <2> DEFINE j == [jobs[c] EXCEPT !.phase = phase, !.token = t, !.locked = 0, !.seen = {}]
    <2>1. j \in JobRows
        BY DEF JobRows
    <2>2. j.kind = jobs[c].kind /\ j.phase = phase /\ j.token = t /\ j.user = jobs[c].user
        BY DEF JobRows
    <2>3. jobs' = [jobs EXCEPT ![c] = j]
        BY <1>1, <1>2 DEF Answer
    <2> HIDE DEF j
    <2> QED
        BY <1>1, <2>1, <2>2, <2>3
<1>3. CASE ~\E d \in Devices : waiting[d] = c
    BY <1>1, <1>3 DEF Answer
<1> QED
    BY <1>2, <1>3

-------------------------------------------------------------------------------
(* The actions.                                                            *)

\* A request is in the table of the server.
LEMMA JobsHere ==
    ASSUME Core, NEW c \in Calls, jobs[c].phase \in {"sent", "rotating", "revoking"} \union Final
    PROVE  /\ jobs[c] \in JobRows /\ JobIsTrue(jobs[c])
           /\ jobs \in [Calls -> {NoJob} \union JobRows] /\ tokens \in [Rows -> {NoRow} \union TokenRows]
<1>1. jobs \in [Calls -> {NoJob} \union JobRows] /\ tokens \in [Rows -> {NoRow} \union TokenRows]
    BY DEF Core, TypeOK, JobRows, TokenRows
<1>2. jobs[c] # NoJob
    BY DEF NoJob, Final
<1> QED
    BY <1>1, <1>2 DEF Core, JobsAreTrue, JobIsTrue

LEMMA SendKeeps ==
    ASSUME Core, NEW d \in Devices, NEW c \in Calls, NEW r \in JobRows, r.phase = "sent",
           \/ r.kind = "login" /\ held[d] = 0
           \/ r.kind \in {"refresh", "logout"} /\ held[d] # 0 /\ r.token = held[d],
           Send(d, c, r)
    PROVE  Core'
<1> USE DEF Core
<1>1. /\ waiting[d] = NoCall /\ jobs[c] = NoJob /\ c # NoCall
      /\ \A x \in Calls : jobs'[x] = IF x = c THEN r ELSE jobs[x]
      /\ \A e \in Devices : waiting'[e] = IF e = d THEN c ELSE waiting[e]
      /\ UNCHANGED <<tokens, held, lost, ended, purged, faults>>
    BY Sizes DEF Send, Idle, Unused, TypeOK, ghosts
<1>2. TypeOK'
    <2>1. jobs' \in [Calls -> {NoJob} \union JobRows]
        BY <1>1 DEF Send, TypeOK, JobRows
    <2>2. waiting' \in [Devices -> Calls \union {NoCall}]
        BY DEF Send, TypeOK
    <2> QED
        BY <1>1, <2>1, <2>2 DEF TypeOK, JobRows
<1>3. \A t : (Stored(t)' <=> Stored(t)) /\ (Live(t)' <=> Live(t))
    BY <1>1, SameRows
<1>4. \A e \in Devices : waiting[e] # c /\ (waiting[e] = NoCall \/ waiting[e] \in Calls)
    BY <1>1 DEF DevicesWaitForTheirOwn, NoJob, TypeOK
<1>5. r.phase \notin {"ok", "rotating", "revoking"}
    OBVIOUS
<1>6. SessionsAreChains'
    BY <1>1, <1>3, <1>5 DEF SessionsAreChains
<1>7. JobsAreTrue'
    <2>1. held[d] # 0 => Stored(held[d])
        BY DEF DevicesWaitForTheirOwn
    <2>2. \A f : InFamily(f)' = InFamily(f)
        BY <1>1, <1>3 DEF InFamily
    <2>3. ASSUME NEW x \in Calls, x # c PROVE JobIsTrue(jobs[x])'
        <3>1. jobs'[x] = jobs[x] /\ JobIsTrue(jobs[x])
            BY <1>1, <2>3 DEF JobsAreTrue, JobIsTrue
        <3> QED
            BY <1>1, <1>3, <2>2, <3>1 DEF JobIsTrue
    <2>4. JobIsTrue(jobs[c])'
        BY <1>1, <1>3, <1>5, <2>1 DEF JobIsTrue
    <2> QED
        BY <2>3, <2>4 DEF JobsAreTrue, JobIsTrue
<1>8. DevicesWaitForTheirOwn'
    <2> SUFFICES ASSUME NEW e \in Devices
                 PROVE  /\ held[e] # 0 => Stored(held[e])
                        /\ e \in lost => held[e] # 0
                        /\ waiting'[e] # NoCall => LET i == jobs'[waiting'[e]] IN
                            /\ i.kind \in {"login", "refresh", "logout"}
                            /\ \A f \in Devices \ {e} : waiting'[f] # waiting'[e]
                            /\ i.kind = "login" <=> held[e] = 0
                            /\ i.kind = "logout" => i.token = held[e]
                            /\ i.kind = "refresh" =>
                                /\ tokens[i.token].family = tokens[held[e]].family
                                /\ i.phase # "ok" => i.token = held[e]
        BY <1>1, <1>3 DEF DevicesWaitForTheirOwn
    <2>1. CASE e = d
        BY <1>1, <1>4, <2>1 DEF DevicesWaitForTheirOwn
    <2>2. CASE e # d
        <3>1. waiting'[e] = waiting[e] /\ (waiting[e] # NoCall => jobs'[waiting[e]] = jobs[waiting[e]])
            BY <1>1, <1>4, <2>2
        <3>2. waiting[e] # NoCall => \A f \in Devices \ {e} : waiting'[f] # waiting[e]
            BY <1>1, <1>4, <2>2 DEF DevicesWaitForTheirOwn
        <3> QED
            BY <3>1, <3>2 DEF DevicesWaitForTheirOwn
    <2> QED
        BY <2>1, <2>2
<1>9. \A e \in Devices : Current(e)' = Current(e)
    <2> SUFFICES ASSUME NEW e \in Devices PROVE Current(e)' = Current(e)
        OBVIOUS
    <2>1. CASE e = d
        BY <1>1, <1>5, <2>1 DEF Current
    <2>2. CASE e # d
        <3>1. waiting'[e] = waiting[e] /\ (waiting[e] # NoCall => jobs'[waiting[e]] = jobs[waiting[e]])
            BY <1>1, <1>4, <2>2
        <3> QED
            BY <1>1, <3>1 DEF Current
    <2> QED
        BY <2>1, <2>2
<1>10. SessionsHaveOneDevice'
    <2> SUFFICES ASSUME NEW e \in Devices, Current(e) # 0
                 PROVE  /\ \A f \in Devices \ {e} :
                            Current(f) # 0 => tokens[Current(f)].family # tokens[Current(e)].family
                        /\ e \notin lost =>
                            /\ \A x \in Calls :
                                /\ jobs'[x].kind \in {"refresh", "logout"}
                                /\ tokens[jobs'[x].token].family = tokens[Current(e)].family
                                => waiting'[e] = x
                            /\ Untouched(e)'
        BY <1>1, <1>9 DEF SessionsHaveOneDevice, Untouched
    <2>1. \A f \in Devices \ {e} : Current(f) # 0 => tokens[Current(f)].family # tokens[Current(e)].family
        BY DEF SessionsHaveOneDevice
    <2>2. Current(d) = held[d]
        BY <1>1 DEF Current
    <2>3. ASSUME e \notin lost, NEW x \in Calls, jobs'[x].kind \in {"refresh", "logout"},
                 tokens[jobs'[x].token].family = tokens[Current(e)].family
          PROVE  waiting'[e] = x
        <3>1. CASE x = c
            BY <1>1, <2>1, <2>2, <2>3, <3>1
        <3>2. CASE x # c
            <4>1. waiting[e] = x /\ x # NoCall
                BY <1>1, <2>3, <3>2, Sizes DEF SessionsHaveOneDevice
            <4> QED
                BY <1>1, <4>1
        <3> QED
            BY <3>1, <3>2
    <2>4. e \notin lost => Untouched(e)'
        <3>1. e = d => waiting[e] = NoCall
            BY <1>1
        <3>2. e # d => waiting'[e] = waiting[e] /\ (waiting[e] # NoCall => jobs'[waiting[e]] = jobs[waiting[e]])
            BY <1>1, <1>4
        <3> QED
            BY <1>1, <1>9, <3>1, <3>2 DEF SessionsHaveOneDevice, Untouched
    <2> QED
        BY <2>1, <2>3, <2>4
<1>11. (\A f \in ended' : Stored(f)') /\ EndedAreDead'
    BY <1>1, <1>3 DEF EndedAreDead
<1> QED
    BY <1>2, <1>6, <1>7, <1>8, <1>10, <1>11

LEMMA ClientSends ==
    ASSUME Core, NEW d \in Devices, NEW c \in Calls,
           (\E u \in Users : SignIn(d, c, u)) \/ Refresh(d, c) \/ Logout(d, c)
    PROVE  Core'
<1>1. held[d] # 0 => held[d] \in Rows /\ tokens[held[d]].user \in Users
    <2>1. held[d] # 0 => Stored(held[d])
        BY DEF Core, DevicesWaitForTheirOwn
    <2> QED
        BY <2>1, Typed DEF Core, TokenRows
<1>2. \A u \in Users, t \in Rows \union {0}, k \in {"login", "refresh", "logout", "revoke_all"} :
        /\ Request(k, u, t) \in JobRows /\ Request(k, u, t).phase = "sent"
        /\ Request(k, u, t).kind = k /\ Request(k, u, t).token = t
    BY DEF Request, JobRows
<1>3. CASE \E u \in Users : SignIn(d, c, u)
    BY <1>2, <1>3, SendKeeps DEF SignIn
<1>4. CASE Refresh(d, c)
    BY <1>1, <1>2, <1>4, SendKeeps DEF Refresh
<1>5. CASE Logout(d, c)
    BY <1>1, <1>2, <1>5, SendKeeps DEF Logout
<1> QED
    BY <1>3, <1>4, <1>5

LEMMA AnsweredKeeps ==
    ASSUME Core, NEW d \in Devices, Answered(d)
    PROVE  Core'
<1> USE DEF Core
<1> DEFINE c == waiting[d]
           j == jobs[c]
<1>1. /\ c \in Calls /\ c # NoCall /\ j.phase \in Final /\ j \in JobRows /\ JobIsTrue(j)
    BY JobsHere DEF Answered, Idle, TypeOK
<1>2. /\ \A e \in Devices : held'[e] = IF e = d THEN HeldAfter(j, held[d]) ELSE held[e]
      /\ \A e \in Devices : waiting'[e] = IF e = d THEN NoCall ELSE waiting[e]
      /\ \A x \in Calls : jobs'[x] = IF x = c THEN NoJob ELSE jobs[x]
      /\ lost' = IF j.kind = "login" \/ held'[d] = 0 THEN lost \ {d} ELSE lost
      /\ ended' = IF j.kind = "logout" /\ d \notin lost THEN ended \union {tokens[j.token].family} ELSE ended
      /\ UNCHANGED <<tokens, purged, faults>>
    BY DEF Answered, TypeOK
<1>3. /\ j.kind \in {"login", "refresh", "logout"}
      /\ \A e \in Devices \ {d} : waiting[e] # c
      /\ j.kind = "login" <=> held[d] = 0
      /\ j.kind = "logout" => j.token = held[d] /\ j.phase = "ok"
      /\ d \in lost => held[d] # 0
    BY <1>1 DEF DevicesWaitForTheirOwn, JobIsTrue, Final
<1>4. j.phase = "ok" => Stored(j.token) /\ j.token \in Rows /\ tokens[j.token].family \in Rows
    <2>1. j.phase = "ok" => Stored(j.token)
        BY <1>1, <1>3 DEF JobIsTrue
    <2> QED
        BY <2>1, Typed DEF TokenRows
<1>5. HeldAfter(j, held[d]) \in {0, held[d], Current(d)} /\ HeldAfter(j, held[d]) \in Rows \union {0}
    <2>1. Current(d) = IF j.kind # "logout" /\ j.phase = "ok" THEN j.token ELSE held[d]
        BY <1>1 DEF Current
    <2> QED
        BY <1>4, <2>1 DEF HeldAfter, TypeOK
<1>6. HeldAfter(j, held[d]) # 0 => HeldAfter(j, held[d]) = Current(d) /\ j.kind # "logout"
    BY <1>1, <1>3 DEF HeldAfter, Current
<1>7. TypeOK'
    <2>1. held' \in [Devices -> Rows \union {0}]
        BY <1>5 DEF Answered, TypeOK
    <2>2. waiting' \in [Devices -> Calls \union {NoCall}] /\ jobs' \in [Calls -> {NoJob} \union JobRows]
        BY DEF Answered, TypeOK, JobRows
    <2>3. ended' \subseteq Rows /\ lost' \subseteq Devices
        BY <1>2, <1>3, <1>4 DEF TypeOK
    <2> QED
        BY <1>2, <2>1, <2>2, <2>3 DEF TypeOK, JobRows
\* An answered logout leaves its token, the only one of the session that was
\* not consumed, without effect.
<1>8. (\A f \in ended' : Stored(f)) /\ EndedAreDead'
    <2>1. \A t : (Stored(t)' <=> Stored(t)) /\ (Live(t)' <=> Live(t))
        BY <1>2, SameRows
    <2>2. ASSUME j.kind = "logout", d \notin lost,
                 NEW t \in Rows, Stored(t), tokens[t].family = tokens[j.token].family, Live(t)
          PROVE  FALSE
        <3>1. Current(d) = j.token /\ ~Live(j.token) /\ Stored(j.token)
            BY <1>1, <1>3, <2>2 DEF Current, JobIsTrue
        <3>2. ~tokens[j.token].consumed /\ j.token \in Rows
            BY <1>4, <1>3, <2>2, <3>1 DEF SessionsHaveOneDevice, Stored
        <3>3. t = j.token
            BY <2>2, <3>1, <3>2, Typed DEF SessionsAreChains
        <3> QED
            BY <2>2, <3>1, <3>3
    <2>3. j.kind = "logout" => Stored(tokens[j.token].family)
        BY <1>3, <1>4 DEF SessionsAreChains
    <2> QED
        BY <1>2, <2>1, <2>2, <2>3 DEF EndedAreDead
<1>9. \A e \in Devices : waiting[e] # c =>
        held'[e] = held[e] /\ waiting'[e] = waiting[e] /\ (e \in lost' <=> e \in lost)
    BY <1>2
<1>10. \A e \in Devices : waiting[e] = c =>
        /\ waiting'[e] = NoCall
        /\ held'[e] \in {0, held[e], Current(e)}
        /\ e \in lost' => held'[e] # 0
        /\ e \notin lost' /\ held'[e] # 0 =>
            /\ e \notin lost /\ held'[e] = Current(e)
            /\ jobs'[c] = NoJob \/ jobs[c].kind = "login"
            /\ jobs[c].kind # "logout"
    <2> SUFFICES ASSUME NEW e \in Devices, waiting[e] = c
                 PROVE  /\ waiting'[e] = NoCall
                        /\ held'[e] \in {0, held[e], Current(e)}
                        /\ e \in lost' => held'[e] # 0
                        /\ e \notin lost' /\ held'[e] # 0 =>
                            /\ e \notin lost /\ held'[e] = Current(e)
                            /\ jobs'[c] = NoJob \/ jobs[c].kind = "login"
                            /\ jobs[c].kind # "logout"
        OBVIOUS
    <2>1. e = d
        BY <1>3
    <2>2. held'[d] = HeldAfter(j, held[d]) /\ waiting'[d] = NoCall /\ jobs'[c] = NoJob
        BY <1>1, <1>2
    <2>3. d \in lost' => held'[d] # 0
        BY <1>2, <1>3
    <2>4. d \notin lost' /\ held'[d] # 0 => d \notin lost
        BY <1>2, <1>3
    <2> QED
        BY <1>5, <1>6, <2>1, <2>2, <2>3, <2>4
<1> HIDE DEF j
<1> QED
    BY <1>1, <1>2, <1>7, <1>8, <1>9, <1>10, DeviceStep

LEMMA GiveUpKeeps ==
    ASSUME Core, NEW d \in Devices, GiveUp(d)
    PROVE  Core'
<1> USE DEF Core
<1> DEFINE c == waiting[d]
<1>1. c \in Calls /\ c # NoCall
    BY DEF GiveUp, Idle, TypeOK
<1>2. /\ jobs[c].kind \in {"login", "refresh", "logout"}
      /\ \A e \in Devices \ {d} : waiting[e] # c
      /\ jobs[c].kind = "login" <=> held[d] = 0
      /\ d \in lost => held[d] # 0
    BY <1>1 DEF DevicesWaitForTheirOwn
<1>3. /\ \A e \in Devices : held'[e] = IF e = d /\ jobs[c].kind = "logout" THEN 0 ELSE held[e]
      /\ \A e \in Devices : waiting'[e] = IF e = d THEN NoCall ELSE waiting[e]
      /\ \A x \in Calls : jobs'[x] = jobs[x] \/ (x = c /\ jobs'[x] = NoJob)
      /\ lost' = IF jobs[c].kind = "refresh" THEN lost \union {d}
                 ELSE IF jobs[c].kind = "logout" THEN lost \ {d} ELSE lost
      /\ UNCHANGED <<tokens, ended, purged>>
    BY DEF GiveUp, TypeOK, ghosts
<1>4. TypeOK'
    <2>1. held' \in [Devices -> Rows \union {0}] /\ waiting' \in [Devices -> Calls \union {NoCall}]
        BY DEF GiveUp, TypeOK
    <2>2. jobs' \in [Calls -> {NoJob} \union JobRows]
        BY DEF GiveUp, TypeOK, JobRows
    <2>3. faults' \in 0..MaxFaults /\ lost' \subseteq Devices
        BY <1>3, Sizes DEF GiveUp, TypeOK
    <2> QED
        BY <1>3, <2>1, <2>2, <2>3 DEF TypeOK, JobRows
<1>5. (\A f \in ended' : Stored(f)) /\ EndedAreDead'
    BY <1>3, SameRows DEF EndedAreDead
<1>6. \A e \in Devices : waiting[e] # c =>
        held'[e] = held[e] /\ waiting'[e] = waiting[e] /\ (e \in lost' <=> e \in lost)
    BY <1>3
<1>7. \A e \in Devices : waiting[e] = c =>
        /\ waiting'[e] = NoCall
        /\ held'[e] \in {0, held[e], Current(e)}
        /\ e \in lost' => held'[e] # 0
        /\ e \notin lost' => held'[e] = 0
    BY <1>2, <1>3
<1> QED
    BY <1>1, <1>3, <1>4, <1>5, <1>6, <1>7, DeviceStep

LEMMA AbortKeeps ==
    ASSUME Core, NEW c \in Calls, Abort(c)
    PROVE  Core'
<1> USE DEF Core
<1>1. jobs[c].phase \in {"sent", "rotating", "revoking"} /\ c # NoCall
    BY Sizes DEF Abort
<1>2. \A e \in Devices : waiting[e] = c => Current(e) = held[e]
    BY <1>1 DEF Current
<1>3. /\ \A e \in Devices : held'[e] = IF waiting[e] = c /\ jobs[c].kind = "logout" THEN 0 ELSE held[e]
      /\ \A e \in Devices : waiting'[e] = IF waiting[e] = c THEN NoCall ELSE waiting[e]
      /\ \A x \in Calls : jobs'[x] = IF x = c THEN NoJob ELSE jobs[x]
      /\ lost' = {d \in lost : held'[d] # 0}
      /\ UNCHANGED <<tokens, ended, purged>>
    BY DEF Abort, TypeOK, ghosts
<1>4. TypeOK'
    <2>1. held' \in [Devices -> Rows \union {0}] /\ waiting' \in [Devices -> Calls \union {NoCall}]
        BY DEF Abort, TypeOK
    <2>2. jobs' \in [Calls -> {NoJob} \union JobRows]
        BY DEF Abort, TypeOK, JobRows
    <2>3. faults' \in 0..MaxFaults /\ lost' \subseteq Devices
        BY <1>3, Sizes DEF Abort, TypeOK
    <2> QED
        BY <1>3, <2>1, <2>2, <2>3 DEF TypeOK, JobRows
<1>5. (\A f \in ended' : Stored(f)) /\ EndedAreDead'
    BY <1>3, SameRows DEF EndedAreDead
<1>6. \A e \in lost : held[e] # 0
    BY DEF DevicesWaitForTheirOwn, TypeOK
<1>7. \A e \in Devices : waiting[e] # c =>
        held'[e] = held[e] /\ waiting'[e] = waiting[e] /\ (e \in lost' <=> e \in lost)
    BY <1>3, <1>6
<1>8. \A e \in Devices : waiting[e] = c =>
        /\ waiting'[e] = NoCall
        /\ held'[e] \in {0, held[e], Current(e)}
        /\ e \in lost' => held'[e] # 0
        /\ e \notin lost' /\ held'[e] # 0 =>
            /\ e \notin lost /\ held'[e] = Current(e)
            /\ jobs'[c] = NoJob \/ jobs[c].kind = "login"
            /\ jobs[c].kind # "logout"
    BY <1>2, <1>3
<1> QED
    BY <1>3, <1>4, <1>5, <1>7, <1>8, DeviceStep

\* A server step that neither touches a row nor starts a rotation.
LEMMA QuietStep ==
    ASSUME Core, NEW c \in Calls, NEW j \in JobRows \union {NoJob},
           jobs' \in [Calls -> {NoJob} \union JobRows],
           \A x \in Calls : jobs'[x] = IF x = c THEN j ELSE jobs[x],
           UNCHANGED <<tokens, held, waiting, lost, ended, faults>>,
           purged \subseteq purged', purged' \subseteq Users,
           jobs[c].phase # "ok", j.phase \notin {"rotating", "ok"},
           JobIsTrue(j)',
           j.kind \in {"refresh", "logout"} => jobs[c].kind = j.kind /\ j.token = jobs[c].token,
           \A d \in Devices : waiting[d] = c =>
               j.kind = jobs[c].kind /\ (j.kind = "login" \/ j.token = jobs[c].token)
    PROVE  Core'
<1> USE DEF Core
<1>1. Grows /\ (\A t : (Stored(t)' <=> Stored(t)) /\ (Live(t)' <=> Live(t)))
    BY SameRows
<1>2. TypeOK'
    BY DEF TypeOK, JobRows
<1>3. SessionsAreChains' /\ EndedAreDead'
    BY <1>1 DEF SessionsAreChains, EndedAreDead
<1>4. \A d \in Devices : Current(d)' = Current(d)
    BY Sizes DEF Current, TypeOK
<1>5. \A d \in Devices \ lost : Current(d)' # 0 => Untouched(d)'
    <2> SUFFICES ASSUME NEW d \in Devices \ lost, Current(d) # 0 PROVE Untouched(d)'
        BY <1>4
    <2>1. waiting[d] = NoCall \/ waiting[d] \in Calls
        BY DEF TypeOK
    <2>2. CASE waiting[d] # c \/ waiting[d] = NoCall
        <3>1. waiting[d] # NoCall => jobs'[waiting[d]] = jobs[waiting[d]]
            BY <2>1, <2>2
        <3> QED
            BY <1>4, <3>1 DEF Untouched, SessionsHaveOneDevice
    <2>3. CASE waiting[d] = c
        <3>1. ~(jobs[c].kind = "logout" /\ jobs[c].phase = "ok")
            OBVIOUS
        <3> QED
            BY <1>4, <2>3, <3>1 DEF Untouched, SessionsHaveOneDevice
    <2> QED
        BY <2>2, <2>3
<1> QED
    BY <1>1, <1>2, <1>3, <1>5, ServerStep

LEMMA BeginKeeps ==
    ASSUME Core, NEW c \in Calls, BeginRefresh(c)
    PROVE  Core'
<1> USE DEF Core
<1> DEFINE t == jobs[c].token
<1>1. /\ jobs[c].kind = "refresh" /\ jobs[c].phase = "sent" /\ t \notin Locked
      /\ UNCHANGED <<tokens, held, waiting, lost, ended, purged, faults>>
    BY DEF BeginRefresh, ghosts
<1>2. /\ jobs[c] \in JobRows /\ jobs \in [Calls -> {NoJob} \union JobRows]
      /\ Stored(t) /\ t \in Rows /\ tokens[t] \in TokenRows
    BY <1>1, JobsHere, Typed DEF JobIsTrue
<1>3. Grows /\ (\A u : (Stored(u)' <=> Stored(u)) /\ (Live(u)' <=> Live(u)))
    BY <1>1, SameRows
<1>4. CASE Live(t) /\ jobs' = [jobs EXCEPT ![c].phase = "rotating", ![c].locked = t]
    <2>1. PICK j \in JobRows : /\ jobs' = [jobs EXCEPT ![c] = j]
                               /\ j.kind = "refresh" /\ j.phase = "rotating" /\ j.token = t /\ j.locked = t
        <3> DEFINE i == [jobs[c] EXCEPT !.phase = "rotating", !.locked = t]
        <3>1. i \in JobRows /\ i.kind = "refresh" /\ i.phase = "rotating" /\ i.token = t /\ i.locked = t
            BY <1>1, <1>2 DEF JobRows
        <3>2. jobs' = [jobs EXCEPT ![c] = i]
            BY <1>2, <1>4
        <3> HIDE DEF i
        <3> QED
            BY <3>1, <3>2
    <2>3. jobs' \in [Calls -> {NoJob} \union JobRows] /\ \A x \in Calls : jobs'[x] = IF x = c THEN j ELSE jobs[x]
        BY <1>2, <2>1
    <2>4. TypeOK'
        BY <1>1, <2>3 DEF TypeOK, JobRows
    <2>5. SessionsAreChains'
        <3>1. \A x \in Calls : jobs[x].phase = "rotating" => jobs[x].locked # t
            BY <1>1 DEF Locked
        <3> QED
            BY <1>1, <1>3, <1>4, <2>1, <2>3, <3>1 DEF SessionsAreChains
    <2>6. EndedAreDead'
        BY <1>1, <1>3 DEF EndedAreDead
    <2>7. \A d \in Devices : Current(d)' = Current(d)
        BY <1>1, <2>1, <2>3, Sizes DEF Current, TypeOK
    <2>8. \A d \in Devices \ lost : Current(d)' # 0 => Untouched(d)'
        <3> SUFFICES ASSUME NEW d \in Devices \ lost, Current(d) # 0 PROVE Untouched(d)'
            BY <2>7
        <3>1. waiting[d] = NoCall \/ waiting[d] \in Calls
            BY DEF TypeOK
        <3>2. waiting[d] # NoCall /\ jobs[waiting[d]].kind = "logout" => jobs'[waiting[d]] = jobs[waiting[d]]
            BY <1>1, <2>3, <3>1
        <3> QED
            BY <1>1, <2>7, <3>2 DEF Untouched, SessionsHaveOneDevice
    <2>9. JobIsTrue(j)'
        BY <1>2, <1>3, <2>1 DEF JobIsTrue
    <2> QED
        BY <1>1, <1>3, <2>1, <2>3, <2>4, <2>5, <2>6, <2>8, <2>9, ServerStep
<1>5. CASE tokens[t].consumed /\ jobs' = [jobs EXCEPT ![c].phase = "revoking", ![c].seen = InFamily(tokens[t].family)]
    <2>1. InFamily(tokens[t].family) \subseteq Rows
        BY DEF InFamily
    <2>2. PICK j \in JobRows : /\ jobs' = [jobs EXCEPT ![c] = j]
                               /\ j.kind = "refresh" /\ j.phase = "revoking" /\ j.token = t
                               /\ j.seen = InFamily(tokens[t].family)
        <3> DEFINE i == [jobs[c] EXCEPT !.phase = "revoking", !.seen = InFamily(tokens[t].family)]
        <3>1. /\ i \in JobRows /\ i.kind = "refresh" /\ i.phase = "revoking" /\ i.token = t
              /\ i.seen = InFamily(tokens[t].family)
            BY <1>1, <1>2, <2>1 DEF JobRows
        <3>2. jobs' = [jobs EXCEPT ![c] = i]
            BY <1>2, <1>5
        <3> HIDE DEF i
        <3> QED
            BY <3>1, <3>2
    <2>3. jobs' \in [Calls -> {NoJob} \union JobRows] /\ \A x \in Calls : jobs'[x] = IF x = c THEN j ELSE jobs[x]
        BY <1>2, <2>2
    <2>4. JobIsTrue(j)'
        <3>1. \A f : InFamily(f)' = InFamily(f)
            BY <1>1, <1>3 DEF InFamily
        <3> QED
            BY <1>1, <1>2, <1>3, <1>5, <2>2, <3>1 DEF JobIsTrue
    <2> QED
        BY <1>1, <2>2, <2>3, <2>4, QuietStep DEF TypeOK
<1>6. CASE Answer(c, "refused", t)
    <2>1. PICK j \in JobRows \union {NoJob} :
            /\ jobs' \in [Calls -> {NoJob} \union JobRows]
            /\ \A x \in Calls : jobs'[x] = IF x = c THEN j ELSE jobs[x]
            /\ \/ j = NoJob /\ \A d \in Devices : waiting[d] # c
               \/ j.kind = jobs[c].kind /\ j.phase = "refused" /\ j.token = t /\ j.user = jobs[c].user
        BY <1>2, <1>6, Answers DEF Final
    <2>2. j.phase \notin {"rotating", "ok"} /\ JobIsTrue(j)'
        BY <1>1, <1>2, <1>3, <2>1 DEF JobIsTrue, NoJob
    <2>3. j.kind \in {"refresh", "logout"} => jobs[c].kind = j.kind /\ j.token = jobs[c].token
        BY <2>1 DEF NoJob
    <2> QED
        BY <1>1, <2>1, <2>2, <2>3, QuietStep DEF TypeOK
<1> QED
    BY <1>4, <1>5, <1>6 DEF BeginRefresh, ConsumeRefreshToken, RevokeRefreshTokenFamily

\* The first row of a new session.
LEMMA LoginKeeps ==
    ASSUME Core, NEW c \in Calls, LoginOrRegister(c)
    PROVE  Core'
<1> USE DEF Core
<1>1. /\ jobs[c].kind = "login" /\ jobs[c].phase = "sent"
      /\ UNCHANGED <<held, waiting, lost, ended, purged, faults>>
    BY DEF LoginOrRegister, ghosts
<1>2. jobs[c] \in JobRows /\ jobs[c].user \in Users /\ tokens \in [Rows -> {NoRow} \union TokenRows]
    BY <1>1, JobsHere DEF JobRows
<1>3. CASE Answer(c, "refused", 0) /\ UNCHANGED tokens
    <2>1. PICK j \in JobRows \union {NoJob} :
            /\ jobs' \in [Calls -> {NoJob} \union JobRows]
            /\ \A x \in Calls : jobs'[x] = IF x = c THEN j ELSE jobs[x]
            /\ \/ j = NoJob /\ \A d \in Devices : waiting[d] # c
               \/ j.kind = jobs[c].kind /\ j.phase = "refused" /\ j.token = 0 /\ j.user = jobs[c].user
        BY <1>2, <1>3, Answers DEF Final
    <2>2. j.phase \notin {"rotating", "ok"} /\ JobIsTrue(j)' /\ j.kind \notin {"refresh", "logout"}
        BY <1>1, <2>1 DEF JobIsTrue, NoJob
    <2> QED
        BY <1>1, <1>3, <2>1, <2>2, QuietStep DEF TypeOK
<1>4. ASSUME NEW t \in Free, CreateRefreshToken(t, jobs[c].user), Answer(c, "ok", t) PROVE Core'
    <2>1. t \in Rows /\ ~Stored(t)
        BY DEF Free
    <2>2. PICK j \in JobRows \union {NoJob} :
            /\ jobs' \in [Calls -> {NoJob} \union JobRows]
            /\ \A x \in Calls : jobs'[x] = IF x = c THEN j ELSE jobs[x]
            /\ \/ j = NoJob /\ \A d \in Devices : waiting[d] # c
               \/ j.kind = jobs[c].kind /\ j.phase = "ok" /\ j.token = t /\ j.user = jobs[c].user
        BY <1>2, <1>4, <2>1, Answers DEF Final
    <2> DEFINE new == NewRow(jobs[c].user, t)
    <2>3. /\ new \in TokenRows /\ new # NoRow /\ new.family = t
          /\ ~new.consumed /\ ~new.revoked /\ ~new.expired
        BY <1>2, <2>1 DEF NewRow, TokenRows, NoRow
    <2>4. /\ tokens' \in [Rows -> {NoRow} \union TokenRows]
          /\ \A x \in Rows : tokens'[x] = IF x = t THEN new ELSE tokens[x]
        BY <1>2, <1>4, <2>1, <2>3 DEF CreateRefreshToken
    <2> HIDE DEF new
    <2>5. TypeOK'
        BY <1>1, <2>2, <2>4 DEF TypeOK, JobRows, TokenRows
    <2>6. \A x : Stored(x) => /\ x \in Rows /\ x # t /\ tokens'[x] = tokens[x] /\ Stored(x)'
                              /\ Stored(tokens[x].family) /\ tokens[x].family # t
                              /\ (Live(x)' <=> Live(x))
        BY <2>1, <2>4 DEF Stored, Live, Revocable, SessionsAreChains
    <2>7. \A x : Stored(x)' => x = t \/ Stored(x)
        BY <2>4 DEF Stored
    <2>8. Grows
        BY <2>6 DEF Grows, Stored
    <2>9. SessionsAreChains'
        <3>1. \A x \in Rows : Stored(x)' => Stored(tokens[x].family)'
            BY <2>1, <2>3, <2>4, <2>6, <2>7 DEF Stored
        <3>2. \A x, y \in Rows :
                /\ Stored(x)' /\ Stored(y)' /\ tokens'[x].family = tokens'[y].family
                /\ ~tokens'[x].consumed /\ ~tokens'[y].consumed
                => x = y
            BY <2>3, <2>4, <2>6, <2>7 DEF SessionsAreChains
        <3>3. \A x \in Calls : jobs'[x].phase = "rotating" => x # c /\ jobs'[x] = jobs[x]
            BY <2>2 DEF NoJob
        <3>4. \A x \in Calls : jobs'[x].phase = "rotating" => Live(jobs[x].token)'
            BY <2>6, <3>3 DEF SessionsAreChains, Live, Revocable
        <3> QED
            BY <3>1, <3>2, <3>3, <3>4 DEF SessionsAreChains
    <2>10. EndedAreDead'
        BY <1>1, <2>1, <2>3, <2>4, <2>6, <2>7 DEF EndedAreDead
    <2>11. JobIsTrue(j)'
        BY <1>1, <2>1, <2>2, <2>3, <2>4 DEF JobIsTrue, NoJob, Stored
    <2>12. \A d \in Devices \ lost : Current(d)' # 0 => Untouched(d)'
        <3> SUFFICES ASSUME NEW d \in Devices \ lost, Current(d)' # 0 PROVE Untouched(d)'
            OBVIOUS
        <3>1. waiting[d] = NoCall \/ waiting[d] \in Calls
            BY DEF TypeOK
        <3>2. CASE waiting[d] = c
            <4>1. Current(d)' = t
                BY <1>1, <2>2, <3>2, Sizes DEF Current
            <4> QED
                BY <2>1, <2>3, <2>4, <4>1 DEF Untouched
        <3>3. CASE waiting[d] # c
            <4>1. waiting[d] # NoCall => jobs'[waiting[d]] = jobs[waiting[d]]
                BY <2>2, <3>1, <3>3
            <4>2. Current(d)' = Current(d) /\ Stored(Current(d))
                BY <1>1, <3>1, <4>1 DEF Current, DevicesWaitForTheirOwn, JobsAreTrue
            <4> QED
                BY <1>1, <2>6, <4>1, <4>2 DEF Untouched, SessionsHaveOneDevice
        <3> QED
            BY <3>2, <3>3
    <2>13. j.kind = "login" /\ j.phase = "ok" => \A x \in Rows : Stored(x) => tokens[x].family # tokens'[j.token].family
        BY <2>1, <2>2, <2>3, <2>4, <2>6 DEF NoJob
    <2>14. j.kind \notin {"refresh", "logout"}
        BY <1>1, <2>2 DEF NoJob
    <2>15. \A d \in Devices : c \in Calls /\ waiting[d] = c => j.kind = "login" /\ j.phase = "ok"
        BY <1>1, <2>2
    <2> QED
        BY <1>1, <2>2, <2>5, <2>8, <2>9, <2>10, <2>11, <2>12, <2>13, <2>14, <2>15, ServerStep
<1> QED
    BY <1>3, <1>4 DEF LoginOrRegister

\* The successor of the locked row, in the same session.
LEMMA RotationKeeps ==
    ASSUME Core, NEW c \in Calls, FinishRotation(c)
    PROVE  Core'
<1> USE DEF Core
<1> DEFINE old == jobs[c].token
<1>1. /\ jobs[c].phase = "rotating" /\ jobs[c].kind = "refresh" /\ jobs[c].locked = old /\ Live(old)
      /\ UNCHANGED <<held, waiting, lost, ended, purged, faults>>
    BY DEF FinishRotation, ghosts, SessionsAreChains
<1>2. /\ jobs[c] \in JobRows /\ tokens \in [Rows -> {NoRow} \union TokenRows]
      /\ old \in Rows /\ Stored(old) /\ tokens[old] \in TokenRows /\ ~tokens[old].consumed
    BY <1>1, JobsHere, Typed
<1>3. CASE Answer(c, "failed", old) /\ UNCHANGED tokens
    <2>1. PICK j \in JobRows \union {NoJob} :
            /\ jobs' \in [Calls -> {NoJob} \union JobRows]
            /\ \A x \in Calls : jobs'[x] = IF x = c THEN j ELSE jobs[x]
            /\ \/ j = NoJob /\ \A d \in Devices : waiting[d] # c
               \/ j.kind = jobs[c].kind /\ j.phase = "failed" /\ j.token = old /\ j.user = jobs[c].user
        BY <1>2, <1>3, Answers DEF Final
    <2>2. j.phase \notin {"rotating", "ok"} /\ JobIsTrue(j)'
        BY <1>1, <1>2, <1>3, <2>1, SameRows DEF JobIsTrue, NoJob
    <2>3. j.kind \in {"refresh", "logout"} => jobs[c].kind = j.kind /\ j.token = jobs[c].token
        BY <2>1 DEF NoJob
    <2> QED
        BY <1>1, <1>3, <2>1, <2>2, <2>3, QuietStep DEF TypeOK
<1>4. ASSUME NEW t \in Free, CreateRotatedRefreshToken(t, old), Answer(c, "ok", t) PROVE Core'
    <2>1. t \in Rows /\ ~Stored(t) /\ t # old
        BY <1>2 DEF Free
    <2>2. PICK j \in JobRows \union {NoJob} :
            /\ jobs' \in [Calls -> {NoJob} \union JobRows]
            /\ \A x \in Calls : jobs'[x] = IF x = c THEN j ELSE jobs[x]
            /\ \/ j = NoJob /\ \A d \in Devices : waiting[d] # c
               \/ j.kind = jobs[c].kind /\ j.phase = "ok" /\ j.token = t /\ j.user = jobs[c].user
        BY <1>2, <1>4, <2>1, Answers DEF Final
    <2> DEFINE f == tokens[old].family
               new == NewRow(tokens[old].user, f)
               used == [tokens[old] EXCEPT !.consumed = TRUE]
    <2>3. /\ new \in TokenRows /\ new # NoRow /\ new.family = f
          /\ ~new.consumed /\ ~new.revoked /\ ~new.expired
          /\ used \in TokenRows /\ used # NoRow /\ used.family = f /\ used.consumed /\ used.user = tokens[old].user
        BY <1>2, <2>1 DEF NewRow, TokenRows, NoRow
    <2>4. /\ tokens' \in [Rows -> {NoRow} \union TokenRows]
          /\ \A x \in Rows : tokens'[x] = IF x = t THEN new ELSE IF x = old THEN used ELSE tokens[x]
        <3>1. tokens' = [tokens EXCEPT ![old] = used, ![t] = new]
            BY <1>4 DEF CreateRotatedRefreshToken
        <3> HIDE DEF new, used
        <3> QED
            BY <1>2, <2>1, <2>3, <3>1
    <2> HIDE DEF new, used
    <2>5. TypeOK'
        BY <1>1, <2>2, <2>4 DEF TypeOK, JobRows, TokenRows
    <2>6. \A x : Stored(x) => /\ x \in Rows /\ x # t /\ Stored(x)' /\ Stored(tokens[x].family)
                              /\ tokens'[x] = IF x = old THEN used ELSE tokens[x]
                              /\ tokens'[x].family = tokens[x].family
                              /\ Live(x)' <=> Live(x) /\ x # old
        BY <1>2, <2>1, <2>3, <2>4 DEF Stored, Live, Revocable, SessionsAreChains
    <2>7. \A x : Stored(x)' => x = t \/ Stored(x)
        BY <1>2, <2>4 DEF Stored
    <2>8. Grows
        BY <2>3, <2>6 DEF Grows, Stored
    <2>9. \A x \in Rows : Stored(x) /\ ~tokens[x].consumed /\ tokens[x].family = f => x = old
        BY <1>2 DEF SessionsAreChains
    <2>10. SessionsAreChains'
        <3>1. \A x \in Rows : Stored(x)' => Stored(tokens[x].family)'
            BY <1>2, <2>1, <2>3, <2>4, <2>6, <2>7
        <3>2. \A x, y \in Rows :
                /\ Stored(x)' /\ Stored(y)' /\ tokens'[x].family = tokens'[y].family
                /\ ~tokens'[x].consumed /\ ~tokens'[y].consumed
                => x = y
            BY <2>3, <2>4, <2>6, <2>7, <2>9 DEF SessionsAreChains
        <3>3. \A x \in Calls : jobs'[x].phase = "rotating" => x # c /\ jobs'[x] = jobs[x]
            BY <2>2 DEF NoJob
        <3>4. \A x \in Calls : jobs'[x].phase = "rotating" => Live(jobs[x].token)'
            <4> SUFFICES ASSUME NEW x \in Calls, jobs'[x].phase = "rotating" PROVE Live(jobs[x].token)'
                OBVIOUS
            <4>1. x # c /\ jobs'[x] = jobs[x] /\ Live(jobs[x].token) /\ jobs[x].token # old
                BY <1>1, <3>3 DEF SessionsAreChains
            <4>2. Stored(jobs[x].token)
                BY <4>1 DEF Live, Revocable
            <4> QED
                BY <2>6, <4>1, <4>2
        <3> QED
            BY <3>1, <3>2, <3>3, <3>4 DEF SessionsAreChains
    <2>11. EndedAreDead'
        <3>1. f \notin ended
            BY <1>1, <1>2 DEF EndedAreDead
        <3> QED
            BY <1>1, <2>3, <2>4, <2>6, <2>7, <3>1 DEF EndedAreDead
    <2>12. JobIsTrue(j)'
        BY <1>1, <2>1, <2>2, <2>3, <2>4 DEF JobIsTrue, NoJob, Stored
    <2>13. \A d \in Devices \ lost : Current(d)' # 0 => Untouched(d)'
        <3> SUFFICES ASSUME NEW d \in Devices \ lost, Current(d)' # 0 PROVE Untouched(d)'
            OBVIOUS
        <3>1. waiting[d] = NoCall \/ waiting[d] \in Calls
            BY DEF TypeOK
        <3>2. CASE waiting[d] = c
            <4>1. Current(d)' = t
                BY <1>1, <2>2, <3>2, Sizes DEF Current
            <4> QED
                BY <2>1, <2>3, <2>4, <4>1 DEF Untouched
        <3>3. CASE waiting[d] # c
            <4>1. waiting[d] # NoCall => jobs'[waiting[d]] = jobs[waiting[d]]
                BY <2>2, <3>1, <3>3
            <4>2. Current(d)' = Current(d) /\ Stored(Current(d))
                BY <1>1, <3>1, <4>1 DEF Current, DevicesWaitForTheirOwn, JobsAreTrue
            <4>3. Current(d) # old
                BY <1>1, <3>3, <4>2 DEF SessionsHaveOneDevice
            <4> QED
                BY <1>1, <2>6, <4>1, <4>2, <4>3 DEF Untouched, SessionsHaveOneDevice
        <3> QED
            BY <3>2, <3>3
    <2>14. j.kind \in {"refresh", "logout"} => jobs[c].kind = j.kind /\ tokens'[j.token].family = tokens[old].family
        BY <2>1, <2>2, <2>3, <2>4 DEF NoJob
    <2>15. \A d \in Devices : c \in Calls /\ waiting[d] = c => j.kind = jobs[c].kind /\ j.kind = "refresh" /\ j.phase = "ok"
        BY <1>1, <2>2
    <2>16. j.kind # "login" /\ jobs[c].phase # "ok"
        BY <1>1, <2>2 DEF NoJob
    <2> QED
        BY <1>1, <2>2, <2>5, <2>8, <2>10, <2>11, <2>12, <2>13, <2>14, <2>15, <2>16, ServerStep
<1> QED
    BY <1>1, <1>3, <1>4 DEF FinishRotation

LEMMA RevocationKeeps ==
    ASSUME Core, NEW c \in Calls, FinishRevocation(c)
    PROVE  Core'
<1> USE DEF Core
<1> DEFINE seen == jobs[c].seen
           answer == IF jobs[c].kind = "refresh" THEN "refused" ELSE "ok"
<1>1. /\ jobs[c].phase = "revoking" /\ Revoke(seen) /\ Answer(c, answer, jobs[c].token)
      /\ \A t \in seen : t \notin Locked
      /\ UNCHANGED <<held, waiting, lost, ended, purged, faults>>
    BY DEF FinishRevocation, ghosts
<1>2. /\ jobs[c] \in JobRows /\ JobIsTrue(jobs[c]) /\ jobs[c].token \in Rows \union {0}
      /\ tokens \in [Rows -> {NoRow} \union TokenRows]
    BY <1>1, JobsHere DEF JobRows
<1>3. \A t \in seen : Stored(t) /\ t \in Rows
    BY <1>1, <1>2, Typed DEF JobIsTrue, InFamily
<1>4. PICK j \in JobRows \union {NoJob} :
        /\ jobs' \in [Calls -> {NoJob} \union JobRows]
        /\ \A x \in Calls : jobs'[x] = IF x = c THEN j ELSE jobs[x]
        /\ \/ j = NoJob /\ \A d \in Devices : waiting[d] # c
           \/ j.kind = jobs[c].kind /\ j.phase = answer /\ j.token = jobs[c].token /\ j.user = jobs[c].user
    <2>1. answer \in Final
        BY DEF Final
    <2> HIDE DEF answer
    <2> QED
        BY <1>1, <1>2, <2>1, Answers
\* Nobody waits for the end of a revocation of all sessions.
<1>5. j = NoJob \/ (jobs[c].kind = "refresh" /\ j.kind = "refresh" /\ j.phase = "refused" /\ j.token = jobs[c].token)
    <2>1. jobs[c].kind \in {"refresh", "revoke_all"}
        BY <1>1, <1>2 DEF JobIsTrue
    <2>2. CASE \E d \in Devices : waiting[d] = c
        BY <1>4, <2>1, <2>2, Sizes DEF DevicesWaitForTheirOwn
    <2>3. CASE (\A d \in Devices : waiting[d] # c) /\ jobs[c].kind = "refresh"
        BY <1>4, <2>3
    <2>4. CASE (\A d \in Devices : waiting[d] # c) /\ jobs[c].kind = "revoke_all"
        BY <1>1, <1>4, <2>4 DEF Answer, TypeOK
    <2> QED
        BY <2>1, <2>2, <2>3, <2>4
<1>6. /\ tokens' \in [Rows -> {NoRow} \union TokenRows]
      /\ \A t \in Rows : IF t \in seen
            THEN /\ tokens'[t] # NoRow /\ tokens'[t].revoked
                 /\ tokens'[t].family = tokens[t].family /\ tokens'[t].user = tokens[t].user
                 /\ tokens'[t].consumed = tokens[t].consumed
            ELSE tokens'[t] = tokens[t]
    <2>1. \A t \in Rows : tokens'[t] = IF t \in seen THEN [tokens[t] EXCEPT !.revoked = TRUE] ELSE tokens[t]
        BY <1>1 DEF Revoke
    <2>2. ASSUME NEW t \in seen
          PROVE  /\ t \in Rows /\ tokens'[t] \in TokenRows /\ tokens'[t] # NoRow /\ tokens'[t].revoked
                 /\ tokens'[t].family = tokens[t].family /\ tokens'[t].user = tokens[t].user
                 /\ tokens'[t].consumed = tokens[t].consumed
        <3>1. t \in Rows /\ tokens[t] \in TokenRows
            BY <1>3, Typed
        <3>2. [tokens[t] EXCEPT !.revoked = TRUE] \in TokenRows
            BY <3>1 DEF TokenRows
        <3> QED
            BY <2>1, <3>1, <3>2 DEF TokenRows, NoRow
    <2>3. tokens' = [t \in Rows |-> tokens'[t]]
        BY <1>1 DEF Revoke
    <2> QED
        BY <1>2, <2>1, <2>2, <2>3
<1>7. TypeOK'
    BY <1>1, <1>4, <1>6 DEF TypeOK, JobRows, TokenRows
<1>8. Grows /\ SessionsAreChains' /\ EndedAreDead'
    <2>1. \A t \in Rows : \/ tokens'[t] = tokens[t]
                           \/ /\ Stored(t) /\ tokens'[t] # NoRow
                              /\ tokens'[t].family = tokens[t].family /\ tokens'[t].user = tokens[t].user
                              /\ tokens'[t].consumed = tokens[t].consumed
                              /\ ~Live(t)' /\ t \notin Locked
        BY <1>1, <1>3, <1>6 DEF Live, Revocable
    <2>2. \A x \in Calls : jobs'[x].phase = "rotating" => jobs'[x] = jobs[x]
        BY <1>4, <1>5 DEF NoJob
    <2> QED
        BY <1>1, <1>6, <2>1, <2>2, RowsMarked
<1>9. JobIsTrue(j)'
    BY <1>2, <1>5, <1>8 DEF JobIsTrue, NoJob, Grows, Stored
<1>10. \A d \in Devices \ lost : Current(d)' # 0 => Untouched(d)'
    <2> SUFFICES ASSUME NEW d \in Devices \ lost, Current(d)' # 0 PROVE Untouched(d)'
        OBVIOUS
    <2>1. waiting[d] = NoCall \/ waiting[d] \in Calls
        BY DEF TypeOK
    <2>2. Current(d)' = Current(d) /\ Stored(Current(d)) /\ Current(d) \in Rows
        <3>1. Current(d)' = Current(d)
            <4>1. CASE waiting[d] = c
                <5>1. jobs'[c] = j /\ j.phase # "ok" /\ c # NoCall
                    BY <1>4, <1>5, Sizes DEF NoJob
                <5> QED
                    BY <1>1, <4>1, <5>1 DEF Current
            <4>2. CASE waiting[d] # c
                <5>1. waiting[d] # NoCall => jobs'[waiting[d]] = jobs[waiting[d]]
                    BY <1>4, <2>1, <4>2
                <5> QED
                    BY <1>1, <5>1 DEF Current
            <4> QED
                BY <4>1, <4>2
        <3> QED
            BY <2>1, <3>1, Typed DEF Current, DevicesWaitForTheirOwn, JobsAreTrue
    <2>3. waiting[d] # NoCall /\ jobs[waiting[d]].kind = "logout" => jobs'[waiting[d]] = jobs[waiting[d]]
        BY <1>1, <1>2, <1>4, <2>1 DEF JobIsTrue
    <2>4. CASE Current(d) \notin seen
        BY <1>1, <1>6, <2>2, <2>3, <2>4 DEF Untouched, SessionsHaveOneDevice
    <2>5. CASE Current(d) \in seen /\ jobs[c].kind = "revoke_all"
        <3>1. tokens[Current(d)].user \in purged
            BY <1>1, <1>2, <2>5 DEF JobIsTrue
        <3> QED
            BY <1>1, <1>6, <2>2, <2>5, <3>1 DEF Untouched, SessionsHaveOneDevice
    <2>6. CASE Current(d) \in seen /\ jobs[c].kind = "refresh"
        <3>1. tokens[Current(d)].family = tokens[jobs[c].token].family /\ tokens[jobs[c].token].consumed
            BY <1>1, <1>2, <2>6 DEF JobIsTrue, InFamily
        <3>2. waiting[d] = c
            BY <2>2, <2>6, <3>1 DEF SessionsHaveOneDevice
        <3>3. jobs[c].token = held[d] /\ Current(d) = held[d]
            BY <1>1, <2>6, <3>2, Sizes DEF DevicesWaitForTheirOwn, Current
        <3> QED
            BY <2>2, <3>1, <3>3 DEF SessionsHaveOneDevice
    <2> QED
        BY <1>1, <1>2, <2>4, <2>5, <2>6 DEF JobIsTrue
<1>11. j.kind \in {"refresh", "logout"} => jobs[c].kind = j.kind /\ tokens'[j.token].family = tokens[jobs[c].token].family
    BY <1>2, <1>5, <1>8, Typed DEF JobIsTrue, NoJob, Grows
<1>12. \A d \in Devices : c \in Calls /\ waiting[d] = c => j.kind = jobs[c].kind /\ j.token = jobs[c].token
    BY <1>4
<1>13. jobs[c].phase # "ok" /\ j.kind # "login"
    BY <1>1, <1>5 DEF NoJob
<1> HIDE DEF answer, seen
<1> QED
    BY <1>1, <1>4, <1>7, <1>8, <1>9, <1>10, <1>11, <1>12, <1>13, ServerStep

LEMMA LogoutKeeps ==
    ASSUME Core, NEW c \in Calls, FinishLogout(c)
    PROVE  Core'
<1> USE DEF Core
<1>0. PICK t : t = jobs[c].token
    OBVIOUS
<1>1. /\ jobs[c].kind = "logout" /\ jobs[c].phase = "sent" /\ jobs[c].token = t /\ Answer(c, "ok", t)
      /\ UNCHANGED <<held, waiting, lost, ended, purged, faults>>
    BY <1>0 DEF FinishLogout, ghosts
<1>2. /\ jobs[c] \in JobRows /\ JobIsTrue(jobs[c]) /\ Stored(t) /\ t \in Rows /\ tokens[t] \in TokenRows
      /\ tokens \in [Rows -> {NoRow} \union TokenRows]
    BY <1>1, JobsHere, Typed DEF JobIsTrue
<1>3. PICK j \in JobRows \union {NoJob} :
        /\ jobs' \in [Calls -> {NoJob} \union JobRows]
        /\ \A x \in Calls : jobs'[x] = IF x = c THEN j ELSE jobs[x]
        /\ \/ j = NoJob /\ \A d \in Devices : waiting[d] # c
           \/ j.kind = jobs[c].kind /\ j.phase = "ok" /\ j.token = t /\ j.user = jobs[c].user
    BY <1>1, <1>2, Answers DEF Final
<1>4. /\ tokens' \in [Rows -> {NoRow} \union TokenRows]
      /\ \A x \in Rows : \/ /\ tokens'[x] = tokens[x]
                            /\ x = t => ~Live(x)
                         \/ /\ x = t /\ tokens'[x] # NoRow /\ tokens'[x].revoked /\ t \notin Locked
                            /\ tokens'[x].family = tokens[x].family /\ tokens'[x].user = tokens[x].user
                            /\ tokens'[x].consumed = tokens[x].consumed
    <2>1. CASE GetRefreshToken(t)
        <3>1. t \notin Locked /\ Revoke({t})
            BY <1>0, <2>1 DEF FinishLogout, RevokeRefreshToken
        <3> DEFINE gone == [tokens[t] EXCEPT !.revoked = TRUE]
        <3>2. /\ gone \in TokenRows /\ gone # NoRow /\ gone.revoked /\ gone.family = tokens[t].family
              /\ gone.user = tokens[t].user /\ gone.consumed = tokens[t].consumed
            BY <1>2 DEF TokenRows, NoRow
        <3>3. tokens' = [x \in Rows |-> IF x \in {t} THEN [tokens[x] EXCEPT !.revoked = TRUE] ELSE tokens[x]]
            BY <3>1 DEF Revoke
        <3>4. \A x \in Rows : tokens'[x] = IF x = t THEN gone ELSE tokens[x]
            BY <3>3
        <3> HIDE DEF gone
        <3> QED
            BY <1>2, <3>1, <3>2, <3>3, <3>4
    <2>2. CASE ~GetRefreshToken(t)
        <3>1. tokens' = tokens
            BY <1>0, <2>2 DEF FinishLogout
        <3> QED
            BY <1>2, <2>2, <3>1 DEF GetRefreshToken, Live
    <2> QED
        BY <2>1, <2>2
<1>5. ~Live(t)'
    <2>1. CASE tokens'[t] = tokens[t] /\ ~Live(t)
        BY <2>1 DEF Live, Revocable, Stored
    <2>2. CASE tokens'[t].revoked
        BY <2>2 DEF Live, Revocable
    <2> QED
        BY <1>2, <1>4, <2>1, <2>2
<1>6. TypeOK'
    BY <1>1, <1>3, <1>4 DEF TypeOK, JobRows, TokenRows
<1>7. Grows /\ SessionsAreChains' /\ EndedAreDead'
    <2>1. \A x \in Rows : \/ tokens'[x] = tokens[x]
                           \/ /\ Stored(x) /\ tokens'[x] # NoRow
                              /\ tokens'[x].family = tokens[x].family /\ tokens'[x].user = tokens[x].user
                              /\ tokens'[x].consumed = tokens[x].consumed
                              /\ ~Live(x)' /\ x \notin Locked
        <3> SUFFICES ASSUME NEW x \in Rows, tokens'[x] # tokens[x]
                     PROVE  /\ Stored(x) /\ tokens'[x] # NoRow
                            /\ tokens'[x].family = tokens[x].family /\ tokens'[x].user = tokens[x].user
                            /\ tokens'[x].consumed = tokens[x].consumed
                            /\ ~Live(x)' /\ x \notin Locked
            OBVIOUS
        <3>1. /\ x = t /\ t \notin Locked
              /\ tokens'[t] # NoRow
              /\ tokens'[t].family = tokens[t].family /\ tokens'[t].user = tokens[t].user
              /\ tokens'[t].consumed = tokens[t].consumed
            BY <1>4
        <3> QED
            BY <1>2, <1>5, <3>1
    <2>2. \A x \in Calls : jobs'[x].phase = "rotating" => jobs'[x] = jobs[x]
        BY <1>3 DEF NoJob
    <2> QED
        BY <1>1, <1>4, <2>1, <2>2, RowsMarked
<1>8. JobIsTrue(j)'
    BY <1>1, <1>2, <1>3, <1>5, <1>7 DEF JobIsTrue, NoJob, Grows, Stored
<1>9. \A d \in Devices \ lost : Current(d)' # 0 => Untouched(d)'
    <2> SUFFICES ASSUME NEW d \in Devices \ lost, Current(d)' # 0 PROVE Untouched(d)'
        OBVIOUS
    <2>1. waiting[d] = NoCall \/ waiting[d] \in Calls
        BY DEF TypeOK
    <2>2. Current(d)' = Current(d) /\ Stored(Current(d)) /\ Current(d) \in Rows
        <3>1. Current(d)' = Current(d)
            BY <1>1, <1>3, <2>1, Sizes DEF Current
        <3> QED
            BY <2>1, <3>1, Typed DEF Current, DevicesWaitForTheirOwn, JobsAreTrue
    <2>3. CASE waiting[d] = c
        <3>1. jobs'[c].kind = "logout" /\ jobs'[c].phase = "ok"
            BY <1>1, <1>3, <2>3
        <3>2. waiting'[d] = c /\ c # NoCall
            BY <1>1, <2>3, Sizes
        <3>3. ~tokens[Current(d)].consumed
            BY <2>2, Sizes DEF SessionsHaveOneDevice
        <3>4. ~tokens'[Current(d)].consumed
            BY <1>4, <2>2, <3>3
        <3> QED
            BY <2>2, <3>1, <3>2, <3>4 DEF Untouched
    <2>4. CASE waiting[d] # c
        <3>1. waiting[d] # NoCall => jobs'[waiting[d]] = jobs[waiting[d]]
            BY <1>3, <2>1, <2>4
        <3>2. Current(d) # t
            BY <1>1, <2>2, <2>4 DEF SessionsHaveOneDevice
        <3> QED
            BY <1>1, <1>4, <2>2, <3>1, <3>2 DEF Untouched, SessionsHaveOneDevice
    <2> QED
        BY <2>3, <2>4
<1>10. j.kind \in {"refresh", "logout"} => jobs[c].kind = j.kind /\ tokens'[j.token].family = tokens[t].family
    BY <1>2, <1>3, <1>7 DEF NoJob, Grows
<1>11. \A d \in Devices : c \in Calls /\ waiting[d] = c => j.kind = jobs[c].kind /\ j.token = t
    BY <1>3
<1>12. jobs[c].phase # "ok" /\ j.kind # "login"
    BY <1>1, <1>3 DEF NoJob
<1> QED
    BY <1>1, <1>3, <1>6, <1>7, <1>8, <1>9, <1>10, <1>11, <1>12, ServerStep

LEMMA RevokeAllKeeps ==
    ASSUME Core, NEW c \in Calls, NEW u \in Users, RevokeAllSessions(c, u)
    PROVE  Core'
<1> USE DEF Core
<1>1. /\ jobs[c] = NoJob /\ purged' = purged \union {u}
      /\ UNCHANGED <<tokens, held, waiting, lost, ended, faults>>
    BY DEF RevokeAllSessions, Unused
<1>2. RevokeAllUserRefreshTokens(u) \subseteq Rows
    BY DEF RevokeAllUserRefreshTokens
<1>3. PICK j \in JobRows : /\ jobs' = [jobs EXCEPT ![c] = j]
                           /\ j.kind = "revoke_all" /\ j.phase = "revoking" /\ j.user = u
                           /\ j.seen = RevokeAllUserRefreshTokens(u)
    <2> DEFINE i == [Request("revoke_all", u, 0) EXCEPT
                        !.phase = "revoking", !.seen = RevokeAllUserRefreshTokens(u)]
    <2>1. /\ i \in JobRows /\ i.kind = "revoke_all" /\ i.phase = "revoking" /\ i.user = u
          /\ i.seen = RevokeAllUserRefreshTokens(u)
        BY <1>2 DEF Request, JobRows
    <2>2. jobs' = [jobs EXCEPT ![c] = i]
        BY DEF RevokeAllSessions
    <2> HIDE DEF i
    <2> QED
        BY <2>1, <2>2
<1>4. jobs' \in [Calls -> {NoJob} \union JobRows] /\ \A x \in Calls : jobs'[x] = IF x = c THEN j ELSE jobs[x]
    BY <1>3 DEF TypeOK, JobRows
<1>5. JobIsTrue(j)'
    BY <1>1, <1>3, SameRows DEF JobIsTrue, RevokeAllUserRefreshTokens, Revocable
<1>6. \A d \in Devices : waiting[d] # c
    BY <1>1, Sizes DEF DevicesWaitForTheirOwn, NoJob
<1>7. jobs[c].phase # "ok"
    BY <1>1 DEF NoJob
<1> QED
    BY <1>1, <1>3, <1>4, <1>5, <1>6, <1>7, QuietStep DEF TypeOK

LEMMA ExpireKeeps ==
    ASSUME Core, NEW t \in Rows, Expire(t)
    PROVE  Core'
<1> USE DEF Core
<1>1. /\ Live(t) /\ t \notin Locked /\ tokens' = [tokens EXCEPT ![t].expired = TRUE] /\ faults' \in 0..MaxFaults
      /\ UNCHANGED <<jobs, held, waiting, lost, ended, purged>>
    BY Sizes DEF Expire, ghosts, TypeOK
<1>2. tokens[t] \in TokenRows /\ Stored(t) /\ tokens \in [Rows -> {NoRow} \union TokenRows]
    BY <1>1, Typed DEF TypeOK, TokenRows
<1>3. /\ tokens' \in [Rows -> {NoRow} \union TokenRows]
      /\ \A x \in Rows : x # t => tokens'[x] = tokens[x]
      /\ tokens'[t] # NoRow /\ tokens'[t].expired /\ tokens'[t].revoked = tokens[t].revoked
      /\ tokens'[t].family = tokens[t].family /\ tokens'[t].user = tokens[t].user
      /\ tokens'[t].consumed = tokens[t].consumed
    <2> DEFINE old == [tokens[t] EXCEPT !.expired = TRUE]
    <2>1. /\ old \in TokenRows /\ old # NoRow /\ old.expired /\ old.revoked = tokens[t].revoked
          /\ old.family = tokens[t].family /\ old.user = tokens[t].user /\ old.consumed = tokens[t].consumed
        BY <1>2 DEF TokenRows, NoRow
    <2>2. tokens' = [tokens EXCEPT ![t] = old]
        BY <1>1
    <2> HIDE DEF old
    <2> QED
        BY <1>2, <2>1, <2>2
<1>4. TypeOK'
    BY <1>1, <1>3 DEF TypeOK, TokenRows
<1>5. Grows /\ SessionsAreChains' /\ EndedAreDead'
    <2>1. \A x \in Rows : \/ tokens'[x] = tokens[x]
                           \/ /\ Stored(x) /\ tokens'[x] # NoRow
                              /\ tokens'[x].family = tokens[x].family /\ tokens'[x].user = tokens[x].user
                              /\ tokens'[x].consumed = tokens[x].consumed
                              /\ ~Live(x)' /\ x \notin Locked
        BY <1>1, <1>2, <1>3 DEF Live
    <2> QED
        BY <1>1, <1>3, <2>1, RowsMarked
<1>6. \A d \in Devices \ lost : Current(d)' # 0 => Untouched(d)'
    <2> SUFFICES ASSUME NEW d \in Devices \ lost, Current(d) # 0 PROVE Untouched(d)'
        BY <1>1 DEF Current
    <2>1. Current(d)' = Current(d) /\ Stored(Current(d)) /\ Current(d) \in Rows
        <3>1. waiting[d] = NoCall \/ waiting[d] \in Calls
            BY DEF TypeOK
        <3> QED
            BY <1>1, <3>1, Typed DEF Current, DevicesWaitForTheirOwn, JobsAreTrue
    <2> QED
        BY <1>1, <1>3, <2>1 DEF Untouched, SessionsHaveOneDevice
<1>7. PICK c, j : c \notin Calls /\ j.kind = "none"
    <2>1. NoJob.kind = "none"
        BY DEF NoJob
    <2> QED
        BY <2>1, Sizes
<1>8. \A x \in Calls : jobs'[x] = IF x = c THEN j ELSE jobs[x]
    BY <1>1, <1>7
<1>9. purged \subseteq purged' /\ UNCHANGED <<held, waiting, lost, ended>>
    BY <1>1
<1>10. j.kind \notin {"refresh", "logout", "login"}
    BY <1>7
<1> QED
    BY <1>4, <1>5, <1>6, <1>7, <1>8, <1>9, <1>10, ServerStep

-------------------------------------------------------------------------------

LEMMA CoreHolds == Spec => []Core
<1>1. Core /\ [Next]_vars => Core'
    <2> SUFFICES ASSUME Core, [Next]_vars PROVE Core'
        OBVIOUS
    <2>1. CASE UNCHANGED vars
        <3> USE <2>1 DEF vars, ghosts, Core
        <3>1. TypeOK' /\ SessionsAreChains' /\ EndedAreDead' /\ (\A f \in ended : Stored(f))'
            BY DEF TypeOK, SessionsAreChains, EndedAreDead, Stored, Live, Revocable, InFamily
        <3>2. JobsAreTrue'
            BY DEF JobsAreTrue, Stored, Live, Revocable, InFamily
        <3>3. DevicesWaitForTheirOwn'
            BY DEF DevicesWaitForTheirOwn, Stored, Live, Revocable, InFamily
        <3>4. SessionsHaveOneDevice'
            <4>1. \A d \in Devices : Current(d)' = Current(d)
                BY DEF Current
            <4> QED
                BY <4>1 DEF SessionsHaveOneDevice
        <3> QED
            BY <3>1, <3>2, <3>3, <3>4
    <2> QED
        BY <2>1, ClientSends, AnsweredKeeps, GiveUpKeeps, LoginKeeps, BeginKeeps, RotationKeeps,
           RevocationKeeps, LogoutKeeps, AbortKeeps, RevokeAllKeeps, ExpireKeeps DEF Next
<1> QED
    BY <1>1, InitCore, PTL DEF Spec

\* Type correctness, the chains of rows and what devices, requests and rows
\* say of one another hold in every reachable state (auth.Service and
\* AuthTokenManager): a session never has two tokens that work.
THEOREM AuthInvariant == Spec => []AuthInv
<1> QED
    BY CoreHolds, CoreSuffices, PTL

\* A device that received every answer is never taken for a stale one, and
\* only the revocation of all sessions ends its own from outside.
THEOREM HeldTokensAreCurrent == Spec => []HeldTokenIsCurrent
<1> QED
    BY CoreHolds, CoreSuffices, PTL

\* What an acknowledged logout ended stays ended, although it revokes a single
\* row.
THEOREM LogoutIsFinal == Spec => []LogoutEndsTheSession
<1>1. AuthInv => LogoutEndsTheSession
    BY DEF AuthInv
<1> QED
    BY <1>1, AuthInvariant, PTL
=============================================================================
