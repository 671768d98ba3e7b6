----------------------------- MODULE AuthSession -----------------------------
(***************************************************************************)
(* Sign-in sessions: the refresh_tokens table with the transactions of     *)
(* auth.Service, and the AuthTokenManager of every device.                 *)
(*                                                                         *)
(* A session is a family of rows; a refresh consumes the row the device    *)
(* holds and inserts its successor.  PostgreSQL runs these transactions at *)
(* READ COMMITTED, so a statement sees the rows committed when it starts,  *)
(* waits for rows another transaction has written, and never sees a row    *)
(* inserted meanwhile: a refresh is taken in two steps (the row it         *)
(* consumes stays locked in between) and so is an UPDATE over many rows.   *)
(* A device makes one call at a time (the manager's session lock); when it *)
(* gives up waiting, the server still works on the request.                *)
(***************************************************************************)
EXTENDS Naturals

CONSTANTS
    Users, Devices,
    Calls,      \* identifiers of the requests under way at one time
    MaxTokens,  \* bound on the rows of refresh_tokens
    MaxFaults   \* bound on timeouts, lost messages, expiries and crashes

ASSUME SizesAssumption == MaxTokens \in Nat /\ MaxFaults \in Nat
ASSUME CallsAssumption == Calls \subseteq Nat \ {0}

VARIABLES
    tokens,     \* the refresh_tokens rows; a row stands for its token
    jobs,       \* requests the server has not answered, by call
    held,       \* per device: the refresh token it stores, or 0
    waiting,    \* per device: the call whose answer it awaits, or NoCall
    lost,       \* devices that missed the answer to a rotation
    ended,      \* families ended by an acknowledged logout
    purged,     \* users that revoked all their sessions
    faults

ghosts == <<ended, purged>>
vars == <<tokens, jobs, held, waiting, lost, ghosts, faults>>

Rows == 1..MaxTokens
NoRow == [user |-> "nobody"]
NoCall == 0
Final == {"ok", "refused", "failed"}
NoJob == [kind |-> "none", phase |-> "none"]

TypeOK ==
    /\ tokens \in [Rows -> {NoRow} \union
           [user : Users, family : Rows, consumed : BOOLEAN,
            revoked : BOOLEAN, expired : BOOLEAN]]
    /\ jobs \in [Calls -> {NoJob} \union
           [kind : {"login", "refresh", "logout", "revoke_all"},
            user : Users, token : Rows \union {0}, locked : Rows \union {0},
            seen : SUBSET Rows, phase : {"sent", "rotating", "revoking"} \union Final]]
    /\ held \in [Devices -> Rows \union {0}]
    /\ waiting \in [Devices -> Calls \union {NoCall}]
    /\ lost \subseteq Devices
    /\ ended \subseteq Rows /\ purged \subseteq Users
    /\ faults \in 0..MaxFaults

Init ==
    /\ tokens = [t \in Rows |-> NoRow]
    /\ jobs = [c \in Calls |-> NoJob]
    /\ held = [d \in Devices |-> 0]
    /\ waiting = [d \in Devices |-> NoCall]
    /\ lost = {}
    /\ ended = {} /\ purged = {}
    /\ faults = 0

Stored(t) == t \in Rows /\ tokens[t] # NoRow
Revocable(t) == Stored(t) /\ ~tokens[t].revoked
Live(t) == Revocable(t) /\ ~tokens[t].expired /\ ~tokens[t].consumed
InFamily(f) == {t \in Rows : Stored(t) /\ tokens[t].family = f}
\* Rows written by a transaction that has not committed.
Locked == {jobs[c].locked : c \in {x \in Calls : jobs[x].phase = "rotating"}}
Free == {t \in Rows : ~Stored(t)}

----------------------------------------------------------------------------
(* The queries.                                                            *)

NewRow(u, f) == [user |-> u, family |-> f, consumed |-> FALSE,
                 revoked |-> FALSE, expired |-> FALSE]

\* A row that starts a family of its own (the column's default).
CreateRefreshToken(t, u) == tokens' = [tokens EXCEPT ![t] = NewRow(u, t)]

\* The successor of old; old's consumption is committed with it.
CreateRotatedRefreshToken(t, old) ==
    tokens' = [tokens EXCEPT ![old].consumed = TRUE,
                             ![t] = NewRow(tokens[old].user, tokens[old].family)]

Revoke(ts) == tokens' = [t \in Rows |-> IF t \in ts THEN [tokens[t] EXCEPT !.revoked = TRUE]
                                                    ELSE tokens[t]]

RevokeRefreshToken(t) == Revoke({t})

\* What the UPDATEs over several rows find when they start.
RevokeRefreshTokenFamily(f) == InFamily(f)
RevokeAllUserRefreshTokens(u) == {t \in Rows : Revocable(t) /\ tokens[t].user = u}

\* Mutant: a consumed row is accepted again.
ConsumeTwice(t) == Revocable(t) /\ ~tokens[t].expired

\* Whether the conditions of a single-row statement hold for a token.
ConsumeRefreshToken(t) == Live(t)
GetRefreshToken(t) == Revocable(t) /\ ~tokens[t].expired
GetRefreshTokenRecord(t) == Stored(t)

----------------------------------------------------------------------------
(* The device.                                                             *)

Request(kind, u, t) == [kind |-> kind, user |-> u, token |-> t, locked |-> 0,
                        seen |-> {}, phase |-> "sent"]

\* Call identifiers are given out in order.
Unused(c) == jobs[c] = NoJob /\ \A x \in Calls : x < c => jobs[x] # NoJob

\* The session lock: the device has no call of its own under way.
Idle(d) == waiting[d] = NoCall

\* Mutant: calls that do not go through the session lock.
SendWithoutLock(d, c, req) ==
    /\ Unused(c)
    /\ jobs' = [jobs EXCEPT ![c] = req]
    /\ waiting' = [waiting EXCEPT ![d] = c]
    /\ UNCHANGED <<tokens, held, lost, ghosts, faults>>

Send(d, c, req) ==
    /\ Idle(d)
    /\ Unused(c)
    /\ jobs' = [jobs EXCEPT ![c] = req]
    /\ waiting' = [waiting EXCEPT ![d] = c]
    /\ UNCHANGED <<tokens, held, lost, ghosts, faults>>

SignIn(d, c, u) == held[d] = 0 /\ Send(d, c, Request("login", u, 0))
Refresh(d, c) == held[d] # 0 /\ Send(d, c, Request("refresh", tokens[held[d]].user, held[d]))
Logout(d, c) == held[d] # 0 /\ Send(d, c, Request("logout", tokens[held[d]].user, held[d]))

\* Mutant: a refused refresh leaves the stored session alone.
KeptWhenRefused(j, old) ==
    IF j.kind = "logout" THEN 0 ELSE IF j.phase = "ok" THEN j.token ELSE old

\* What a device holds after an answer: new credentials are installed, a
\* refused refresh ends the session, an error keeps it, a logout clears it.
HeldAfter(j, old) ==
    IF j.kind # "logout" /\ j.phase = "ok" THEN j.token
    ELSE IF j.phase = "failed" THEN old ELSE 0

\* The answer arrives.
Answered(d) == LET c == waiting[d]  j == jobs[c] IN
    /\ ~Idle(d)
    /\ j.phase \in Final
    /\ held' = [held EXCEPT ![d] = HeldAfter(j, @)]
    /\ ended' = IF j.kind = "logout" /\ d \notin lost
                THEN ended \union {tokens[j.token].family} ELSE ended
    /\ lost' = IF j.kind = "login" \/ held'[d] = 0 THEN lost \ {d} ELSE lost
    /\ jobs' = [jobs EXCEPT ![c] = NoJob]
    /\ waiting' = [waiting EXCEPT ![d] = NoCall]
    /\ UNCHANGED <<tokens, purged, faults>>

\* The device stops waiting (a timeout, a lost answer, the app restarted); a
\* logout clears the local session even then.
GiveUp(d) == LET c == waiting[d] IN
    /\ ~Idle(d)
    /\ faults < MaxFaults
    /\ faults' = faults + 1
    /\ waiting' = [waiting EXCEPT ![d] = NoCall]
    /\ lost' = IF jobs[c].kind = "refresh" THEN lost \union {d}
               ELSE IF jobs[c].kind = "logout" THEN lost \ {d} ELSE lost
    /\ held' = IF jobs[c].kind = "logout" THEN [held EXCEPT ![d] = 0] ELSE held
    /\ jobs' = IF jobs[c].phase \in Final THEN [jobs EXCEPT ![c] = NoJob] ELSE jobs
    /\ UNCHANGED <<tokens, ghosts>>

----------------------------------------------------------------------------
(* The server.                                                             *)

\* An answer nobody waits for is dropped.
Answer(c, phase, t) == jobs' = [jobs EXCEPT ![c] =
    IF \E d \in Devices : waiting[d] = c
    THEN [@ EXCEPT !.phase = phase, !.token = t, !.locked = 0, !.seen = {}] ELSE NoJob]

\* Register inserts the account with its first row and Login needs the
\* account; either may be refused (a wrong password, an e-mail in use).
LoginOrRegister(c) ==
    /\ jobs[c].kind = "login" /\ jobs[c].phase = "sent"
    /\ \/ Answer(c, "refused", 0) /\ UNCHANGED tokens
       \/ \E t \in Free :
            /\ \A x \in Free : t <= x
            /\ CreateRefreshToken(t, jobs[c].user)
            /\ Answer(c, "ok", t)
    /\ UNCHANGED <<held, waiting, lost, ghosts, faults>>

\* First statements of Refresh: consume the row, or find out why not.
BeginRefresh(c) == LET t == jobs[c].token IN
    /\ jobs[c].kind = "refresh" /\ jobs[c].phase = "sent"
    /\ t \notin Locked
    /\ \/ /\ ConsumeRefreshToken(t)
          /\ jobs' = [jobs EXCEPT ![c].phase = "rotating", ![c].locked = t]
       \/ /\ ~ConsumeRefreshToken(t)
          /\ GetRefreshTokenRecord(t)
          /\ IF tokens[t].consumed
             THEN jobs' = [jobs EXCEPT ![c].phase = "revoking",
                              ![c].seen = RevokeRefreshTokenFamily(tokens[t].family)]
             ELSE Answer(c, "refused", t)
    /\ UNCHANGED <<tokens, held, waiting, lost, ghosts, faults>>

\* generateRotatedAuthResponse and the commit; the insertion fails, and the
\* transaction is rolled back, when the bound on the rows is reached.
FinishRotation(c) ==
    /\ jobs[c].phase = "rotating"
    /\ \/ Free = {} /\ Answer(c, "failed", jobs[c].locked) /\ UNCHANGED tokens
       \/ \E t \in Free :
            /\ \A x \in Free : t <= x
            /\ CreateRotatedRefreshToken(t, jobs[c].locked)
            /\ Answer(c, "ok", t)
    /\ UNCHANGED <<held, waiting, lost, ghosts, faults>>

\* The UPDATE over several rows ends once none of them is being written.
FinishRevocation(c) ==
    /\ jobs[c].phase = "revoking"
    /\ jobs[c].seen \intersect Locked = {}
    /\ Revoke(jobs[c].seen)
    /\ Answer(c, IF jobs[c].kind = "refresh" THEN "refused" ELSE "ok", jobs[c].token)
    /\ UNCHANGED <<held, waiting, lost, ghosts, faults>>

FinishLogout(c) == LET t == jobs[c].token IN
    /\ jobs[c].kind = "logout" /\ jobs[c].phase = "sent"
    /\ IF GetRefreshToken(t) THEN t \notin Locked /\ RevokeRefreshToken(t)
                             ELSE UNCHANGED tokens
    /\ Answer(c, "ok", t)
    /\ UNCHANGED <<held, waiting, lost, ghosts, faults>>

\* RevokeAllSessions, called with an access token of the account (once per user).
RevokeAllSessions(c, u) ==
    /\ Unused(c)
    /\ \E t \in Rows : Revocable(t) /\ tokens[t].user = u
    /\ u \notin purged
    /\ jobs' = [jobs EXCEPT ![c] = [Request("revoke_all", u, 0) EXCEPT
           !.phase = "revoking", !.seen = RevokeAllUserRefreshTokens(u)]]
    /\ purged' = purged \union {u}
    /\ UNCHANGED <<tokens, held, waiting, lost, ended, faults>>

\* The connection or the process fails: the transaction is rolled back; the
\* waiting device keeps what it had, unless it was signing out.
Abort(c) ==
    /\ jobs[c].phase \in {"sent", "rotating", "revoking"}
    /\ faults < MaxFaults
    /\ faults' = faults + 1
    /\ jobs' = [jobs EXCEPT ![c] = NoJob]
    /\ waiting' = [d \in Devices |-> IF waiting[d] = c THEN NoCall ELSE waiting[d]]
    /\ held' = [d \in Devices |->
           IF waiting[d] = c /\ jobs[c].kind = "logout" THEN 0 ELSE held[d]]
    /\ lost' = {d \in lost : held'[d] # 0}
    /\ UNCHANGED <<tokens, ghosts>>

\* A row passes its expires_at.
Expire(t) ==
    /\ Live(t)
    /\ t \notin Locked
    /\ faults < MaxFaults
    /\ faults' = faults + 1
    /\ tokens' = [tokens EXCEPT ![t].expired = TRUE]
    /\ UNCHANGED <<jobs, held, waiting, lost, ghosts>>

Next ==
    \/ \E d \in Devices :
        \/ \E c \in Calls : (\E u \in Users : SignIn(d, c, u)) \/ Refresh(d, c) \/ Logout(d, c)
        \/ Answered(d) \/ GiveUp(d)
    \/ \E c \in Calls :
        \/ LoginOrRegister(c) \/ BeginRefresh(c) \/ FinishRotation(c)
        \/ FinishRevocation(c) \/ FinishLogout(c) \/ Abort(c)
        \/ \E u \in Users : RevokeAllSessions(c, u)
    \/ \E t \in Rows : Expire(t)

Spec == Init /\ [][Next]_vars

\* The server finishes what it started, a statement that waits for a row lock
\* gets it in its turn, answers arrive unless they are lost, and an open
\* application keeps calling the API, whose 401 leads to a refresh.
Fairness ==
    /\ \A d \in Devices : SF_vars(\E c \in Calls : Refresh(d, c)) /\ WF_vars(Answered(d))
    /\ \A c \in Calls :
        /\ WF_vars(LoginOrRegister(c) \/ FinishRotation(c) \/ FinishLogout(c))
        /\ SF_vars(BeginRefresh(c) \/ FinishRevocation(c))

FairSpec == Spec /\ Fairness

----------------------------------------------------------------------------
(* Properties.                                                             *)

\* However refreshes, retries and revocations interleave, a session has at
\* most one refresh token that still works: a rotation never forks.
OneTokenPerSession == \A t, u \in Rows :
    Live(t) /\ Live(u) /\ tokens[t].family = tokens[u].family => t = u

\* A device that received every answer and made one call at a time holds the
\* newest token of its session: it is never taken for a stale one, and only
\* revoking all sessions ends it from outside.
HeldTokenIsCurrent == \A d \in Devices :
    held[d] # 0 /\ Idle(d) /\ d \notin lost =>
        /\ ~tokens[held[d]].consumed
        /\ tokens[held[d]].revoked => tokens[held[d]].user \in purged

\* A logout that was answered leaves nothing of that session usable, although
\* it revokes a single row: no successor exists or is being created.
LogoutEndsTheSession == \A f \in ended :
    /\ \A t \in InFamily(f) : ~Live(t)
    /\ InFamily(f) \intersect Locked = {}

\* The inductive invariant of these properties.  A session has one row that
\* was not consumed, and it is the one that rotations lock.
SessionsAreChains ==
    /\ \A t \in Rows : Stored(t) => Stored(tokens[t].family)
    /\ \A t, u \in Rows :
        /\ Stored(t) /\ Stored(u) /\ tokens[t].family = tokens[u].family
        /\ ~tokens[t].consumed /\ ~tokens[u].consumed
        => t = u
    /\ \A c \in Calls : jobs[c].phase = "rotating" =>
        /\ jobs[c].kind = "refresh" /\ jobs[c].locked = jobs[c].token
        /\ Live(jobs[c].token)
        /\ \A x \in Calls \ {c} : jobs[x].phase = "rotating" => jobs[x].locked # jobs[c].locked

\* What a request is about while the server works on it.
JobsAreTrue == \A c \in Calls : LET j == jobs[c] IN
    /\ j.kind \in {"refresh", "logout"} => Stored(j.token)
    /\ j.kind = "login" => j.phase \in {"sent", "ok", "refused"} /\ (j.phase = "ok" => Stored(j.token))
    /\ j.kind = "logout" => j.phase \in {"sent", "ok"} /\ (j.phase = "ok" => ~Live(j.token))
    /\ j.kind = "revoke_all" => j.phase = "revoking"
    /\ j.phase = "revoking" =>
        \/ /\ j.kind = "refresh" /\ tokens[j.token].consumed
           /\ j.seen \subseteq InFamily(tokens[j.token].family)
        \/ /\ j.kind = "revoke_all" /\ j.user \in purged
           /\ \A t \in j.seen : Stored(t) /\ tokens[t].user = j.user

\* A device waits for one call, which is its own and about the token it holds.
DevicesWaitForTheirOwn == \A d \in Devices : LET c == waiting[d]  j == jobs[c] IN
    /\ held[d] # 0 => Stored(held[d])
    /\ d \in lost => held[d] # 0
    /\ c # NoCall =>
        /\ j.kind \in {"login", "refresh", "logout"}
        /\ \A e \in Devices \ {d} : waiting[e] # c
        /\ j.kind = "login" <=> held[d] = 0
        /\ j.kind = "logout" => j.token = held[d]
        /\ j.kind = "refresh" => /\ tokens[j.token].family = tokens[held[d]].family
                                 /\ j.phase # "ok" => j.token = held[d]

\* The newest token a device has, or is about to be told.
Current(d) == LET j == jobs[waiting[d]] IN
    IF waiting[d] # NoCall /\ j.kind # "logout" /\ j.phase = "ok" THEN j.token ELSE held[d]

\* Devices have different sessions; a device that missed nothing is alone on
\* its own, and its newest token was neither consumed nor revoked from outside.
SessionsHaveOneDevice == \A d \in Devices : Current(d) # 0 =>
    /\ \A e \in Devices \ {d} :
        Current(e) # 0 => tokens[Current(e)].family # tokens[Current(d)].family
    /\ d \notin lost =>
        /\ \A c \in Calls :
            /\ jobs[c].kind \in {"refresh", "logout"}
            /\ tokens[jobs[c].token].family = tokens[Current(d)].family
            => waiting[d] = c
        /\ ~tokens[Current(d)].consumed
        /\ tokens[Current(d)].revoked =>
            \/ tokens[Current(d)].user \in purged
            \/ waiting[d] # NoCall /\ jobs[waiting[d]].kind = "logout" /\ jobs[waiting[d]].phase = "ok"

AuthInv ==
    /\ TypeOK
    /\ SessionsAreChains /\ OneTokenPerSession /\ JobsAreTrue /\ DevicesWaitForTheirOwn /\ SessionsHaveOneDevice
    /\ \A f \in ended : Stored(f)
    /\ LogoutEndsTheSession

\* A device whose stored token stopped working does not keep it for ever: the
\* next refresh is refused and the session is cleared.
DeadSessionsEnd == \A d \in Devices :
    (held[d] # 0 /\ ~Live(held[d])) ~> (held[d] = 0 \/ Live(held[d]))

\* "RevokeAllSessions invalidates every refresh credential owned by the
\* user": none works when it ends.
RevokeAllInvalidatesEvery ==
    [][\A c \in Calls : jobs[c].kind = "revoke_all" /\ FinishRevocation(c) =>
           \A t \in Rows : tokens[t] # NoRow /\ tokens[t].user = jobs[c].user =>
               tokens'[t].revoked]_vars
=============================================================================
