---------------------------- MODULE McpConfirmations ----------------------------
(***************************************************************************)
(* The MCP server: agents call tools with tokens of a user, and a tool     *)
(* that destroys or shares something runs in two calls, one that creates a *)
(* confirmation for its arguments and one that redeems it.  A redeeming    *)
(* call holds the confirmation under a lease; it may be cut off at any     *)
(* point and be repeated while it still runs.                              *)
(***************************************************************************)
EXTENDS Naturals, Sequences

CONSTANTS
    Calls,           \* slots for calls under way
    Confirmations,   \* confirmation identifiers
    Users,           \* users who connect agents
    Tokens,          \* token identifiers
    Mutations,       \* arguments of the tools that run in the confirmation's transaction
    Operations,      \* arguments of the tools that send one document operation, its
                     \* operation_id, which the agent draws, among them
    Lifetime,        \* how long a confirmation may be reserved (5 minutes)
    Lease,           \* how long a reservation holds (2 minutes)
    MaxClock,        \* bound on the clock
    MaxReservations, \* bound on the owner tokens drawn
    MaxEdits,        \* bound on the edits that others make to the notes
    MaxFaults,       \* bound on the calls cut off
    None

ASSUME McpConfirmationsAssumption ==
    /\ Lifetime \in Nat \ {0} /\ Lease \in Nat \ {0}
    /\ MaxClock \in Nat /\ MaxReservations \in Nat /\ MaxEdits \in Nat /\ MaxFaults \in Nat
    /\ Mutations \intersect Operations = {}
    /\ None \notin Users \union Confirmations \union Tokens \union Mutations \union Operations

VARIABLES
    now,
    token,         \* the rows of mcp_tokens
    confirmation,  \* the rows of mcp_confirmations
    call,          \* what each call under way holds
    drawn,         \* owner tokens drawn so far
    effects,       \* the effects on notes, in their order
    edits,         \* edits made by others, which a response tells of too
    audit,         \* starts of tools in mcp_audit_log
    answers,       \* history: results answered, by confirmation
    faults

vars == <<now, token, confirmation, call, drawn, effects, edits, audit, answers, faults>>

Arguments == Mutations \union Operations
Results == DOMAIN effects

\* What a tool answers: the effect, and the notes as they were at that moment
\* (the final revision, the remote operations and the document of a
\* SyncResponse).
Responses == [effect : Nat, edits : 0..MaxEdits]
Response(i) == [effect |-> i, edits |-> edits]
NoResult == [effect |-> 0, edits |-> 0]

NoCall == [phase |-> "idle", token |-> None, arguments |-> None, confirmation |-> None,
           owner |-> 0, result |-> NoResult, warning |-> "none"]
NoToken == [state |-> "none", user |-> None, write |-> FALSE]
NoConfirmation == [user |-> None, arguments |-> None, status |-> "none", expires |-> 0,
                   owner |-> 0, lease |-> 0, result |-> NoResult]

TokenRows == [state : {"none", "live", "expired", "revoked"}, user : Users \union {None}, write : BOOLEAN]

ConfirmationRows ==
    [user : Users \union {None}, arguments : Arguments \union {None},
     status : {"none", "available", "pending", "committed"},
     expires : 0..(MaxClock + Lifetime), owner : 0..MaxReservations,
     lease : 0..(MaxClock + Lease), result : Responses]

CallStates ==
    [phase : {"idle", "handling", "holding", "executed", "answering"},
     token : Tokens \union {None}, arguments : Arguments \union {None},
     confirmation : Confirmations \union {None}, owner : 0..MaxReservations,
     result : Responses, warning : {"none", "given"}]

Effects == [arguments : Arguments, token : Tokens, confirmation : Confirmations]

TypeOK ==
    /\ now \in 0..MaxClock /\ drawn \in 0..MaxReservations
    /\ edits \in 0..MaxEdits /\ faults \in 0..MaxFaults
    /\ token \in [Tokens -> TokenRows]
    /\ effects \in Seq(Effects)
    /\ audit \subseteq [token : Tokens, arguments : Arguments]
    /\ answers \subseteq [confirmation : Confirmations, result : Responses, warning : {"none", "given"}]
    /\ confirmation \in [Confirmations -> ConfirmationRows]
    /\ \A f \in Confirmations : LET row == confirmation[f] IN
        /\ row.status = "none" <=> row.arguments = None
        /\ row.status = "pending" <=> row.owner # 0
        /\ row.status = "committed" <=> row.result.effect # 0
    /\ call \in [Calls -> CallStates]
    /\ \A c \in Calls : call[c].phase # "idle" => call[c].token \in Tokens /\ call[c].arguments \in Arguments

Init ==
    /\ now = 0 /\ drawn = 0 /\ edits = 0 /\ faults = 0
    /\ token = [t \in Tokens |-> NoToken]
    /\ confirmation = [f \in Confirmations |-> NoConfirmation]
    /\ call = [c \in Calls |-> NoCall]
    /\ effects = <<>> /\ audit = {} /\ answers = {}

Tick ==
    /\ now < MaxClock
    /\ now' = now + 1
    /\ UNCHANGED <<token, confirmation, call, drawn, effects, edits, audit, answers, faults>>

\* Someone writes to a note in the app.
Edit ==
    /\ edits < MaxEdits
    /\ edits' = edits + 1
    /\ UNCHANGED <<now, token, confirmation, call, drawn, effects, audit, answers, faults>>

----------------------------------------------------------------------------
(* Tokens.                                                                 *)

OnlyTokens == UNCHANGED <<now, confirmation, call, drawn, effects, edits, audit, answers, faults>>

issueMCPToken(t, user, write) ==
    token' = [token EXCEPT ![t] = [state |-> "live", user |-> user, write |-> write]]

GenerateMCPToken(t, user, write) ==
    /\ token[t].state = "none"
    /\ issueMCPToken(t, user, write)
    /\ OnlyTokens

Expire(t) ==
    /\ token[t].state = "live"
    /\ token' = [token EXCEPT ![t].state = "expired"]
    /\ OnlyTokens

Revocable(t) == token[t].state \in {"live", "expired"}

RevokeMCPToken(t) ==
    /\ Revocable(t)
    /\ token' = [token EXCEPT ![t].state = "revoked"]
    /\ OnlyTokens

\* One transaction; scopes that do not parse roll the revocation back.
RotateMCPToken(t, heir, write) ==
    /\ Revocable(t) /\ token[heir].state = "none"
    /\ token' = [token EXCEPT ![t].state = "revoked",
                              ![heir] = [state |-> "live", user |-> token[t].user, write |-> write]]
    /\ OnlyTokens

----------------------------------------------------------------------------
(* A call of a tool that must be confirmed.                                *)

\* authenticateMCPToken, the scope checks, and the start in the audit log,
\* without which nothing runs.  The agent knows the confirmations created.
StartCall(c, t, a, f) ==
    /\ call[c].phase = "idle"
    /\ token[t].state = "live" /\ token[t].write
    /\ f # None => confirmation[f].status # "none"
    /\ call' = [call EXCEPT ![c] = [phase |-> "handling", token |-> t, arguments |-> a,
                                       confirmation |-> f, owner |-> 0, result |-> NoResult,
                                       warning |-> "none"]]
    /\ audit' = audit \union {[token |-> t, arguments |-> a]}
    /\ UNCHANGED <<now, token, confirmation, drawn, effects, edits, answers, faults>>

End(c) == call' = [call EXCEPT ![c] = NoCall]

User(c) == token[call[c].token].user

CreateConfirmation(c, f) ==
    /\ call[c].phase = "handling" /\ call[c].confirmation = None
    /\ confirmation[f].status = "none"
    /\ confirmation' = [confirmation EXCEPT ![f] =
        [user |-> User(c), arguments |-> call[c].arguments, status |-> "available",
         expires |-> now + Lifetime, owner |-> 0, lease |-> 0, result |-> NoResult]]
    /\ End(c)
    /\ UNCHANGED <<now, token, drawn, effects, edits, audit, answers, faults>>

Matches(f, u, a) == confirmation[f].user = u /\ confirmation[f].arguments = a

\* Mutant: a reservation does not look at the arguments.
ReservableForAny(f, u, a) ==
    /\ confirmation[f].user = u
    /\ \/ confirmation[f].status = "available"
       \/ confirmation[f].status = "pending" /\ confirmation[f].lease <= now
    /\ confirmation[f].expires > now

\* The row the call may reserve: its own user and arguments, in time, and free
\* or abandoned.
Reservable(f, u, a) ==
    /\ Matches(f, u, a)
    /\ \/ confirmation[f].status = "available"
       \/ confirmation[f].status = "pending" /\ confirmation[f].lease <= now
    /\ confirmation[f].expires > now

ReserveConfirmation(c) ==
    LET f == call[c].confirmation
        a == call[c].arguments
    IN
    /\ call[c].phase = "handling" /\ f # None
    /\ IF Reservable(f, User(c), a)
       THEN /\ drawn < MaxReservations
            /\ drawn' = drawn + 1
            /\ confirmation' = [confirmation EXCEPT ![f].status = "pending",
                                                    ![f].owner = drawn', ![f].lease = now + Lease]
            /\ call' = [call EXCEPT ![c].phase = "holding", ![c].owner = drawn']
       ELSE /\ IF Matches(f, User(c), a) /\ confirmation[f].status = "committed"
               THEN call' = [call EXCEPT ![c].phase = "answering", ![c].result = confirmation[f].result]
               ELSE End(c)  \* pending elsewhere, expired, or of another user or other arguments
            /\ UNCHANGED <<drawn, confirmation>>
    /\ UNCHANGED <<now, token, effects, edits, audit, answers, faults>>

Owned(c) == LET row == confirmation[call[c].confirmation] IN
    row.status = "pending" /\ row.owner = call[c].owner

Committed(c, result) ==
    confirmation' = [confirmation EXCEPT ![call[c].confirmation] =
        [@ EXCEPT !.status = "committed", !.owner = 0, !.lease = 0, !.result = result]]

Effect(c) == [arguments |-> call[c].arguments, token |-> call[c].token,
              confirmation |-> call[c].confirmation]

\* Mutant: the mutation runs for whoever held a lease once.
CommitUnfenced(c) ==
    /\ call[c].phase = "holding" /\ call[c].arguments \in Mutations
    /\ effects' = Append(effects, Effect(c))
    /\ Committed(c, Response(Len(effects')))
    /\ call' = [call EXCEPT ![c].phase = "answering", ![c].result = Response(Len(effects'))]
    /\ UNCHANGED <<now, token, drawn, edits, audit, answers, faults>>

\* One transaction that locks the row.  The mutation itself may be refused,
\* which rolls back and leaves the confirmation pending.
CommitMutation(c) ==
    LET row == confirmation[call[c].confirmation] IN
    /\ call[c].phase = "holding" /\ call[c].arguments \in Mutations
    /\ \/ /\ row.status = "committed"
          /\ call' = [call EXCEPT ![c].phase = "answering", ![c].result = row.result]
          /\ UNCHANGED <<confirmation, effects>>
       \/ /\ Owned(c)
          /\ effects' = Append(effects, Effect(c))
          /\ Committed(c, Response(Len(effects')))
          /\ call' = [call EXCEPT ![c].phase = "answering", ![c].result = Response(Len(effects'))]
       \/ /\ row.status # "committed"
          /\ End(c)
          /\ UNCHANGED <<confirmation, effects>>
    /\ UNCHANGED <<now, token, drawn, edits, audit, answers, faults>>

\* SyncOperations with the operation of the call: a new one is accepted, one
\* the log knows is recognised when its payload is written as JSONB writes
\* it, and either may be refused.  Each call gets a response of its own, with
\* the notes as they are now.
SyncOperations(c) ==
    LET known == {i \in Results : effects[i].arguments = call[c].arguments} IN
    /\ call[c].phase = "holding" /\ call[c].arguments \in Operations
    /\ \/ /\ known = {}
          /\ effects' = Append(effects, Effect(c))
          /\ call' = [call EXCEPT ![c].phase = "executed", ![c].result = Response(Len(effects'))]
       \/ \E i \in known :
          /\ call' = [call EXCEPT ![c].phase = "executed", ![c].result = Response(i)]
          /\ UNCHANGED effects
       \/ End(c) /\ UNCHANGED effects
    /\ UNCHANGED <<now, token, confirmation, drawn, edits, audit, answers, faults>>

\* Mutant: the commit stores the response of whoever ends, without a fence.
CommitUnowned(c) ==
    /\ call[c].phase = "executed"
    /\ Committed(c, call[c].result)
    /\ call' = [call EXCEPT ![c].phase = "answering"]
    /\ UNCHANGED <<now, token, drawn, effects, edits, audit, answers, faults>>

\* The response of the call is stored, and answered even when the confirmation
\* is no longer the call's, but then with a warning.
Commit(c) ==
    /\ call[c].phase = "executed"
    /\ IF Owned(c) THEN Committed(c, call[c].result) ELSE UNCHANGED confirmation
    /\ call' = [call EXCEPT ![c].phase = "answering",
                             ![c].warning = IF Owned(c) THEN "none" ELSE "given"]
    /\ UNCHANGED <<now, token, drawn, effects, edits, audit, answers, faults>>

\* The connection to the database fails: stored or not, the call answers with
\* the warning.
LoseCommit(c) ==
    /\ call[c].phase = "executed" /\ faults < MaxFaults
    /\ faults' = faults + 1
    /\ (Owned(c) /\ Committed(c, call[c].result)) \/ UNCHANGED confirmation
    /\ call' = [call EXCEPT ![c].phase = "answering", ![c].warning = "given"]
    /\ UNCHANGED <<now, token, drawn, effects, edits, audit, answers>>

Answer(c) ==
    /\ call[c].phase = "answering"
    /\ answers' = answers \union
        {[confirmation |-> call[c].confirmation, result |-> call[c].result, warning |-> call[c].warning]}
    /\ End(c)
    /\ UNCHANGED <<now, token, confirmation, drawn, effects, edits, audit, faults>>

\* The agent hangs up or the process ends.
CutOff(c) ==
    /\ call[c].phase # "idle" /\ faults < MaxFaults
    /\ faults' = faults + 1
    /\ End(c)
    /\ UNCHANGED <<now, token, confirmation, drawn, effects, edits, audit, answers>>

----------------------------------------------------------------------------

Next ==
    \/ Tick \/ Edit
    \/ \E t \in Tokens :
        \/ Expire(t) \/ RevokeMCPToken(t)
        \/ \E write \in BOOLEAN :
            \/ \E user \in Users : GenerateMCPToken(t, user, write)
            \/ \E heir \in Tokens \ {t} : RotateMCPToken(t, heir, write)
    \/ \E c \in Calls :
        \/ \E t \in Tokens, a \in Arguments, f \in Confirmations \union {None} : StartCall(c, t, a, f)
        \/ \E f \in Confirmations : CreateConfirmation(c, f)
        \/ ReserveConfirmation(c) \/ CommitMutation(c) \/ SyncOperations(c)
        \/ Commit(c) \/ LoseCommit(c) \/ Answer(c) \/ CutOff(c)

Spec == Init /\ [][Next]_vars

----------------------------------------------------------------------------
(* Properties.                                                             *)

\* A confirmation is good for one effect, however often its call is repeated,
\* taken over after its lease or cut off between the effect and the commit.
OneEffectEach == \A i, j \in Results :
    effects[i].confirmation = effects[j].confirmation => i = j

Stored(f, r) == confirmation[f].status = "committed" /\ confirmation[f].result = r

\* All answers to one confirmation tell of the same effect, the one it
\* committed, and an answer without a warning is the very response that it
\* committed: whoever repeats the call gets it again.  Only an overtaken
\* document operation answers, with a warning, a response of its own.
AnswersAgree == \A x \in answers :
    /\ \A y \in answers : x.confirmation = y.confirmation => x.result.effect = y.result.effect
    /\ confirmation[x.confirmation].status = "committed" =>
           confirmation[x.confirmation].result.effect = x.result.effect
    /\ x.warning = "none" => Stored(x.confirmation, x.result)

\* Nothing is done but what a confirmation was created for, for the user who
\* created it, by a token that may write, after the audit log said so.
EffectsAreConfirmed == \A i \in Results : LET e == effects[i] IN
    /\ confirmation[e.confirmation].arguments = e.arguments
    /\ confirmation[e.confirmation].user = token[e.token].user
    /\ token[e.token].write
    /\ [token |-> e.token, arguments |-> e.arguments] \in audit

\* What a response says: an effect with the arguments of the confirmation.
ResultOf(f, r) == r.effect \in Results /\ effects[r.effect].arguments = confirmation[f].arguments

\* A response is given without a warning once it is stored, and a mutation's
\* never has one.
Given(f, r, warning) ==
    /\ ResultOf(f, r)
    /\ IF warning = "none" THEN Stored(f, r) ELSE confirmation[f].arguments \in Operations

\* A token that may write, and the start of the call in the audit log.
Allowed(t, a) ==
    /\ token[t].write /\ token[t].state # "none"
    /\ [token |-> t, arguments |-> a] \in audit

\* The confirmation is that of the user of the token and for the arguments.
For(f, t, a) ==
    /\ confirmation[f].status # "none"
    /\ Matches(f, token[t].user, a)

\* A call that holds a confirmation holds it for its own user and arguments.
CallOK(c) == LET k == call[c] IN
    /\ k.phase # "idle" => Allowed(k.token, k.arguments)
    /\ k.phase = "handling" /\ k.confirmation # None => confirmation[k.confirmation].status # "none"
    /\ k.phase \in {"holding", "executed", "answering"} =>
           k.confirmation \in Confirmations /\ For(k.confirmation, k.token, k.arguments)
    /\ k.phase # "answering" => k.warning = "none"
    /\ k.phase = "executed" => k.arguments \in Operations /\ ResultOf(k.confirmation, k.result)
    /\ k.phase = "answering" => Given(k.confirmation, k.result, k.warning)

\* The effect of a mutation is committed with its confirmation.
EffectOK(i) == LET e == effects[i] IN
    /\ For(e.confirmation, e.token, e.arguments)
    /\ e.arguments \in Mutations => confirmation[e.confirmation].status = "committed"
                                 /\ confirmation[e.confirmation].result.effect = i
    /\ Allowed(e.token, e.arguments)

\* The inductive invariant: a document operation is in the log once, and the
\* effect of a mutation is in its confirmation's transaction.
McpInv ==
    /\ TypeOK
    /\ \A i \in Results : EffectOK(i)
    /\ \A i, j \in Results :
        effects[i].arguments \in Operations /\ effects[i].arguments = effects[j].arguments => i = j
    /\ \A f \in Confirmations :
        confirmation[f].status = "committed" => ResultOf(f, confirmation[f].result)
    /\ \A c \in Calls : CallOK(c)
    /\ \A x \in answers : Given(x.confirmation, x.result, x.warning)
=============================================================================
