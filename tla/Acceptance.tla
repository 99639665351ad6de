----------------------------- MODULE Acceptance -----------------------------
(***************************************************************************)
(* POST /v1/emails and the console's test send (app/v1/emails/route.ts,    *)
(* emails/accept.ts, emails/console-test-send.ts, api/rate-limit.ts,       *)
(* api/authenticate-api-key.ts): how concurrent requests of one workspace  *)
(* become messages, at most one for each idempotency key, within the rate  *)
(* and daily limits, each attachment going to one message.                 *)
(*                                                                         *)
(* Everything before the transaction is read without a lock; the           *)
(* transaction is one action, since its first write to a row it shares     *)
(* with another request makes the other wait.  A message has the identity  *)
(* of the request that created it.                                         *)
(***************************************************************************)
EXTENDS Integers, FiniteSets

CONSTANTS
    Requests,    \* requests received in the run
    None,        \* no message
    Keys,        \* idempotency keys
    ConsoleKeys, \* those the console makes up, a new one for each test send
    Bodies,      \* request bodies, up to their canonical hash
    Files,       \* uploaded attachments
    FilesOf,     \* the attachments a body names
    RateLimit,   \* messages a minute, by mode
    Limits,      \* daily limits an operator may set
    MaxMinute,   \* bound: minutes
    MaxFaults    \* bound: failures and lost acknowledgements

Modes == {"test", "live"}

AcceptanceAssumption ==
    /\ None \notin Requests /\ IsFiniteSet(Requests) /\ ConsoleKeys \subseteq Keys
    /\ FilesOf \in [Bodies -> SUBSET Files]
    /\ RateLimit \in [Modes -> Nat \ {0}] /\ Limits \subseteq Nat /\ Limits # {}
    /\ MaxMinute \in Nat \ {0} /\ MaxFaults \in Nat

VARIABLES
    call,     \* how far each request is, and what it has read
    answer,   \* what its client got
    created,  \* messages, each named by its request
    record,   \* idempotency_keys: the message a key stands for
    owner,    \* attachments.message_id
    ready,    \* attachments that are clean and have not expired
    used,     \* usage_days: accepted and reserved emails
    limit,    \* workspaces.daily_limit
    minute,   \* the clock, in minutes
    spent,    \* api_rate_limits.request_count of this minute
    paid,     \* the minute whose budget each request used (0: none)
    faults    \* failures so far

env  == <<ready, limit, minute>>
rows == <<created, record, owner, used>>
vars == <<call, answer, rows, env, spent, paid, faults>>

-----------------------------------------------------------------------------
Codes == {"unauthorized", "rate_limit_exceeded", "refused", "attachment_not_ready",
          "daily_limit_reached", "idempotency_conflict", "internal_error"}
NoInput == [pc |-> "idle"]
Inputs  == [key : Keys, body : Bodies, mode : Modes]
Calls   == {NoInput} \cup [pc : {"lookup", "limit", "prepare", "recover", "done"}, in : Inputs]
                     \cup [pc : {"commit"}, in : Inputs, limit : Limits]
Unanswered == [code |-> "none", message |-> None]
Answers == {Unanswered} \cup [code : {"accepted"}, message : Requests] \cup [code : Codes, message : {None}]

In(r)      == call[r].in
At(r, pc)  == call[r].pc = pc
Running(r) == call[r].pc \notin {"idle", "done"}
Goto(r, pc) == call' = [call EXCEPT ![r] = [pc |-> pc, in |-> In(r)]]
Fault == faults < MaxFaults /\ faults' = faults + 1

Respond(r, code, m) ==
    /\ Goto(r, "done")
    /\ answer' = [answer EXCEPT ![r] = [code |-> code, message |-> m]]
Refuse(r, code) == Respond(r, code, None)

LiveIn(S) == {m \in S : In(m).mode = "live"}

BelowRate(n, mode)    == n < RateLimit[mode]

QuotaLeft(l)    == used < l

(* messages and idempotency_keys are both unique by workspace and key.     *)
KeyFreeBug(k) == TRUE
KeyFree(k)    == record[k] = None /\ \A m \in created : In(m).key # k

SameBody(m, body)    == m # None /\ In(m).body = body

(* "attachments.message_id is null", once more inside the transaction.     *)
Claimable(fs)    == \A f \in fs : owner[f] = None

(* A transaction that throws takes back its reservation.                   *)
RolledBack(mode)    == used

-----------------------------------------------------------------------------
Init ==
    /\ call    = [r \in Requests |-> NoInput]
    /\ answer  = [r \in Requests |-> Unanswered]
    /\ created = {}
    /\ record  = [k \in Keys |-> None]
    /\ owner   = [f \in Files |-> None]
    /\ ready   = Files
    /\ used    = 0
    /\ limit   \in Limits
    /\ minute  = 1
    /\ spent   = [m \in Modes |-> 0]
    /\ paid    = [r \in Requests |-> 0]
    /\ faults  = 0

(* The API key decides the mode of the request.                            *)
authenticateApiKey(r) ==
    /\ At(r, "idle")
    /\ \E in \in Inputs : in.key \notin ConsoleKeys /\ call' = [call EXCEPT ![r] = [pc |-> "lookup", in |-> in]]
    /\ UNCHANGED <<answer, rows, env, spent, paid, faults>>

(* The console's button: test mode, no attachment, a key of its own.       *)
sendConsoleTest(r) ==
    /\ At(r, "idle")
    /\ \E k \in ConsoleKeys, b \in Bodies :
         /\ FilesOf[b] = {}
         /\ \A q \in {q \in Requests : ~At(q, "idle")} : In(q).key # k
         /\ call' = [call EXCEPT ![r] = [pc |-> "limit", in |-> [key |-> k, body |-> b, mode |-> "test"]]]
    /\ UNCHANGED <<answer, rows, env, spent, paid, faults>>

(* A key that has a record is answered from it, before the rate limit.     *)
Lookup(r) ==
    /\ At(r, "lookup")
    /\ LET m == record[In(r).key] IN
       \/ m = None /\ Goto(r, "limit") /\ UNCHANGED answer
       \/ m # None /\ SameBody(m, In(r).body) /\ Respond(r, "accepted", m)
       \/ m # None /\ ~SameBody(m, In(r).body) /\ Refuse(r, "idempotency_conflict")
    /\ UNCHANGED <<rows, env, spent, paid, faults>>

consumeWorkspaceRateLimit(r) ==
    /\ At(r, "limit")
    /\ LET mode == In(r).mode IN
       \/ /\ BelowRate(spent[mode], mode)
          /\ spent' = [spent EXCEPT ![mode] = @ + 1]
          /\ paid' = [paid EXCEPT ![r] = minute]
          /\ Goto(r, "prepare")
          /\ UNCHANGED answer
       \/ /\ ~BelowRate(spent[mode], mode)
          /\ Refuse(r, "rate_limit_exceeded")
          /\ UNCHANGED <<spent, paid>>
    /\ UNCHANGED <<rows, env, faults>>

(* Workspace, domain, profile, template, sizes and eligibility may refuse; *)
(* the daily limit is remembered, the attachments must be free and clean.  *)
Prepare(r) ==
    /\ At(r, "prepare")
    /\ LET fs == FilesOf[In(r).body] IN
       \/ Refuse(r, "refused")
       \/ ~(fs \subseteq ready /\ Claimable(fs)) /\ Refuse(r, "attachment_not_ready")
       \/ /\ fs \subseteq ready /\ Claimable(fs)
          /\ call' = [call EXCEPT ![r] = [pc |-> "commit", in |-> In(r), limit |-> limit]]
          /\ UNCHANGED answer
    /\ UNCHANGED <<rows, env, spent, paid, faults>>

(* The transaction goes through.                                           *)
Insert(r) ==
    LET in == In(r) IN
    /\ created' = created \cup {r}
    /\ record' = [record EXCEPT ![in.key] = r]
    /\ owner' = [f \in Files |-> IF f \in FilesOf[in.body] THEN r ELSE owner[f]]
    /\ used' = IF in.mode = "live" THEN used + 1 ELSE used

(* The transaction throws.  The rate limit was consumed before it.         *)
RollBack(r) ==
    /\ used' = RolledBack(In(r).mode)
    /\ UNCHANGED <<created, record, owner>>

OverQuota(r) == In(r).mode = "live" /\ ~QuotaLeft(call[r].limit)

(* Quota, message, attachments and key, in this order.  An attachment that *)
(* was taken in between makes the request fail with a 500.                 *)
Commit(r) ==
    /\ At(r, "commit")
    /\ LET in == In(r)
           taken == ~Claimable(FilesOf[in.body]) IN
       \/ /\ OverQuota(r)
          /\ Refuse(r, "daily_limit_reached")
          /\ UNCHANGED rows
       \/ /\ ~OverQuota(r) /\ ~KeyFree(in.key)
          /\ Goto(r, "recover") /\ UNCHANGED answer
          /\ RollBack(r)
       \/ /\ ~OverQuota(r) /\ KeyFree(in.key) /\ taken
          /\ Refuse(r, "internal_error")
          /\ RollBack(r)
       \/ /\ ~OverQuota(r) /\ KeyFree(in.key) /\ ~taken
          /\ Respond(r, "accepted", r)
          /\ Insert(r)
    /\ UNCHANGED <<env, spent, paid, faults>>

(* The commit reaches the database, its acknowledgement not the request.   *)
CommitUnheard(r) ==
    /\ At(r, "commit")
    /\ ~OverQuota(r) /\ KeyFree(In(r).key) /\ Claimable(FilesOf[In(r).body])
    /\ Fault
    /\ Refuse(r, "internal_error")
    /\ Insert(r)
    /\ UNCHANGED <<env, spent, paid>>

(* Unique violation: the request that won answers for both.                *)
Recover(r) ==
    /\ At(r, "recover")
    /\ LET winner == record[In(r).key] IN
       \/ winner = None /\ Refuse(r, "internal_error")
       \/ SameBody(winner, In(r).body) /\ Respond(r, "accepted", winner)
       \/ winner # None /\ ~SameBody(winner, In(r).body) /\ Refuse(r, "idempotency_conflict")
    /\ UNCHANGED <<rows, env, spent, paid, faults>>

(* withSafeRouteErrors: a statement fails and what it began is undone.     *)
Fail(r) ==
    /\ Running(r)
    /\ Fault
    /\ Refuse(r, "internal_error")
    /\ UNCHANGED <<rows, env, spent, paid>>

-----------------------------------------------------------------------------
(* An operator changes the limit, a file expires or is rejected.           *)
SetLimit(l) ==
    /\ l # limit
    /\ limit' = l
    /\ UNCHANGED <<call, answer, rows, ready, minute, spent, paid, faults>>

Spoil(f) ==
    /\ f \in ready
    /\ ready' = ready \ {f}
    /\ UNCHANGED <<call, answer, rows, limit, minute, spent, paid, faults>>

NextMinute ==
    /\ minute < MaxMinute
    /\ minute' = minute + 1
    /\ spent' = [m \in Modes |-> 0]
    /\ UNCHANGED <<call, answer, rows, ready, limit, paid, faults>>

(* Ninety days later the record is purged, the message is kept: no request *)
(* with this key has been running for so long.                             *)
PurgeRecord(k) ==
    /\ record[k] # None
    /\ \A r \in Requests : Running(r) => In(r).key # k
    /\ record' = [record EXCEPT ![k] = None]
    /\ UNCHANGED <<call, answer, created, owner, used, env, spent, paid, faults>>

Handle(r) ==
    \/ Lookup(r) \/ consumeWorkspaceRateLimit(r) \/ Prepare(r)
    \/ Commit(r) \/ Recover(r)

Next ==
    \/ \E r \in Requests : authenticateApiKey(r) \/ sendConsoleTest(r) \/ Handle(r) \/ CommitUnheard(r) \/ Fail(r)
    \/ \E l \in Limits : SetLimit(l)
    \/ \E f \in Files : Spoil(f)
    \/ NextMinute
    \/ \E k \in Keys : PurgeRecord(k)

Spec == Init /\ [][Next]_vars

-----------------------------------------------------------------------------
(* Types, and what is reserved never exceeds the largest daily limit.      *)
TypeOK ==
    /\ call \in [Requests -> Calls]
    /\ answer \in [Requests -> Answers]
    /\ created \subseteq Requests
    /\ record \in [Keys -> Requests \cup {None}]
    /\ owner \in [Files -> Requests \cup {None}]
    /\ ready \subseteq Files
    /\ used \in Nat
    /\ limit \in Limits
    /\ minute \in 1..MaxMinute
    /\ spent \in [Modes -> Nat] /\ \A m \in Modes : spent[m] <= RateLimit[m]
    /\ paid \in [Requests -> 0..MaxMinute]
    /\ faults \in 0..MaxFaults

(* However requests with one key overlap, are retried, or come after the   *)
(* record was purged, the key has one message (accept.ts, transaction).    *)
OneMessagePerKey ==
    \A m, n \in created : In(m).key = In(n).key => m = n

(* A 202 names a message that exists, with the key and the body of the     *)
(* request, also when another request created it (accept.ts:67-76, :286).  *)
AnswersNameTheRequest ==
    \A r \in Requests : answer[r].code = "accepted" =>
        LET m == answer[r].message IN
        m \in created /\ In(m).key = In(r).key /\ In(m).body = In(r).body

(* An attachment belongs to one message, which named it, and a message has *)
(* all of its attachments, whoever else tried to take them meanwhile       *)
(* (accept.ts:256-263).                                                    *)
FilesFollowTheMessage ==
    \A f \in Files :
        /\ owner[f] # None => owner[f] \in created /\ f \in FilesOf[In(owner[f]).body]
        /\ \A m \in created : f \in FilesOf[In(m).body] => owner[f] = m

(* The day's counter is the number of live messages: a request that failed *)
(* after its reservation, or lost to another, has taken nothing, and one   *)
(* whose answer was lost has taken its place (accept.ts:198-217).          *)
ReservationsAreMessages == used = Cardinality(LiveIn(created))

(* No more messages than the budget of a minute come from requests of that *)
(* minute, replays and conflicts included: the lookup that spares a retry  *)
(* the limiter is no way around it (route.ts:25-29).                       *)
WithinRate ==
    /\ \A m \in created : paid[m] > 0
    /\ \A mode \in Modes, t \in 1..MaxMinute :
         Cardinality({m \in created : In(m).mode = mode /\ paid[m] = t}) <= RateLimit[mode]

(* A limit that is lowered is exceeded by requests in flight only: a step  *)
(* beyond it is by a request that read a higher one (accept.ts:79, :210).  *)
BeyondOnlyInFlight ==
    used' > used /\ used' > limit => \E r \in created' \ created : used' <= call[r].limit
=============================================================================
