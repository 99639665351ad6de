------------------------------ MODULE Delivery ------------------------------
(***************************************************************************)
(* The life of one live message: acceptance with its daily reservation,    *)
(* the send worker, the stale-claim recovery, the expiry of queued         *)
(* messages, the ingestion of provider events, and the usage ledger that   *)
(* all of them share (send-email.ts, recover-stale-sending.ts,             *)
(* expire-queued.ts, ingest-event.ts, usage-ledger.ts).                    *)
(*                                                                         *)
(* The queue in front of the worker is at-least-once: a worker may receive *)
(* the job of an accepted message at any time, any number of times, or     *)
(* never.  Outbox.tla is about how the job gets there.                     *)
(***************************************************************************)
EXTENDS Integers, FiniteSets

CONSTANTS
    Messages,        \* identifiers of live messages of one workspace
    Workers,         \* concurrent invocations of the send worker
    Addresses,       \* recipient addresses
    Recipient,       \* Recipient[m]: the address m is sent to
    DailyLimit,      \* workspaces.daily_limit
    Metered,         \* Metered[t]: at tick t, may the workspace have (TRUE) or lack
                     \* (FALSE) a meterable beta subscription with its Stripe ids?
    TransportEvents, \* event types the transport's webhook can carry
    LostAcks,        \* may a COMMIT succeed and its acknowledgement be lost?
    TicksPerDay,     \* clock ticks in one UTC day, and in the send window
    MaxClock,        \* bound: last tick of the model
    MaxFaults        \* bound: crashes, rollbacks and lost acknowledgements

(* Neither transport is subscribed to the "sent" event of its provider.    *)
EventTypes == {"delivered", "soft_bounced", "hard_bounced", "complained", "failed"}

ASSUME SetsAssumption   == IsFiniteSet(Messages) /\ Recipient \in [Messages -> Addresses]
ASSUME LimitAssumption  == DailyLimit \in Nat
ASSUME MeteredAssumption == Metered \in [0..MaxClock -> (SUBSET BOOLEAN) \ {{}}]
ASSUME EventsAssumption == TransportEvents \subseteq EventTypes
ASSUME AckAssumption    == LostAcks \in BOOLEAN
ASSUME ClockAssumption  == TicksPerDay \in Nat \ {0} /\ MaxClock \in Nat /\ MaxFaults \in Nat

VARIABLES
    clock,       \* wall clock
    status,      \* messages.status ("none" before acceptance)
    queuedAt,    \* messages.queued_at
    ambiguousAt, \* messages.ambiguous_at
    lastEventAt, \* messages.last_event_at
    ledger,      \* usage_ledger.accepted_at, NoTime without a row
    usageJobs,   \* messages with a stripe_usage_report_jobs row
    reserved,    \* usage_days.reserved_emails
    accepted,    \* usage_days.accepted_emails
    attempts,    \* outcomes in message_attempts
    published,   \* the worker's and the expiry's own events, by type
    ingested,    \* types of provider events in email_events
    worker,      \* what each invocation is doing
    handed,      \* provider: how many times it took the message
    confirmed,   \* messages whose acceptance the provider told a worker
    faults       \* crashes and database faults so far

message  == <<status, queuedAt, ambiguousAt, lastEventAt>>
usage    == <<ledger, usageJobs, reserved, accepted>>
history  == <<attempts, published, ingested>>
provider == <<handed, confirmed>>
vars     == <<clock, message, usage, history, worker, provider, faults>>

-----------------------------------------------------------------------------
NoTime == -1
Times  == 0..MaxClock
Day(t) == t \div TicksPerDay
Days   == {Day(t) : t \in Times}

Statuses == {"none", "queued", "sending", "sent", "delivered", "soft_bounced",
             "hard_bounced", "complained", "suppressed", "failed", "unknown"}
InFlight == {"queued", "sending"}
ProviderAccepted == {"sent", "delivered", "soft_bounced", "hard_bounced", "complained"}

statusRank ==
    [s \in Statuses |->
        CASE s \in {"none", "queued", "unknown"}     -> 0
          [] s = "sending"                           -> 1
          [] s = "sent"                              -> 2
          [] s = "soft_bounced"                      -> 3
          [] s = "failed"                            -> 4
          [] s = "delivered"                         -> 5
          [] s \in {"hard_bounced", "suppressed"}    -> 6
          [] s = "complained"                        -> 7]

LastEventWins(current, incoming) == incoming
monotonicMessageStatus(current, incoming) ==
    IF statusRank[incoming] >= statusRank[current] THEN incoming ELSE current

safetyEvents     == {"hard_bounced", "complained"}
acceptanceEvents == {"delivered", "soft_bounced", "hard_bounced", "complained"}

\* "check": claimed, not yet evaluated.  "load": eligible, content not loaded.
\* "refuse": a terminal verdict to persist.  "fallback": that or the requeue
\* failed to persist and the claim is being given back.
Pcs  == {"idle", "check", "load", "transmit", "accepted", "ambiguous",
         "transient", "refuse", "fallback"}
Idle == [pc |-> "idle"]
Doing(pc, m)      == [pc |-> pc, msg |-> m]
Accepted(m, at)   == [pc |-> "accepted", msg |-> m, at |-> at]
RefusalByCode(m, why) == [pc |-> "refuse", msg |-> m, verdict |-> "recipient_suppressed"]
Refusal(m, why)   == [pc |-> "refuse", msg |-> m, verdict |-> why]
WorkerStates ==
    {Idle}
      \cup [pc : Pcs \ {"idle", "accepted", "refuse"}, msg : Messages]
      \cup [pc : {"accepted"}, msg : Messages, at : Times]
      \cup [pc : {"refuse"}, msg : Messages, verdict : {"failed", "suppressed"}]

Suppressed(m) ==
    \E n \in Messages : Recipient[n] = Recipient[m] /\ ingested[n] \cap safetyEvents # {}
DailyQuotaLeft == accepted[Day(clock)] < DailyLimit
DeadlinePassed(m) == queuedAt[m] + TicksPerDay <= clock

(* The conditions of the UPDATE statements, by name.  Each "...Bug" is a   *)
(* mistake the checks must notice.                                         *)
QuotaLeftBug(d) == accepted[d] < DailyLimit
QuotaLeft(d)    == accepted[d] + reserved[d] < DailyLimit

ClaimableBug(m) == status[m] \in {"queued", "unknown"}
Claimable(m)    == status[m] = "queued"

StillSending(m)    == status[m] = "sending"

StaleClaimBug(m) == status[m] = "sending" /\ attempts[m] = {}
StaleClaim(m)    == status[m] = "sending"

ExpirableBug(m)   == status[m] \in InFlight /\ DeadlinePassed(m)
Expirable(m)      == status[m] = "queued" /\ DeadlinePassed(m)

ConfirmsAcceptanceBug(m, type) == type \in acceptanceEvents /\ status[m] = "unknown"
ConfirmsAcceptance(m, type) ==
    type \in acceptanceEvents /\ status[m] \in {"unknown", "sending"}

StillReserved(m)    == status[m] = "sending"

-----------------------------------------------------------------------------
Init ==
    /\ clock = 0
    /\ status      = [m \in Messages |-> "none"]
    /\ queuedAt    = [m \in Messages |-> NoTime]
    /\ ambiguousAt = [m \in Messages |-> NoTime]
    /\ lastEventAt = [m \in Messages |-> NoTime]
    /\ ledger      = [m \in Messages |-> NoTime]
    /\ usageJobs   = {}
    /\ reserved    = [d \in Days |-> 0]
    /\ accepted    = [d \in Days |-> 0]
    /\ attempts    = [m \in Messages |-> {}]
    /\ published   = [m \in Messages |-> {}]
    /\ ingested    = [m \in Messages |-> {}]
    /\ worker      = [w \in Workers |-> Idle]
    /\ handed      = [m \in Messages |-> 0]
    /\ confirmed   = {}
    /\ faults = 0

-----------------------------------------------------------------------------
(* Usage ledger.  The subscription is WorkspaceBilling's: what the select  *)
(* finds is what it is at that moment, and without one no job is written.  *)
recordAcceptedUsage(m, at) ==
    IF ledger[m] # NoTime
    THEN UNCHANGED <<ledger, usageJobs, accepted>>
    ELSE /\ ledger'    = [ledger EXCEPT ![m] = at]
         /\ \E found \in Metered[clock] :
              usageJobs' = IF found THEN usageJobs \cup {m} ELSE usageJobs
         /\ accepted'  = [accepted EXCEPT ![Day(at)] = @ + 1]

releaseReservation(m) ==
    reserved' = [reserved EXCEPT ![Day(queuedAt[m])] = IF @ > 0 THEN @ - 1 ELSE 0]

(* What the caller of a transaction learns: an answer, or an error.        *)
Fault   == faults < MaxFaults /\ faults' = faults + 1
NoFault == UNCHANGED faults
Become(w, state) == worker' = [worker EXCEPT ![w] = state]
Committed(w, ok, error) ==
    \/ NoFault /\ Become(w, ok)
    \/ LostAcks /\ Fault /\ Become(w, error)

-----------------------------------------------------------------------------
(* Acceptance: the transaction of acceptEmail for a live message.  The row *)
(* lock on usage_days makes the quota test and the reservation one step.   *)
Accept(m) ==
    LET today == Day(clock) IN
    /\ status[m] = "none"
    /\ clock + TicksPerDay <= MaxClock
    /\ QuotaLeft(today)
    /\ status'    = [status EXCEPT ![m] = "queued"]
    /\ queuedAt'  = [queuedAt EXCEPT ![m] = clock]
    /\ reserved'  = [reserved EXCEPT ![today] = @ + 1]
    /\ published' = [published EXCEPT ![m] = @ \cup {"queued"}]
    /\ UNCHANGED <<clock, ambiguousAt, lastEventAt, ledger, usageJobs, accepted,
                   attempts, ingested, worker, provider, faults>>

(* The send worker, one action per await that other processes can enter.   *)
Claim(w, m) ==
    /\ worker[w] = Idle
    /\ Claimable(m)
    /\ status' = [status EXCEPT ![m] = "sending"]
    /\ Become(w, Doing("check", m))
    /\ UNCHANGED <<clock, queuedAt, ambiguousAt, lastEventAt, usage, history,
                   provider, faults>>

(* What evaluateStoredMessage says.  All that other components own         *)
(* (workspace, domain, binding, profile, billing) may say no at any time.  *)
evaluateStoredMessage(m) ==
    {"failed"} \cup
        (IF Suppressed(m) THEN {"suppressed"}
         ELSE IF DailyQuotaLeft THEN {"eligible"} ELSE {})

(* Deadline, then eligibility, then the provider account.                  *)
Evaluate(w) ==
    /\ worker[w].pc = "check"
    /\ LET m == worker[w].msg IN
       \/ DeadlinePassed(m) /\ Become(w, Refusal(m, "failed"))
       \/ /\ ~DeadlinePassed(m)
          /\ \E verdict \in evaluateStoredMessage(m) :
               Become(w, IF verdict = "eligible" THEN Doing("load", m) ELSE Refusal(m, verdict))
    /\ UNCHANGED <<clock, message, usage, history, provider, faults>>

(* Attachments come from the object store and the credential from the      *)
(* parameter store; an error of theirs that is not a ProviderSendError is  *)
(* classified like a failed call.                                          *)
LoadContent(w) ==
    /\ worker[w].pc = "load"
    /\ LET m == worker[w].msg IN
       \/ NoFault /\ Become(w, Doing("transmit", m))
       \/ NoFault /\ Become(w, Refusal(m, "failed"))
       \/ Fault /\ Become(w, Doing("ambiguous", m))
    /\ UNCHANGED <<clock, message, usage, history, provider>>

(* The provider call: accepted, accepted or not but nobody knows, refused  *)
(* for now (rate limit), refused for good.                                 *)
Transmit(w) ==
    /\ worker[w].pc = "transmit"
    /\ LET m == worker[w].msg IN
       \/ /\ handed' = [handed EXCEPT ![m] = @ + 1]
          /\ confirmed' = confirmed \cup {m}
          /\ Become(w, Accepted(m, clock))
       \/ /\ \E taken \in {0, 1} : handed' = [handed EXCEPT ![m] = @ + taken]
          /\ Become(w, Doing("ambiguous", m))
          /\ UNCHANGED confirmed
       \/ /\ Become(w, Doing("transient", m)) \/ Become(w, Refusal(m, "failed"))
          /\ UNCHANGED provider
    /\ UNCHANGED <<clock, message, usage, history, faults>>

(* The transaction after an explicit acceptance.  It rolls back when the   *)
(* message is no longer "sending"; any error leads to finalizeUnknown.     *)
CommitAccepted(w) ==
    /\ worker[w].pc = "accepted"
    /\ LET m == worker[w].msg IN
       \/ /\ StillSending(m)
          /\ status' = [status EXCEPT ![m] = "sent"]
          /\ recordAcceptedUsage(m, worker[w].at)
          /\ IF ledger[m] = NoTime THEN releaseReservation(m) ELSE UNCHANGED reserved
          /\ attempts'  = [attempts EXCEPT ![m] = @ \cup {"accepted"}]
          /\ published' = [published EXCEPT ![m] = @ \cup {"sent"}]
          /\ Committed(w, Idle, Doing("ambiguous", m))
       \/ /\ \/ ~StillSending(m) /\ NoFault
             \/ Fault
          /\ Become(w, Doing("ambiguous", m))
          /\ UNCHANGED <<status, usage, attempts, published>>
    /\ UNCHANGED <<clock, queuedAt, ambiguousAt, lastEventAt, ingested, provider>>

finalizeUnknown(w) ==
    /\ worker[w].pc = "ambiguous"
    /\ LET m == worker[w].msg IN
       \/ /\ StillSending(m)
          /\ status'      = [status EXCEPT ![m] = "unknown"]
          /\ ambiguousAt' = [ambiguousAt EXCEPT ![m] = clock]
          /\ releaseReservation(m)
          /\ attempts' = [attempts EXCEPT ![m] = @ \cup {"ambiguous"}]
          /\ Committed(w, Idle, Idle)
       \/ /\ \/ ~StillSending(m) /\ NoFault
             \/ Fault
          /\ Become(w, Idle)
          /\ UNCHANGED <<status, ambiguousAt, reserved, attempts>>
    /\ UNCHANGED <<clock, queuedAt, lastEventAt, ledger, usageJobs, accepted,
                   published, ingested, provider>>

finalizeTerminal(w) ==
    /\ worker[w].pc = "refuse"
    /\ LET m == worker[w].msg
           verdict == worker[w].verdict IN
       \/ /\ StillSending(m)
          /\ status' = [status EXCEPT ![m] = verdict]
          /\ releaseReservation(m)
          /\ attempts'  = [attempts EXCEPT ![m] = @ \cup {"definitive_failure"}]
          /\ published' = [published EXCEPT ![m] = @ \cup {verdict}]
          /\ Committed(w, Idle, Doing("fallback", m))
       \/ /\ \/ ~StillSending(m) /\ NoFault /\ Become(w, Idle)
             \/ Fault /\ Become(w, Doing("fallback", m))
          /\ UNCHANGED <<status, reserved, attempts, published>>
    /\ UNCHANGED <<clock, queuedAt, ambiguousAt, lastEventAt, ledger, usageJobs,
                   accepted, ingested, provider>>

(* A rate limit: back to "queued", and the job is left to be redelivered.  *)
Requeue(w) ==
    /\ worker[w].pc = "transient"
    /\ LET m == worker[w].msg IN
       \/ /\ StillSending(m)
          /\ status'   = [status EXCEPT ![m] = "queued"]
          /\ attempts' = [attempts EXCEPT ![m] = @ \cup {"transient_failure"}]
          /\ Committed(w, Idle, Doing("fallback", m))
       \/ /\ \/ ~StillSending(m) /\ NoFault /\ Become(w, Idle)
             \/ Fault /\ Become(w, Doing("fallback", m))
          /\ UNCHANGED <<status, attempts>>
    /\ UNCHANGED <<clock, queuedAt, ambiguousAt, lastEventAt, usage, published,
                   ingested, provider>>

(* terminal_persistence_failed and transient_persistence_failed: give the  *)
(* claim back without a row, then rethrow.                                 *)
GiveBack(w) ==
    /\ worker[w].pc = "fallback"
    /\ LET m == worker[w].msg IN
       \/ NoFault /\ status' = [status EXCEPT ![m] = IF StillSending(m) THEN "queued" ELSE @]
       \/ Fault /\ UNCHANGED status
    /\ Become(w, Idle)
    /\ UNCHANGED <<clock, queuedAt, ambiguousAt, lastEventAt, usage, history, provider>>

(* The invocation is killed, or its connection is: nothing more is written.*)
Crash(w) ==
    /\ worker[w] # Idle
    /\ Fault
    /\ Become(w, Idle)
    /\ UNCHANGED <<clock, message, usage, history, provider>>

(* Schedules.  The lease is compared with the wall clock only, so nothing  *)
(* is assumed about the invocation that holds the claim.                   *)
recoverStaleSending(m) ==
    /\ StaleClaim(m)
    /\ status'      = [status EXCEPT ![m] = "unknown"]
    /\ ambiguousAt' = [ambiguousAt EXCEPT ![m] = clock]
    /\ releaseReservation(m)
    /\ UNCHANGED <<clock, queuedAt, lastEventAt, ledger, usageJobs, accepted,
                   history, worker, provider, faults>>

expireQueuedPastDeadline(m) ==
    /\ Expirable(m)
    /\ status' = [status EXCEPT ![m] = "failed"]
    /\ releaseReservation(m)
    /\ attempts'  = [attempts EXCEPT ![m] = @ \cup {"definitive_failure"}]
    /\ published' = [published EXCEPT ![m] = @ \cup {"failed"}]
    /\ UNCHANGED <<clock, queuedAt, ambiguousAt, lastEventAt, ledger, usageJobs,
                   accepted, ingested, worker, provider, faults>>

-----------------------------------------------------------------------------
(* Provider events.  An honest provider reports only messages it took, and *)
(* a rejected message (SES Reject) has no other event.  Events arrive late,*)
(* out of order and more than once; a repeated one changes nothing.        *)
MayReport(m, type) ==
    /\ handed[m] > 0
    /\ type \notin ingested[m]
    /\ IF type = "failed" THEN ingested[m] = {} ELSE "failed" \notin ingested[m]

ingestProviderEvent(m, type, occurredAt) ==
    LET stale == lastEventAt[m] # NoTime /\ occurredAt < lastEventAt[m]
        acceptedAt == IF ambiguousAt[m] # NoTime /\ ambiguousAt[m] < occurredAt
                      THEN ambiguousAt[m] ELSE occurredAt
    IN
    /\ MayReport(m, type)
    /\ queuedAt[m] <= occurredAt /\ occurredAt <= clock
    /\ ingested' = [ingested EXCEPT ![m] = @ \cup {type}]
    /\ IF ConfirmsAcceptance(m, type)
       THEN /\ recordAcceptedUsage(m, acceptedAt)
            /\ IF ledger[m] = NoTime /\ StillReserved(m)
               THEN releaseReservation(m) ELSE UNCHANGED reserved
       ELSE UNCHANGED usage
    /\ status' = [status EXCEPT ![m] =
                    IF stale /\ type \notin safetyEvents THEN @
                    ELSE monotonicMessageStatus(@, type)]
    /\ lastEventAt' = [lastEventAt EXCEPT ![m] = IF @ > occurredAt THEN @ ELSE occurredAt]
    /\ UNCHANGED <<clock, queuedAt, ambiguousAt, attempts, published, worker,
                   provider, faults>>

Tick ==
    /\ clock < MaxClock
    /\ clock' = clock + 1
    /\ UNCHANGED <<message, usage, history, worker, provider, faults>>

-----------------------------------------------------------------------------
WorkerStep(w) ==
    \/ Evaluate(w)
    \/ LoadContent(w)
    \/ Transmit(w)
    \/ CommitAccepted(w)
    \/ finalizeUnknown(w)
    \/ finalizeTerminal(w)
    \/ Requeue(w)
    \/ GiveBack(w)

Next ==
    \/ \E m \in Messages :
         \/ Accept(m)
         \/ recoverStaleSending(m)
         \/ expireQueuedPastDeadline(m)
         \/ \E type \in TransportEvents, t \in Times : ingestProviderEvent(m, type, t)
    \/ \E w \in Workers :
         \/ \E m \in Messages : Claim(w, m)
         \/ WorkerStep(w)
         \/ Crash(w)
    \/ Tick

Spec == Init /\ [][Next]_vars

(* Time passes and the five-minute schedule keeps running.  Nothing is     *)
(* assumed of the queue, of the workers or of the provider.                *)
Fairness ==
    /\ WF_vars(Tick)
    /\ \A m \in Messages :
         /\ WF_vars(recoverStaleSending(m))
         /\ WF_vars(expireQueuedPastDeadline(m))

FairSpec == Spec /\ Fairness

-----------------------------------------------------------------------------
TypeOK ==
    /\ clock \in Times
    /\ status \in [Messages -> Statuses]
    /\ queuedAt \in [Messages -> Times \cup {NoTime}]
    /\ ambiguousAt \in [Messages -> Times \cup {NoTime}]
    /\ lastEventAt \in [Messages -> Times \cup {NoTime}]
    /\ ledger \in [Messages -> Times \cup {NoTime}]
    /\ usageJobs \subseteq Messages
    /\ reserved \in [Days -> Nat]
    /\ accepted \in [Days -> Nat]
    /\ attempts \in [Messages -> SUBSET {"accepted", "ambiguous", "transient_failure",
                                         "definitive_failure"}]
    /\ published \in [Messages -> SUBSET {"queued", "sent", "failed", "suppressed"}]
    /\ ingested \in [Messages -> SUBSET EventTypes]
    /\ worker \in [Workers -> WorkerStates]
    /\ handed \in [Messages -> Nat]
    /\ confirmed \subseteq Messages
    /\ faults \in 0..MaxFaults

Billed(m) == ledger[m] # NoTime
HoldsReservation(m) == status[m] \in InFlight
ReservedOn(d) == {m \in Messages : HoldsReservation(m) /\ Day(queuedAt[m]) = d}
BilledOn(d)   == {m \in Messages : Billed(m) /\ Day(ledger[m]) = d}

(* No message is handed to a provider that already took it: not by a       *)
(* redelivered job, not after a timeout, a crash, a lost commit or a       *)
(* recovered claim (send-email.ts claims only "queued", and nothing that   *)
(* may have been taken goes back to "queued").                             *)
NeverTakenTwice == \A m \in Messages : handed[m] <= 1

(* Why: as long as no acknowledgement of a COMMIT is lost, one invocation  *)
(* at most works on a message; it stays claimed while it does; and it has  *)
(* not been handed over before the provider answers, nor ever again.       *)
OneHolder ==
    \A v, w \in Workers :
        (worker[v] # Idle /\ worker[w] # Idle /\ worker[v].msg = worker[w].msg) => v = w
HeldIsClaimed ==
    \A w \in Workers : worker[w] # Idle =>
        /\ status[worker[w].msg] \notin {"none", "queued"}
        /\ worker[w].pc \notin {"accepted", "ambiguous"} => handed[worker[w].msg] = 0
HandedIsClaimed == \A m \in Messages : handed[m] > 0 => status[m] \notin {"none", "queued"}
SendPathInvariant == OneHolder /\ HeldIsClaimed /\ HandedIsClaimed /\ NeverTakenTwice

(* Billing follows the outcome whoever wins the race between the worker's  *)
(* commit, the provider's event and the recovery: a message is in the      *)
(* ledger iff its status says the provider accepted it (or the provider    *)
(* rejected it after a committed acceptance); the day's counter has each   *)
(* ledger row once; and a row has its usage job, unless the workspace may  *)
(* have had no meterable subscription between acceptance and now.          *)
MayHaveFound(m, found) == \E t \in ledger[m]..clock : found \in Metered[t]
JobsFollowSubscription ==
    \A m \in Messages :
        /\ m \in usageJobs => Billed(m) /\ MayHaveFound(m, TRUE)
        /\ Billed(m) /\ m \notin usageJobs => MayHaveFound(m, FALSE)
BillingMatchesOutcome ==
    /\ \A m \in Messages :
         /\ status[m] \in ProviderAccepted => Billed(m)
         /\ Billed(m) => status[m] \in ProviderAccepted \cup {"failed"}
         /\ Billed(m) => handed[m] > 0
    /\ JobsFollowSubscription
    /\ \A d \in Days : accepted[d] = Cardinality(BilledOn(d))

(* However commit, event, expiry and recovery interleave, a reservation is *)
(* never given back twice: the day's counter covers every message that     *)
(* still holds one.  The greatest(... - 1, 0) of the code would hide it.   *)
ReservationsCoverInFlight ==
    \A d \in Days : reserved[d] >= Cardinality(ReservedOn(d))

(* The day's counter is exactly the number of messages that hold a         *)
(* reservation: none leaks when an event overtakes the worker.  "An unknown*)
(* message already released its reservation; a sending one has not"        *)
(* (ingest-event.ts): whatever the event, it has to be released.           *)
ReservationsExact ==
    \A d \in Days : reserved[d] = Cardinality(ReservedOn(d))

(* The daily limit: the messages of a day that hold a reservation, or were *)
(* accepted that day without losing it first, are never more than the      *)
(* limit.  A message whose outcome was unknown, or that is accepted on a   *)
(* later day, is not covered by the code's reservation.                    *)
WithinDailyLimit ==
    \A d \in Days :
        Cardinality(ReservedOn(d) \cup
            {m \in BilledOn(d) : Day(queuedAt[m]) = d /\ ambiguousAt[m] = NoTime}) <= DailyLimit

(* A customer told "email.failed" or "email.suppressed" by the worker or   *)
(* the expiry can rely on it: no provider ever took that message, and it   *)
(* is not billed.  At most one local verdict is published.                 *)
VerdictIsFinal ==
    \A m \in Messages :
        /\ published[m] \cap {"failed", "suppressed"} # {} =>
             handed[m] = 0 /\ ~Billed(m) /\ status[m] \in {"failed", "suppressed"}
        /\ Cardinality(published[m] \cap {"sent", "failed", "suppressed"}) <= 1

(* Why: what the columns of a row say of one another, and of the worker    *)
(* that holds the row, at any time.  A verdict is published when its row   *)
(* leaves the send path, and an event is of a message that was taken.      *)
Verdicts == {"sent", "failed", "suppressed"}
RowAgrees(m) ==
    /\ status[m] \in ProviderAccepted => Billed(m)
    /\ Billed(m) => status[m] \in ProviderAccepted \cup {"failed"} /\ handed[m] > 0
    /\ published[m] \cap Verdicts # {} => status[m] \notin {"none", "queued", "sending"}
    /\ published[m] \cap {"failed", "suppressed"} # {} =>
         handed[m] = 0 /\ ~Billed(m) /\ status[m] \in {"failed", "suppressed"}
    /\ \A a, b \in published[m] \cap Verdicts : a = b
    /\ ingested[m] # {} => status[m] \notin {"none", "queued", "sending", "unknown"} /\ handed[m] > 0
    /\ lastEventAt[m] # NoTime => ingested[m] # {}
    /\ status[m] \in {"failed", "suppressed"} =>
         published[m] \cap {"failed", "suppressed"} # {} \/ "failed" \in ingested[m]
HolderAgrees ==
    \A w \in Workers : worker[w] # Idle =>
        /\ published[worker[w].msg] \cap Verdicts = {}
        /\ worker[w].pc = "accepted" => handed[worker[w].msg] > 0
CountersAgree == \A d \in Days : accepted[d] = Cardinality(BilledOn(d))
OutcomeInvariant == (\A m \in Messages : RowAgrees(m)) /\ HolderAgrees /\ CountersAgree

(* message_attempts: at most one attempt is conclusive, and the conclusion *)
(* agrees with the ledger.  "ambiguous" is concluded by a later event.     *)
OneConclusiveAttempt ==
    \A m \in Messages :
        /\ Cardinality(attempts[m] \ {"transient_failure"}) <= 1
        /\ "accepted" \in attempts[m] => Billed(m)
        /\ "definitive_failure" \in attempts[m] => ~Billed(m)

(* While a worker holds a message nobody else does, its history agrees with *)
(* the ledger, and what is in flight has its reservation, released once:    *)
(* the claim of sendOne is what all three rest on (send-email.ts:178).      *)
ClaimsHold == SendPathInvariant /\ OutcomeInvariant /\ OneConclusiveAttempt /\ ReservationsCoverInFlight

(* The counter acceptEmail tests is the number of reservations held, and    *)
(* never lets the day beyond its limit (accept.ts:205).                     *)
CountersHold == WithinDailyLimit /\ ReservationsExact

(* What a step may never do: take a billed message out of the ledger, move *)
(* its date, or lower its rank; or put a message whose outcome is unknown  *)
(* back in the send path ("no automatic replay").                          *)
OutcomesOnlyAdvance ==
    [][\A m \in Messages :
         /\ Billed(m) => ledger'[m] = ledger[m]
         /\ Billed(m) => statusRank[status'[m]] >= statusRank[status[m]]
         /\ status[m] \notin InFlight \cup {"none"} => status'[m] \notin InFlight]_vars

(* Every accepted message reaches an outcome, even when its job is lost,   *)
(* every worker that claims it dies, or the provider keeps rate limiting.  *)
EventuallySettled ==
    \A m \in Messages : status[m] \in InFlight ~> status[m] \notin InFlight

Unattended(m) == \A w \in Workers : worker[w] = Idle \/ worker[w].msg # m
(* "An explicit acceptance creates the usage ledger and email.sent"        *)
(* (architecture.md): once the worker that was told of the acceptance is   *)
(* done, and its outcome never was in doubt, both exist.                   *)
AcceptancePublished ==
    \A m \in Messages :
        (m \in confirmed /\ ambiguousAt[m] = NoTime /\ Unattended(m))
            => (Billed(m) /\ "sent" \in published[m])

-----------------------------------------------------------------------------
(* The refinement mapping: what the columns and the ledger say about m.    *)
PhaseOf(m) ==
    CASE status[m] = "none"    -> "absent"
      [] Billed(m)             -> "accepted"
      [] HoldsReservation(m)   -> "pending"
      [] status[m] = "unknown" -> "inDoubt"
      [] OTHER                 -> "refused"

Contract == INSTANCE MessageContract
            WITH phase <- [m \in Messages |-> PhaseOf(m)], counted <- accepted

(* Delivery keeps the contract: each of its steps is one step of the       *)
(* contract or none, and the status only advances, whatever overtakes      *)
(* what (ingestProviderEvent, monotonicMessageStatus). Under fair          *)
(* schedules what is accepted is settled, in the contract and in the       *)
(* table.                                                                  *)
KeepsContract     == Contract!Spec     /\ OutcomesOnlyAdvance
KeepsFairContract == Contract!FairSpec /\ EventuallySettled
=============================================================================
