--------------------------- MODULE EventPipeline ----------------------------
(***************************************************************************)
(* The way of a provider's event to its ingestion: Postmark calls the      *)
(* webhook of the binding, SES events come over the event bus, and both    *)
(* are put on the provider-events queue (infra/yodev-mail-stack.ts).  A    *)
(* function takes batches of it (workers/ses-events.ts), for a minute at   *)
(* most; a record it did not finish becomes visible again, and after a few *)
(* receptions goes to the dead-letter queue, from where an operator may    *)
(* move it back (docs/runbook-dlq-redrive.md).                             *)
(*                                                                         *)
(* An event says which message it is of by the tag the send gave it, or,   *)
(* without one, by the provider's identifier alone, which the database     *)
(* learns from the worker's commit or from an event that came first.       *)
(* What cannot be matched is skipped, and acknowledged like the rest.      *)
(*                                                                         *)
(* Time is what is left of a timeout; a tick takes one from all.           *)
(***************************************************************************)
EXTENDS Integers, FiniteSets

CONSTANTS
    Events,      \* events of the provider
    Invalid,     \* those no schema accepts
    Messages,    \* live messages of the provider that exist
    Tag,         \* Tag[e]: the message e names, not always one of Messages, or "none"
    Id,          \* Id[e]: the provider's identifier of the message it is about
    Records,     \* records the queue ever holds
    Invocations, \* maxConcurrency
    BatchSize,
    MaxReceive,  \* maxReceiveCount of the queue
    Timeout,     \* of the function
    Visibility,  \* visibilityTimeout of the queue
    MaxFaults,   \* bound: errors of the database, invocations killed
    MaxOps       \* bound: changes of the operating mode, redrives

PipelineAssumption ==
    /\ Invalid \subseteq Events
    /\ "none" \notin Messages /\ \A e \in Events : Id[e] # "none"
    /\ {BatchSize, MaxReceive, Timeout, Visibility} \subseteq Nat \ {0} /\ {MaxFaults, MaxOps} \subseteq Nat
    /\ Timeout < Visibility

VARIABLES
    record,   \* each record: its event, where it is, receptions, time it stays hidden,
              \* and whether its message could be told when it was published
    run,      \* each invocation: records to handle, failed, time left
    ingested, \* email_events: (provider, external_event_id) is unique
    applied,  \* how often the effects of each event were written
    stored,   \* messages.provider_message_id
    standby,  \* operating mode: no event source
    faults, ops

effects == <<ingested, applied, stored>>
vars == <<record, run, effects, standby, faults, ops>>

-----------------------------------------------------------------------------
None   == "none"
Unused == [event |-> None, place |-> None, receives |-> 0, hidden |-> 0, known |-> FALSE]
Resting == [batch |-> {}, todo |-> {}, failed |-> {}, left |-> 0]

Running(i)  == run[i].batch # {}
Visible(r)  == record[r].place = "main" /\ record[r].hidden = 0
Fault       == faults < MaxFaults /\ faults' = faults + 1

(* Six minutes, for a function that may run for one.                       *)
HiddenFor    == Visibility

(* normalizeQueuedProviderEvent.                                           *)
Normalizes(e) == e \notin Invalid

(* The messages an event can be about: the one it names, or those with its *)
(* provider identifier, and none of them that has another one by now.      *)
Located(e)    == IF Tag[e] # None THEN {m \in Messages : Tag[e] = m} ELSE {m \in Messages : stored[m] = Id[e]}
Matches(e, m) == stored[m] \in {None, Id[e]}

(* The unique index on the event's identity.                               *)
Inserts(e)    == e \notin ingested

(* reportBatchItemFailures: only the records that failed come back.        *)
ReturnedBug(i) == {}
Returned(i)    == run[i].failed

-----------------------------------------------------------------------------
Init ==
    /\ record = [r \in Records |-> Unused] /\ run = [i \in Invocations |-> Resting]
    /\ ingested = {} /\ applied = [e \in Events |-> 0] /\ stored = [m \in Messages |-> None]
    /\ standby = FALSE /\ faults = 0 /\ ops = 0

(* ingestPostmarkWebhook, SesEventRule: also again, if the provider got no *)
(* answer.  What is refused is not published.                              *)
Publish(e, r) ==
    /\ record[r] = Unused
    /\ record' = [record EXCEPT ![r] = [Unused EXCEPT !.event = e, !.place = "main",
                                                      !.known = Located(e) # {}]]
    /\ UNCHANGED <<run, effects, standby, faults, ops>>

(* The worker's commit stores the identifier the provider answered with    *)
(* (Delivery.tla), unless an event moved the message first.                *)
StoreId(m) ==
    /\ stored[m] = None
    /\ \E e \in Events : stored' = [stored EXCEPT ![m] = Id[e]]
    /\ UNCHANGED <<record, run, ingested, applied, standby, faults, ops>>

Receive(i, B) ==
    /\ ~standby /\ ~Running(i)
    /\ Cardinality(B) \in 1..BatchSize
    /\ \A r \in B : Visible(r) /\ record[r].receives < MaxReceive
    /\ record' = [r \in Records |-> IF r \in B THEN [record[r] EXCEPT !.receives = @ + 1, !.hidden = HiddenFor]
                                    ELSE record[r]]
    /\ run' = [run EXCEPT ![i] = [batch |-> B, todo |-> B, failed |-> {}, left |-> Timeout]]
    /\ UNCHANGED <<effects, standby, faults, ops>>

Bury(r) ==
    /\ ~standby /\ Visible(r) /\ record[r].receives = MaxReceive
    /\ record' = [record EXCEPT ![r].place = "dlq"]
    /\ UNCHANGED <<run, effects, standby, faults, ops>>

(* The transaction writes an event once, to a message it matches; what was *)
(* written before, and what matches none, leaves everything as it was.     *)
ingestProviderEvent(e) ==
    LET found == {m \in Located(e) : Matches(e, m)} IN
    \/ /\ Inserts(e)
       /\ ingested' = ingested \cup {e}
       /\ applied' = [applied EXCEPT ![e] = @ + 1]
       /\ \E m \in found : stored' = [stored EXCEPT ![m] = IF @ = None THEN Id[e] ELSE @]
    \/ (~Inserts(e) \/ found = {}) /\ UNCHANGED effects

(* One record in its try: an error fails this one only, also when its      *)
(* transaction has committed.                                              *)
Handle(i, r) ==
    /\ r \in run[i].todo
    /\ LET e == record[r].event
           Done(failed) == run' = [run EXCEPT ![i].todo = @ \ {r}, ![i].failed = @ \cup failed]
       IN
       \/ ~Normalizes(e) /\ Done({r}) /\ UNCHANGED <<effects, faults>>
       \/ Normalizes(e) /\ ingestProviderEvent(e) /\ Done({}) /\ UNCHANGED faults
       \/ Normalizes(e) /\ ingestProviderEvent(e) /\ Done({r}) /\ Fault
       \/ Normalizes(e) /\ Done({r}) /\ Fault /\ UNCHANGED effects
    /\ UNCHANGED <<record, standby, ops>>

Respond(i) ==
    /\ Running(i) /\ run[i].todo = {}
    /\ record' = [r \in Records |-> IF r \in run[i].batch \ Returned(i) THEN [record[r] EXCEPT !.place = "gone"]
                                    ELSE record[r]]
    /\ run' = [run EXCEPT ![i] = Resting]
    /\ UNCHANGED <<effects, standby, faults, ops>>

(* Out of time, or killed: every record of the batch comes back.           *)
Die(i) ==
    /\ Running(i) /\ Fault
    /\ run' = [run EXCEPT ![i] = Resting]
    /\ UNCHANGED <<record, effects, standby, ops>>

(* An invocation whose time is up is dead before time goes on.             *)
Tick ==
    /\ \A i \in Invocations : Running(i) => run[i].left > 0
    /\ \/ \E r \in Records : record[r].hidden > 0
       \/ \E i \in Invocations : Running(i)
    /\ record' = [r \in Records |-> IF record[r].hidden = 0 THEN record[r] ELSE [record[r] EXCEPT !.hidden = @ - 1]]
    /\ run' = [i \in Invocations |-> IF Running(i) THEN [run[i] EXCEPT !.left = @ - 1] ELSE run[i]]
    /\ UNCHANGED <<effects, standby, faults, ops>>

(* A deployment in another operating mode.                                 *)
Deploy ==
    /\ ops < MaxOps /\ ops' = ops + 1 /\ standby' = ~standby
    /\ UNCHANGED <<record, run, effects, faults>>

Redrive(r) ==
    /\ ops < MaxOps /\ ops' = ops + 1 /\ ~standby
    /\ record[r].place = "dlq"
    /\ record' = [record EXCEPT ![r] = [@ EXCEPT !.place = "main", !.receives = 0]]
    /\ UNCHANGED <<run, effects, standby, faults>>

Next ==
    \/ \E r \in Records : (\E e \in Events : Publish(e, r)) \/ Bury(r) \/ Redrive(r)
    \/ \E i \in Invocations : \/ \E B \in SUBSET Records : Receive(i, B)
                              \/ \E r \in Records : Handle(i, r)
                              \/ Respond(i) \/ Die(i)
    \/ \E m \in Messages : StoreId(m)
    \/ Tick \/ Deploy

(* The event source polls, a function that has time uses it.               *)
Polls    == \E i \in Invocations, B \in SUBSET Records : Receive(i, B)
Works(i) == (\E r \in Records : Handle(i, r)) \/ Respond(i)
Fairness == WF_vars(Polls) /\ WF_vars(Tick) /\ \A i \in Invocations : WF_vars(Works(i))

Spec     == Init /\ [][Next]_vars
FairSpec == Spec /\ Fairness

-----------------------------------------------------------------------------
Queued == [event : Events \cup {None}, place : {None, "main", "dlq", "gone"},
           receives : 0..MaxReceive, hidden : 0..Visibility, known : BOOLEAN]
Batches == [batch : SUBSET Records, todo : SUBSET Records, failed : SUBSET Records, left : 0..Timeout]

TypeOK ==
    /\ record \in [Records -> Queued] /\ run \in [Invocations -> Batches]
    /\ ingested \subseteq Events /\ applied \in [Events -> Nat]
    /\ stored \in [Messages -> {Id[e] : e \in Events} \cup {None}]
    /\ standby \in BOOLEAN /\ faults \in 0..MaxFaults /\ ops \in 0..MaxOps

(* Why the event of a record may be passed over: its message could not be  *)
(* told when it was published (the tag names none that exists, or there is *)
(* no tag and the identifier was not stored), or has another identifier.   *)
MaySkip(r) ==
    LET e == record[r].event IN
    ~record[r].known \/ (Tag[e] \in Messages /\ stored[Tag[e]] \notin {None, Id[e]})

(* However a record is repeated, timed out, buried and moved back, two     *)
(* invocations never hold it together, the effects of an event are written *)
(* once, to a message of its provider identifier, and a record that is     *)
(* gone has had its effects, unless its event may be passed over.          *)
HandledOnce ==
    /\ \A i, j \in Invocations : i # j => run[i].batch \cap run[j].batch = {}
    /\ \A e \in Events : applied[e] <= 1
    /\ \A e \in ingested : \E m \in Messages : stored[m] = Id[e] /\ Tag[e] \in {None, m}
    /\ \A r \in Records : record[r].place = "gone" => applied[record[r].event] = 1 \/ MaySkip(r)

(* A record that cannot be read does not take the others of its batch to   *)
(* the dead-letter queue: it takes MaxReceive errors to bury one that can. *)
OnlyBadIsBuried ==
    \A r \in Records : (record[r].place = "dlq" /\ Normalizes(record[r].event)) => faults >= MaxReceive

(* An event that was published is ingested, if the queue is consumed and   *)
(* its message can be told; an event without a tag that comes before the   *)
(* worker's commit is not waited for, and is lost.                         *)
Waiting(r) == record[r].place = "main" /\ Normalizes(record[r].event) /\ ~MaySkip(r)
Served(r)  == standby \/ record[r].event \in ingested \/ MaySkip(r)
EventuallyIngested == \A r \in Records : Waiting(r) ~> Served(r)
=============================================================================
