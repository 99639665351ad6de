------------------------------- MODULE Outbox -------------------------------
(***************************************************************************)
(* The transactional outbox: rows committed with the state they announce,  *)
(* and the scheduled dispatcher that turns each into a queue message       *)
(* (outbox-dispatch.ts).  Invocations overlap: one may start while the     *)
(* previous one still runs, or after it was killed half-way.               *)
(*                                                                         *)
(* Time is relative, so nothing bounds it: age[j] is the time since the    *)
(* row's claimed_at, wait[j] the time until its available_at, and elapsed  *)
(* the time since an invocation took its "now".                            *)
(***************************************************************************)
EXTENDS Integers, FiniteSets

CONSTANTS
    Jobs,        \* outbox_jobs rows
    NoJob,       \* what an invocation without a row holds
    Dispatchers, \* invocations that may run at the same time
    Limit,       \* rows one invocation looks at
    Lease,       \* ticks after which a claim is stale (five minutes)
    Timeout,     \* ticks after which an invocation is killed (one minute)
    TickSeconds, \* seconds in a tick
    MaxAttempts, \* bound: attempts are counted up to here
    MaxFaults    \* bound: crashes, database errors, queue errors

ASSUME JobsAssumption  == IsFiniteSet(Jobs) /\ NoJob \notin Jobs /\ Limit \in Nat \ {0}
ASSUME LeaseAssumption == Timeout \in Nat /\ Lease \in Nat /\ Timeout <= Lease
ASSUME BoundAssumption == TickSeconds \in Nat \ {0} /\ MaxAttempts \in Nat /\ MaxFaults \in Nat

VARIABLES
    status,   \* outbox_jobs.status ("none" before the insert)
    attempts, \* outbox_jobs.attempts
    age,      \* ticks since outbox_jobs.claimed_at
    wait,     \* ticks until outbox_jobs.available_at
    sent,     \* queue: messages it holds, or held, for the row
    run,      \* what each invocation is doing
    faults    \* faults so far

vars == <<status, attempts, age, wait, sent, run, faults>>

-----------------------------------------------------------------------------
Statuses == {"none", "pending", "processing", "delivered"}
OldAge   == Lease + Timeout + 1

Least(a, b) == IF a < b THEN a ELSE b

(* min(900, 2^min(attempts, 9)) seconds, in ticks that begin or end in it. *)
backoff(n) == (Least(900, 2 ^ Least(n, 9)) + TickSeconds - 1) \div TickSeconds

Idle == [pc |-> "idle", elapsed |-> 0, todo |-> {}, job |-> NoJob, tries |-> 0]
Runs == [pc : {"idle", "next", "send", "mark", "retry"}, elapsed : 0..Timeout,
         todo : SUBSET Jobs, job : Jobs \cup {NoJob}, tries : 0..MaxAttempts]

(* lt(claimedAt, now - 5 min), for the "now" an invocation took.           *)
StaleForBug(j, elapsed) == age[j] - elapsed > 0
StaleFor(j, elapsed)    == age[j] - elapsed > Lease

NeverRetakenBug(j, elapsed) == status[j] = "pending"
OpenToAllBug(j, elapsed)    == status[j] \in {"pending", "processing"}
Claimable(j, elapsed) ==
    \/ status[j] = "pending"
    \/ status[j] = "processing" /\ StaleFor(j, elapsed)

Fault   == faults < MaxFaults /\ faults' = faults + 1
NoFault == UNCHANGED faults

Become(d, state) == run' = [run EXCEPT ![d] = state]
(* On to the next candidate, or the end of the invocation.                 *)
Proceed(d) ==
    LET rest == run[d].todo \ {run[d].job} IN
    Become(d, IF rest = {} THEN Idle
              ELSE [Idle EXCEPT !.pc = "next", !.elapsed = run[d].elapsed, !.todo = rest])
Tried(d) == Least(run[d].tries + 1, MaxAttempts)

(* What an error of the queue leads to, and what a row is after an error.  *)
SendFailed(d)   == Become(d, [run[d] EXCEPT !.pc = "retry"])
GivenUpBug   == "failed"
AfterFailure == "pending"

-----------------------------------------------------------------------------
Init ==
    /\ status   = [j \in Jobs |-> "none"]
    /\ attempts = [j \in Jobs |-> 0]
    /\ age      = [j \in Jobs |-> 0]
    /\ wait     = [j \in Jobs |-> 0]
    /\ sent     = [j \in Jobs |-> 0]
    /\ run      = [d \in Dispatchers |-> Idle]
    /\ faults   = 0

(* A transaction of another component commits a row, due now or later (the *)
(* retry of a customer webhook).                                           *)
Insert(j) ==
    /\ status[j] = "none"
    /\ status' = [status EXCEPT ![j] = "pending"]
    /\ \E delay \in {0, 1} : wait' = [wait EXCEPT ![j] = delay]
    /\ UNCHANGED <<attempts, age, sent, run, faults>>

(* One query, without an order: any Limit of the rows that are due.        *)
Scan(d) ==
    LET due == {j \in Jobs : wait[j] = 0 /\ Claimable(j, 0)} IN
    /\ run[d] = Idle
    /\ \E todo \in SUBSET due \ {{}} :
         /\ Cardinality(todo) = Least(Limit, Cardinality(due))
         /\ Become(d, [Idle EXCEPT !.pc = "next", !.todo = todo])
    /\ UNCHANGED <<status, attempts, age, wait, sent, faults>>

(* The UPDATE repeats the status test, not the availability test, with the *)
(* "now" of the query; claimed_at is set to that "now".                    *)
Claim(d) ==
    /\ run[d].pc = "next"
    /\ \E j \in run[d].todo :
         IF Claimable(j, run[d].elapsed)
         THEN /\ status' = [status EXCEPT ![j] = "processing"]
              /\ age'    = [age EXCEPT ![j] = run[d].elapsed]
              /\ Become(d, [run[d] EXCEPT !.pc = "send", !.job = j, !.tries = attempts[j]])
         ELSE /\ LET rest == run[d].todo \ {j} IN
                 Become(d, IF rest = {} THEN Idle ELSE [run[d] EXCEPT !.todo = rest])
              /\ UNCHANGED <<status, age>>
    /\ UNCHANGED <<attempts, wait, sent, faults>>

(* An error of the queue does not say whether it kept the message.         *)
Send(d) ==
    /\ run[d].pc = "send"
    /\ \/ /\ NoFault
          /\ sent' = [sent EXCEPT ![run[d].job] = @ + 1]
          /\ Become(d, [run[d] EXCEPT !.pc = "mark"])
       \/ /\ Fault
          /\ \E kept \in {0, 1} : sent' = [sent EXCEPT ![run[d].job] = @ + kept]
          /\ SendFailed(d)
    /\ UNCHANGED <<status, attempts, age, wait>>

(* Neither update checks that the claim is still the invocation's own.  An *)
(* error after the message was queued is treated as a failure to queue it. *)
MarkDelivered(d) ==
    LET j == run[d].job IN
    /\ run[d].pc = "mark"
    /\ \/ /\ status'   = [status EXCEPT ![j] = "delivered"]
          /\ attempts' = [attempts EXCEPT ![j] = Tried(d)]
          /\ \/ NoFault /\ Proceed(d)
             \/ Fault /\ Become(d, [run[d] EXCEPT !.pc = "retry"])
       \/ /\ Fault
          /\ Become(d, [run[d] EXCEPT !.pc = "retry"])
          /\ UNCHANGED <<status, attempts>>
    /\ UNCHANGED <<age, wait, sent>>

(* An error of this update ends the invocation.                            *)
MarkFailed(d) ==
    LET j == run[d].job IN
    /\ run[d].pc = "retry"
    /\ \/ /\ status'   = [status EXCEPT ![j] = AfterFailure]
          /\ attempts' = [attempts EXCEPT ![j] = Tried(d)]
          /\ wait'     = [wait EXCEPT ![j] = backoff(Tried(d))]
          /\ \/ NoFault /\ Proceed(d)
             \/ Fault /\ Become(d, Idle)
       \/ /\ Fault
          /\ Become(d, Idle)
          /\ UNCHANGED <<status, attempts, wait>>
    /\ UNCHANGED <<age, sent>>

(* Killed, by its timeout or otherwise.                                    *)
Crash(d) ==
    /\ run[d] # Idle
    /\ Fault
    /\ Become(d, Idle)
    /\ UNCHANGED <<status, attempts, age, wait, sent>>

(* No invocation outlives its timeout.                                     *)
Tick ==
    /\ \A d \in Dispatchers : run[d] # Idle => run[d].elapsed < Timeout
    /\ age'  = [j \in Jobs |-> Least(age[j] + 1, OldAge)]
    /\ wait' = [j \in Jobs |-> IF wait[j] > 0 THEN wait[j] - 1 ELSE 0]
    /\ run'  = [d \in Dispatchers |-> IF run[d] = Idle THEN Idle
                                      ELSE [run[d] EXCEPT !.elapsed = @ + 1]]
    /\ UNCHANGED <<status, attempts, sent, faults>>

-----------------------------------------------------------------------------
Step(d) ==
    \/ Claim(d)
    \/ Send(d)
    \/ MarkDelivered(d)
    \/ MarkFailed(d)

Next ==
    \/ \E j \in Jobs : Insert(j)
    \/ \E d \in Dispatchers : Scan(d) \/ Step(d) \/ Crash(d)
    \/ Tick

Spec == Init /\ [][Next]_vars

(* The schedule starts an invocation every minute, and one that is not     *)
(* killed goes on.                                                         *)
Fairness ==
    /\ WF_vars(Tick)
    /\ WF_vars(\E d \in Dispatchers : Scan(d))
    /\ \A d \in Dispatchers : WF_vars(Step(d))

FairSpec == Spec /\ Fairness

-----------------------------------------------------------------------------
TypeOK ==
    /\ status \in [Jobs -> Statuses]
    /\ attempts \in [Jobs -> 0..MaxAttempts]
    /\ age \in [Jobs -> 0..OldAge]
    /\ wait \in [Jobs -> Nat]
    /\ sent \in [Jobs -> Nat]
    /\ run \in [Dispatchers -> Runs]
    /\ faults \in 0..MaxFaults

Holds(d, j) == run[d].pc \in {"send", "mark", "retry"} /\ run[d].job = j

(* Between claim and mark a row is in the hands of one live invocation, so *)
(* the updates that do not check their claim cannot overwrite each other:  *)
(* true because the timeout of the invocation is shorter than the lease,   *)
(* and only because of it.                                                 *)
OneDispatcher ==
    \A j \in Jobs, d, e \in Dispatchers : Holds(d, j) /\ Holds(e, j) => d = e

(* A claim in force is one the table knows of: what an invocation holds is *)
(* "processing" since it took its "now", unless an error hit its own mark. *)
HeldIsProcessing ==
    \A j \in Jobs, d \in Dispatchers : Holds(d, j) =>
        \/ status[j] = "processing" /\ age[j] = run[d].elapsed
        \/ status[j] = "delivered" /\ run[d].pc = "retry"

(* The queue gets a row twice only if something failed: overlapping        *)
(* invocations, stale candidates and stale claims alone never do that.     *)
DuplicatesNeedFaults ==
    \A j \in Jobs : sent[j] <= 1 + faults

(* A row is marked as delivered only when the queue has the message.       *)
DeliveredWasSent ==
    \A j \in Jobs : status[j] = "delivered" => sent[j] > 0

(* Every committed row reaches the queue, whatever is killed on the way    *)
(* and however many rows compete for the Limit of a query.                 *)
EventuallySent ==
    \A j \in Jobs : status[j] # "none" ~> sent[j] > 0
=============================================================================
