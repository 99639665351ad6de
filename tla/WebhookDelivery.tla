--------------------------- MODULE WebhookDelivery ---------------------------
(***************************************************************************)
(* The delivery of public email events to a customer's webhook endpoint:   *)
(* the rows that an event transaction adds, the queue, the delivery worker *)
(* with its claim, its retries and its terminal state, and the             *)
(* administrator who disables, enables or deletes the endpoint             *)
(* (public-email-event.ts, deliver-webhook.ts, actions.ts).                *)
(*                                                                         *)
(* The outbox and the queue are one at-least-once queue here; Outbox.tla   *)
(* is about how a row reaches it.  Time is relative: a delivery keeps the  *)
(* ticks until its next attempt and since its claim, a worker those since  *)
(* it took its "now".                                                      *)
(***************************************************************************)
EXTENDS Integers, Sequences, FiniteSets, SequencesExt

CONSTANTS
    Deliveries,   \* one event each, for the same endpoint
    Workers,      \* records being processed at the same time
    Nobody, Dead, \* claims that no live worker made: none, or one of a dead one
    MaxAttempts,  \* MAX_WEBHOOK_ATTEMPTS
    RetryDelay,   \* RetryDelay[n]: ticks to wait after attempt n
    Lease,        \* ticks after which a claim is stale (two minutes)
    Timeout,      \* a worker is killed before it has run this long (one minute)
    Visibility,   \* ticks until the queue shows a failed message again
    Skew,         \* how far the time of an event may be ahead of the workers
    Toggling,     \* does an administrator disable and enable the endpoint?
    MaxFaults     \* bound: crashes, database errors, duplicated messages

WebhookAssumption ==
    /\ Nobody \notin Workers /\ Dead \notin Workers /\ Nobody # Dead
    /\ MaxAttempts \in Nat \ {0} /\ RetryDelay \in [1..(MaxAttempts - 1) -> Nat]
    /\ Timeout \in Nat \ {0} /\ {Lease, Visibility, Skew, MaxFaults} \subseteq Nat
    /\ Toggling \in BOOLEAN /\ IsFiniteSet(Workers)
    \* A claim outlives the worker that made it, and so does the first delay.
    /\ Timeout <= Lease + 1 /\ \A n \in 1..(MaxAttempts - 1) : RetryDelay[n] >= Timeout

VARIABLES
    endpoint,   \* "enabled", "disabled" or "deleted"
    state,      \* webhook_deliveries: delivered_at and terminal_at
    attempt,    \* webhook_deliveries.attempt
    due,        \* ticks until next_attempt_at (negative: since)
    claim,      \* who set claimed_at
    claimAge,   \* ticks since claimed_at
    queue,      \* ticks until each message for the delivery is visible
    run,        \* what each worker is doing
    calls,      \* customer: requests that may have arrived
    faults      \* faults so far

delivery == <<state, attempt, due, claim, claimAge>>
vars     == <<endpoint, delivery, queue, run, calls, faults>>

-----------------------------------------------------------------------------
States  == {"none", "reading", "aborted", "pending", "delivered", "terminal", "deleted"}
OldAge  == Lease + Timeout + 1
Elapsed == 0..(Timeout - 1)
Delays  == {RetryDelay[n] : n \in 1..(MaxAttempts - 1)}
MaxDue  == CHOOSE n \in Delays \cup {Skew} : \A k \in Delays \cup {Skew} : k <= n

Pcs  == {"claim", "post", "accepted", "refused", "failed"}
Idle == [pc |-> "idle"]
Runs == {Idle} \cup [pc : Pcs, job : Deliveries, try : 1..MaxAttempts, elapsed : Elapsed]

Fault   == faults < MaxFaults /\ faults' = faults + 1
NoFault == UNCHANGED faults
Become(w, s) == run' = [run EXCEPT ![w] = s]
Goto(w, pc)  == Become(w, [run[w] EXCEPT !.pc = pc])
Publish(d, delay) == queue' = [queue EXCEPT ![d] = Append(@, delay)]

(* Compared with the worker's "now", which is elapsed ticks old.           *)
DueAt(d, elapsed)    == due[d] <= -elapsed

StaleBug(d, elapsed) == claimAge[d] - elapsed > 0
Stale(d, elapsed)    == claimAge[d] - elapsed > Lease

NeverStaleBug(d, elapsed) ==
    state[d] = "pending" /\ DueAt(d, elapsed) /\ claim[d] = Nobody
Claimable(d, elapsed) ==
    /\ state[d] = "pending"
    /\ DueAt(d, elapsed)
    /\ claim[d] = Nobody \/ Stale(d, elapsed)

(* The claim's timestamp identifies the worker that made it.               *)
StillMine(w, d)    == state[d] = "pending" /\ claim[d] = w

Terminal(try) == try >= MaxAttempts

(* The reasons to return at once: settled, disabled, or too early.         *)
ToDeliver(d)    == state[d] = "pending" /\ endpoint = "enabled" /\ DueAt(d, 0)

(* The time of the next attempt, and the outbox row that announces it.     *)
NextDue(w) == RetryDelay[run[w].try] - run[w].elapsed
RetryRow(w, d) ==
    IF StillMine(w, d) /\ ~Terminal(run[w].try)
    THEN <<IF NextDue(w) > 0 THEN NextDue(w) ELSE 0>> ELSE <<>>

-----------------------------------------------------------------------------
Init ==
    /\ endpoint = "enabled"
    /\ state    = [d \in Deliveries |-> "none"]
    /\ attempt  = [d \in Deliveries |-> 0]
    /\ due      = [d \in Deliveries |-> 0]
    /\ claim    = [d \in Deliveries |-> Nobody]
    /\ claimAge = [d \in Deliveries |-> 0]
    /\ queue    = [d \in Deliveries |-> <<>>]
    /\ run      = [w \in Workers |-> Idle]
    /\ calls    = [d \in Deliveries |-> 0]
    /\ faults   = 0

(* The transaction of an event reads the enabled endpoints, without a lock.*)
ReadEndpoints(d) ==
    /\ state[d] = "none"
    /\ endpoint = "enabled"
    /\ state' = [state EXCEPT ![d] = "reading"]
    /\ UNCHANGED <<endpoint, attempt, due, claim, claimAge, queue, run, calls, faults>>

(* ... then inserts the delivery and its outbox row; the foreign key makes *)
(* the whole transaction fail if the endpoint was deleted meanwhile.       *)
queuePublicEmailEvent(d) ==
    /\ state[d] = "reading"
    /\ IF endpoint = "deleted"
       THEN /\ state' = [state EXCEPT ![d] = "aborted"]
            /\ UNCHANGED <<due, queue>>
       ELSE /\ state' = [state EXCEPT ![d] = "pending"]
            /\ \E ahead \in {0, Skew} : due' = [due EXCEPT ![d] = ahead]
            /\ Publish(d, 0)
    /\ UNCHANGED <<endpoint, attempt, claim, claimAge, run, calls, faults>>

(* Disabling abandons what is pending, in the same transaction.            *)
Abandoned(d)    == state[d] = "pending"
toggleWebhook ==
    /\ Toggling
    /\ IF endpoint = "enabled"
       THEN /\ endpoint' = "disabled"
            /\ state' = [d \in Deliveries |-> IF Abandoned(d) THEN "terminal" ELSE state[d]]
            /\ claim' = [d \in Deliveries |-> IF Abandoned(d) THEN Nobody ELSE claim[d]]
       ELSE /\ endpoint = "disabled"
            /\ endpoint' = "enabled"
            /\ UNCHANGED <<state, claim>>
    /\ UNCHANGED <<attempt, due, claimAge, queue, run, calls, faults>>

deleteWebhook ==
    /\ endpoint # "deleted"
    /\ endpoint' = "deleted"
    /\ state' = [d \in Deliveries |->
                    IF state[d] \in {"pending", "delivered", "terminal"} THEN "deleted" ELSE state[d]]
    /\ claim' = [d \in Deliveries |-> Nobody]
    /\ UNCHANGED <<attempt, due, claimAge, queue, run, calls, faults>>

-----------------------------------------------------------------------------
(* A message is received: the row is read, and the worker returns at once  *)
(* if there is nothing to do now, which removes the message.               *)
Receive(w, d) ==
    /\ run[w] = Idle
    /\ \E i \in DOMAIN queue[d] :
         /\ queue[d][i] = 0
         /\ queue' = [queue EXCEPT ![d] = RemoveAt(@, i)]
    /\ IF ToDeliver(d)
       THEN Become(w, [pc |-> "claim", job |-> d, try |-> attempt[d] + 1, elapsed |-> 0])
       ELSE UNCHANGED run
    /\ UNCHANGED <<endpoint, delivery, calls, faults>>

Claim(w) ==
    /\ run[w].pc = "claim"
    /\ LET d == run[w].job IN
       IF Claimable(d, run[w].elapsed)
       THEN /\ claim'    = [claim EXCEPT ![d] = w]
            /\ claimAge' = [claimAge EXCEPT ![d] = run[w].elapsed]
            /\ Goto(w, "post")
            /\ UNCHANGED queue
       ELSE /\ Publish(d, Visibility)
            /\ Become(w, Idle)
            /\ UNCHANGED <<claim, claimAge>>
    /\ UNCHANGED <<endpoint, state, attempt, due, calls, faults>>

(* The URL may be refused before the call; the answer may be an error, or  *)
(* never come although the request arrived.                                *)
Post(w) ==
    /\ run[w].pc = "post"
    /\ LET d == run[w].job IN
       \/ calls' = [calls EXCEPT ![d] = @ + 1] /\ Goto(w, "accepted")
       \/ calls' = [calls EXCEPT ![d] = @ + 1] /\ Goto(w, "refused")
       \/ \E n \in {0, 1} : calls' = [calls EXCEPT ![d] = @ + n] /\ Goto(w, "failed")
    /\ UNCHANGED <<endpoint, delivery, queue, faults>>

RecordDelivered(w) ==
    /\ run[w].pc = "accepted"
    /\ LET d == run[w].job IN
       \/ /\ IF StillMine(w, d)
             THEN /\ state'   = [state EXCEPT ![d] = "delivered"]
                  /\ attempt' = [attempt EXCEPT ![d] = run[w].try]
                  /\ claim'   = [claim EXCEPT ![d] = Nobody]
             ELSE UNCHANGED <<state, attempt, claim>>
          /\ \/ NoFault /\ Become(w, Idle)
             \/ Fault /\ Goto(w, "failed")
       \/ /\ Fault
          /\ Goto(w, "failed")
          /\ UNCHANGED <<state, attempt, claim>>
    /\ UNCHANGED <<endpoint, due, claimAge, queue, calls>>

(* One transaction: the result of the attempt and, unless it was the last, *)
(* the outbox row of the next.  For an HTTP error ("refused") an error of  *)
(* this transaction is caught and it is tried again; otherwise it makes    *)
(* the message visible again.                                              *)
recordExpectedFailure(w) ==
    /\ run[w].pc \in {"refused", "failed"}
    /\ LET d == run[w].job
           n == run[w].try
           recorded ==
               IF ~StillMine(w, d) THEN UNCHANGED <<state, due, attempt, claim>>
               ELSE /\ attempt' = [attempt EXCEPT ![d] = n]
                    /\ claim'   = [claim EXCEPT ![d] = Nobody]
                    /\ IF Terminal(n)
                       THEN /\ state' = [state EXCEPT ![d] = "terminal"]
                            /\ UNCHANGED due
                       ELSE /\ due' = [due EXCEPT ![d] = NextDue(w)]
                            /\ UNCHANGED state
           \* Only "failed" is outside the try block: its error is seen by the queue.
           shown == IF run[w].pc = "failed" THEN <<Visibility>> ELSE <<>>
       IN
       \/ /\ NoFault
          /\ recorded
          /\ queue' = [queue EXCEPT ![d] = @ \o RetryRow(w, d)]
          /\ Become(w, Idle)
       \/ /\ Fault
          /\ \/ recorded /\ queue' = [queue EXCEPT ![d] = @ \o RetryRow(w, d) \o shown]
             \/ /\ UNCHANGED <<state, due, attempt, claim>>
                /\ queue' = [queue EXCEPT ![d] = @ \o shown]
          /\ IF run[w].pc = "failed" THEN Become(w, Idle) ELSE Goto(w, "failed")
    /\ UNCHANGED <<endpoint, claimAge, calls>>

(* Killed: the claim stays, and the message comes back.                    *)
Crash(w) ==
    /\ run[w] # Idle
    /\ Fault
    /\ claim' = [d \in Deliveries |-> IF claim[d] = w THEN Dead ELSE claim[d]]
    /\ Publish(run[w].job, Visibility)
    /\ Become(w, Idle)
    /\ UNCHANGED <<endpoint, state, attempt, due, claimAge, calls>>

(* The outbox, or the queue, repeats a message.                            *)
Duplicate(d) ==
    /\ state[d] = "pending"
    /\ Fault
    /\ \E i \in DOMAIN queue[d] : Publish(d, queue[d][i])
    /\ UNCHANGED <<endpoint, delivery, run, calls>>

Tick ==
    /\ \A w \in Workers : run[w] # Idle => run[w].elapsed + 1 < Timeout
    /\ due'      = [d \in Deliveries |-> IF due[d] > -Timeout THEN due[d] - 1 ELSE due[d]]
    /\ claimAge' = [d \in Deliveries |-> IF claim[d] = Nobody THEN 0
                                         ELSE IF claimAge[d] < OldAge THEN claimAge[d] + 1
                                         ELSE OldAge]
    /\ queue'    = [d \in Deliveries |->
                       [i \in DOMAIN queue[d] |-> IF queue[d][i] > 0 THEN queue[d][i] - 1 ELSE 0]]
    /\ run'      = [w \in Workers |-> IF run[w] = Idle THEN Idle
                                      ELSE [run[w] EXCEPT !.elapsed = @ + 1]]
    /\ UNCHANGED <<endpoint, state, attempt, claim, calls, faults>>

-----------------------------------------------------------------------------
Step(w) ==
    \/ Claim(w)
    \/ Post(w)
    \/ RecordDelivered(w)
    \/ recordExpectedFailure(w)

Next ==
    \/ \E d \in Deliveries : ReadEndpoints(d) \/ queuePublicEmailEvent(d) \/ Duplicate(d)
    \/ toggleWebhook
    \/ deleteWebhook
    \/ \E w \in Workers :
         \/ \E d \in Deliveries : Receive(w, d)
         \/ Step(w)
         \/ Crash(w)
    \/ Tick

Spec == Init /\ [][Next]_vars

(* Visible messages are received, and a worker that is not killed goes on. *)
Fairness ==
    /\ WF_vars(Tick)
    /\ \A d \in Deliveries : SF_vars(\E w \in Workers : Receive(w, d))
    /\ \A w \in Workers : WF_vars(Step(w))

FairSpec == Spec /\ Fairness

-----------------------------------------------------------------------------
TypeOK ==
    /\ endpoint \in {"enabled", "disabled", "deleted"}
    /\ state \in [Deliveries -> States]
    /\ attempt \in [Deliveries -> 0..MaxAttempts]
    /\ due \in [Deliveries -> (-Timeout)..MaxDue]
    /\ claim \in [Deliveries -> Workers \cup {Nobody, Dead}]
    /\ claimAge \in [Deliveries -> 0..OldAge]
    /\ queue \in [Deliveries -> Seq(Nat)]
    /\ run \in [Workers -> Runs]
    /\ calls \in [Deliveries -> Nat]
    /\ faults \in 0..MaxFaults

Working(w, d) == run[w] # Idle /\ run[w].job = d
Past(w, d)    == Working(w, d) /\ run[w].pc # "claim"

(* Two live workers never talk to the customer about the same event at the *)
(* same time: a claim outlives the worker that made it.                    *)
OneSender ==
    \A d \in Deliveries, v, w \in Workers : Past(v, d) /\ Past(w, d) => v = w

(* The attempt a worker counts is the next one when it makes it: what it   *)
(* read before its claim is not stale when the claim succeeds.             *)
AttemptIsCurrent ==
    \A w \in Workers : \A d \in Deliveries :
        run[w] # Idle /\ run[w].pc # "claim" /\ StillMine(w, d) /\ Working(w, d)
            => run[w].try = attempt[d] + 1

(* The customer gets an event at most MaxAttempts times, plus once for     *)
(* each fault: every other request is counted in the row.                  *)
CallsAreBounded ==
    \A d \in Deliveries :
        /\ calls[d] <= MaxAttempts + faults
        /\ state[d] = "pending" =>
             calls[d] <= attempt[d] + faults + Cardinality({w \in Workers : Past(w, d)})

(* A delivery that is not settled is pursued: it has a message in the      *)
(* queue, or a worker that will settle it or leave one.                    *)
PendingIsPursued ==
    \A d \in Deliveries :
        state[d] = "pending" /\ endpoint = "enabled" =>
            queue[d] # <<>> \/ \E w \in Workers : Working(w, d)

(* "Endpoint disabled. Pending deliveries are abandoned." (actions.ts)     *)
DisabledIsAbandoned ==
    endpoint = "disabled" => \A d \in Deliveries : state[d] # "pending"

(* Settled for good: an accepted or abandoned delivery never changes again *)
(* (except that it may be deleted), and no attempt is uncounted.           *)
SettledIsFinal ==
    \A d \in Deliveries :
        /\ state[d] \in {"delivered", "terminal"} =>
             state'[d] \in {state[d], "deleted"} /\ attempt'[d] = attempt[d]
        /\ attempt'[d] \in {attempt[d], attempt[d] + 1}

(* A delivery is not tried again before its time.                          *)
NotBeforeDue ==
    \A d \in Deliveries : claim'[d] # claim[d] /\ claim'[d] \in Workers => due[d] <= 0

(* Every delivery is accepted, or exhausts its attempts, or goes with its  *)
(* endpoint.                                                               *)
Pending(d) == state[d] = "pending"
EventuallySettled == \A d \in Deliveries : Pending(d) ~> ~Pending(d)
=============================================================================
