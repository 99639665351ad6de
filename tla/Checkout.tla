------------------------------ MODULE Checkout ------------------------------
(***************************************************************************)
(* The Stripe checkout of one workspace (billing/actions.ts): several      *)
(* clicks at once, each of which reads the subscription and the pending    *)
(* attempt, asks Stripe about its session, reserves an attempt when there  *)
(* is none, and opens a session under the attempt's idempotency key.       *)
(* Meanwhile the customer pays or lets the session expire, and Stripe's    *)
(* events arrive when they please (stripe/webhook/route.ts).               *)
(*                                                                         *)
(* Attempts and sessions are numbered in the order of their creation.      *)
(***************************************************************************)
EXTENDS Integers, Sequences, FiniteSets

CONSTANTS
    Clicks,      \* calls of the action
    Lifetime,    \* an attempt's hour, in ticks
    MinAhead,    \* Stripe refuses an expiry closer than half an hour
    MaxAttempts, \* bound: attempts
    MaxTick,     \* bound: the clock
    MaxFaults    \* bound: calls that are killed

CheckoutAssumption == {Lifetime, MinAhead, MaxAttempts, MaxTick, MaxFaults} \subseteq Nat /\ MinAhead <= Lifetime

VARIABLES
    attempts, \* stripe_checkout_attempts
    sessions, \* Stripe: the checkout sessions, with the key each was created with
    events,   \* Stripe: sessions whose event has not been processed
    local,    \* subscriptions.status is one of active, trialing, past_due
    click,    \* what each call holds
    now,      \* the clock
    faults

vars == <<attempts, sessions, events, local, click, now, faults>>

-----------------------------------------------------------------------------
None     == 0
Idle     == [pc |-> "idle", attempt |-> None, session |-> None]
Outcomes == {"idle", "refused", "resumed", "opened", "success", "unavailable"}

Open(s)  == sessions[s].status = "open"
KeyBug(a) == Len(sessions) + Len(attempts) + 1
Key(a)    == a    \* the attempt's own: mail-beta-checkout:<id>

Pending == {a \in DOMAIN attempts : attempts[a].status = "pending"}

(* The unique index on the pending attempt of a workspace.                 *)
Reservable == Pending = {}

(* An update of what was read is of a pending attempt only.                *)
StillPending(a) == attempts[a].status = "pending"

ClosedAs(s)    == IF sessions[s].status = "complete" THEN "completed" ELSE "expired"

At(c, pc)      == click[c].pc = pc
Step(c, to, a, s) == click' = [click EXCEPT ![c] = [pc |-> to, attempt |-> a, session |-> s]]
End(c, outcome)   == Step(c, outcome, None, None)

-----------------------------------------------------------------------------
Init ==
    /\ attempts = <<>> /\ sessions = <<>> /\ events = {}
    /\ local = FALSE
    /\ click = [c \in Clicks |-> Idle]
    /\ now = 0 /\ faults = 0

Tick == now < MaxTick /\ now' = now + 1 /\ UNCHANGED <<attempts, sessions, events, local, click, faults>>

(* Gates, catalog and tax may refuse; so does a subscription that runs.    *)
Check(c) ==
    /\ At(c, "idle")
    /\ \/ End(c, "refused")
       \/ ~local /\ Step(c, "checked", None, None)
    /\ UNCHANGED <<attempts, sessions, events, local, now, faults>>

(* The pending attempt, and where it leads.                                *)
ReadAttempt(c) ==
    /\ At(c, "checked")
    /\ \/ Pending = {} /\ Step(c, "reserve", None, None)
       \/ \E a \in Pending : \/ attempts[a].session # None /\ Step(c, "retrieve", a, attempts[a].session)
                             \/ attempts[a].session = None /\ Step(c, "create", a, None)
    /\ UNCHANGED <<attempts, sessions, events, local, now, faults>>

(* Stripe answers for the attempt's session.                               *)
Retrieve(c) ==
    /\ At(c, "retrieve")
    /\ LET s == click[c].session IN
       IF Open(s) THEN End(c, "resumed") ELSE Step(c, ClosedAs(s), click[c].attempt, s)
    /\ UNCHANGED <<attempts, sessions, events, local, now, faults>>

CloseAttempt(c) ==
    /\ click[c].pc \in {"completed", "expired"}
    /\ LET a == click[c].attempt IN
       attempts' = IF StillPending(a) THEN [attempts EXCEPT ![a].status = click[c].pc] ELSE attempts
    /\ IF At(c, "completed") THEN End(c, "success") ELSE Step(c, "reserve", None, None)
    /\ UNCHANGED <<sessions, events, local, now, faults>>

(* Insert, or leave it to the attempt another call has inserted.           *)
Reserve(c) ==
    /\ At(c, "reserve") /\ Len(attempts) < MaxAttempts
    /\ attempts' = IF Reservable THEN Append(attempts, [status |-> "pending", session |-> None, expires |-> now + Lifetime])
                   ELSE attempts
    /\ Step(c, "select", None, None)
    /\ UNCHANGED <<sessions, events, local, now, faults>>

(* The latest pending attempt; it may have been closed meanwhile.          *)
Select(c) ==
    /\ At(c, "select")
    /\ \/ Pending = {} /\ End(c, "unavailable")
       \/ \E a \in Pending : (\A b \in Pending : b <= a) /\ Step(c, "create", a, None)
    /\ UNCHANGED <<attempts, sessions, events, local, now, faults>>

(* The same key gets the same session again, whatever became of it.        *)
Create(c) ==
    /\ At(c, "create")
    /\ LET a == click[c].attempt
           known == {s \in DOMAIN sessions : sessions[s].key = Key(a)} IN
       \/ \E s \in known : Step(c, "store", a, s) /\ UNCHANGED sessions
       \/ /\ known = {} /\ attempts[a].expires - now >= MinAhead
          /\ sessions' = Append(sessions, [key |-> Key(a), status |-> "open", expires |-> attempts[a].expires])
          /\ Step(c, "store", a, Len(sessions) + 1)
       \/ /\ known = {} /\ attempts[a].expires - now < MinAhead
          /\ End(c, "unavailable") /\ UNCHANGED sessions
    /\ UNCHANGED <<attempts, events, local, now, faults>>

Store(c) ==
    /\ At(c, "store")
    /\ LET a == click[c].attempt IN
       attempts' = IF attempts[a].session = None THEN [attempts EXCEPT ![a].session = click[c].session] ELSE attempts
    /\ End(c, "opened")
    /\ UNCHANGED <<sessions, events, local, now, faults>>

Killed(c) ==
    /\ click[c].pc \notin Outcomes
    /\ faults < MaxFaults /\ faults' = faults + 1
    /\ End(c, "unavailable")
    /\ UNCHANGED <<attempts, sessions, events, local, now>>

(* The customer returns to the page and clicks again.                      *)
Again(c) ==
    /\ click[c].pc \in Outcomes \ {"idle"}
    /\ click' = [click EXCEPT ![c] = Idle]
    /\ UNCHANGED <<attempts, sessions, events, local, now, faults>>

(* Stripe: a session is paid, or its time is over.                         *)
CloseSession(s) ==
    /\ Open(s)
    /\ \/ now < sessions[s].expires /\ sessions' = [sessions EXCEPT ![s].status = "complete"]
       \/ now >= sessions[s].expires /\ sessions' = [sessions EXCEPT ![s].status = "expired"]
    /\ events' = events \cup {s}
    /\ UNCHANGED <<attempts, local, click, now, faults>>

(* checkout.session.completed activates the subscription and closes the    *)
(* attempt, checkout.session.expired closes a pending attempt.             *)
ingestStripeWebhook(s) ==
    /\ s \in events
    /\ events' = events \ {s}
    /\ local' = (local \/ sessions[s].status = "complete")
    /\ attempts' = [a \in DOMAIN attempts |->
         IF attempts[a].session = s /\ (sessions[s].status = "complete" \/ StillPending(a))
         THEN [attempts[a] EXCEPT !.status = ClosedAs(s)] ELSE attempts[a]]
    /\ UNCHANGED <<sessions, click, now, faults>>

Next ==
    \/ Tick
    \/ \E c \in Clicks : \/ Check(c) \/ ReadAttempt(c) \/ Retrieve(c) \/ CloseAttempt(c) \/ Reserve(c)
                         \/ Select(c) \/ Create(c) \/ Store(c) \/ Killed(c) \/ Again(c)
    \/ \E s \in DOMAIN sessions : CloseSession(s) \/ ingestStripeWebhook(s)

Spec == Init /\ [][Next]_vars

-----------------------------------------------------------------------------
Attempt == [status : {"pending", "completed", "expired"}, session : Nat, expires : Nat]
Session == [key : Nat, status : {"open", "complete", "expired"}, expires : Nat]
Pcs     == Outcomes \cup {"checked", "retrieve", "completed", "expired", "reserve", "select", "create", "store"}

TypeOK ==
    /\ attempts \in Seq(Attempt) /\ sessions \in Seq(Session)
    /\ events \subseteq DOMAIN sessions
    /\ local \in BOOLEAN
    /\ click \in [Clicks -> [pc : Pcs, attempt : 0..Len(attempts), session : 0..Len(sessions)]]
    /\ now \in 0..MaxTick /\ faults \in 0..MaxFaults

(* However many clicks overlap, get killed or hold an attempt that was     *)
(* closed since, at most one session of the workspace can be paid at any   *)
(* time, and what an attempt says of its session is true.                  *)
OneOpenSession ==
    /\ Cardinality({s \in DOMAIN sessions : Open(s)}) <= 1
    /\ \A a \in DOMAIN attempts : attempts[a].status # "pending" =>
         /\ attempts[a].session # None /\ ~Open(attempts[a].session)
         /\ attempts[a].status = "completed" <=> sessions[attempts[a].session].status = "complete"
=============================================================================
