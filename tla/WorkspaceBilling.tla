--------------------------- MODULE WorkspaceBilling ---------------------------
(***************************************************************************)
(* One workspace, its Stripe subscriptions, and everyone who decides       *)
(* whether it may send: the handlers of Stripe's events, which read the    *)
(* subscription before they lock the local one; the administrator's        *)
(* review, which reads the workspace before its transaction; the           *)
(* onboarding form, which does so too; the checkout; and the suspension    *)
(* for reputation (stripe/webhook/route.ts, stripe-state.ts,               *)
(* admin/actions.ts, onboarding/actions.ts, billing/actions.ts,            *)
(* ingest-event.ts).                                                       *)
(*                                                                         *)
(* A transaction is one action: each locks the rows it decides on.  Time   *)
(* is left out: a claim may be five minutes old at any time.  At most      *)
(* MaxFaults times, Stripe or the database fails, a handler is killed, or  *)
(* one takes so long that its event is claimed again while it still runs.  *)
(***************************************************************************)
EXTENDS Integers, Sequences

CONSTANTS
    Subs,       \* Stripe subscriptions the workspace may ever have
    NoSub,      \* subscriptions.stripe_subscription_id is null
    Handlers,   \* requests of the Stripe webhook served at the same time
    SameSecond, \* may Stripe create two events in the same second?
    MaxEvents,  \* bound: events Stripe creates
    MaxFaults   \* bound: failures, crashes, and handlers that take too long

ASSUME NamesAssumption == NoSub \notin Subs
ASSUME BoundAssumption == SameSecond \in BOOLEAN /\ {MaxEvents, MaxFaults} \subseteq Nat

VARIABLES
    stripe,   \* Stripe: status of each subscription
    events,   \* Stripe: the events it created, in order
    unacked,  \* Stripe: events it still delivers
    checkout, \* Stripe: is a checkout session of the workspace open?
    row,      \* stripe_events.status of each event
    handler,  \* what each request is doing
    local,    \* subscriptions: the Stripe subscription, its status, the event
              \* it is from, and who wrote the status last
    status,   \* workspaces.status
    reason,   \* workspaces.pause_reason
    reviewer, \* has an administrator read "pending_review" to approve it?
    form,     \* has the onboarding form read a status it accepts?
    vetted,   \* did the last decision about the workspace approve it?
    faults    \* failures so far

provider  == <<stripe, events, unacked, checkout>>
workspace == <<status, reason, vetted>>
people    == <<reviewer, form>>
vars      == <<provider, row, handler, local, workspace, people, faults>>

-----------------------------------------------------------------------------
StripeStatuses == {"none", "active", "past_due", "unpaid", "canceled"}
LocalStatuses  == {"inactive", "active", "past_due", "canceled"}
Statuses == {"sandbox", "pending_review", "approved", "paused", "rejected"}
Reasons  == {"none", "billing", "reputation", "admin_limited", "admin_rejected"}
Issued   == DOMAIN events
Ids      == 1..MaxEvents

(* Dunning: a renewal fails, is retried, and is given up.                  *)
Successors ==
    [s \in StripeStatuses |->
        CASE s = "none"     -> {}
          [] s = "active"   -> {"active", "past_due", "canceled"}
          [] s = "past_due" -> {"past_due", "active", "unpaid", "canceled"}
          [] s = "unpaid"   -> {"unpaid", "active", "canceled"}
          [] s = "canceled" -> {"canceled"}]

internalStatusBug(s) == s
internalStatus(s)    == IF s \in {"active", "past_due", "canceled"} THEN s ELSE "inactive"

Idle == [pc |-> "idle"]
HandlerStates ==
    {Idle} \cup [pc : {"retrieve"}, event : Ids]
           \cup [pc : {"apply"}, event : Ids, seen : LocalStatuses]
           \cup [pc : {"fail"}, event : Ids, verdict : {"failed", "rejected"}]

Fault == faults < MaxFaults /\ faults' = faults + 1

Become(h, state) == handler' = [handler EXCEPT ![h] = state]
Failing(h, why)  == Become(h, [pc |-> "fail", event |-> handler[h].event, verdict |-> why])

(* The tests of reduceStripeSubscriptionState.                             *)
StaleEventBug(e) == FALSE
StaleEvent(e)    == events[e].at < local.at

TerminalBug(s, seen) == FALSE
Terminal(s, seen)    == local.id = s /\ local.status = "canceled" /\ seen # "canceled"

ReplacementForbidden(s) == local.id \notin {s, NoSub} /\ local.status \notin {"inactive", "canceled"}

PausesBug(seen) == seen = "canceled" /\ local.status = "active"
Pauses(seen)    == seen = "canceled"

Restored    == "none"

(* Five minutes after a claim the event may be claimed again.              *)
Claimable(e) == row[e] \in {"none", "failed", "processing"}
Serving(e)   == {h \in Handlers : handler[h] # Idle /\ handler[h].event = e}
Held(e)      == row[e] \notin {"none", "failed"}

-----------------------------------------------------------------------------
Init ==
    /\ stripe   = [s \in Subs |-> "none"]
    /\ events   = <<>>
    /\ unacked  = {}
    /\ checkout = FALSE
    /\ row      = [e \in Ids |-> "none"]
    /\ handler  = [h \in Handlers |-> Idle]
    /\ local    = [id |-> NoSub, status |-> "inactive", at |-> 0, by |-> "stripe"]
    /\ status   = "sandbox"
    /\ reason   = "none"
    /\ reviewer = FALSE
    /\ form     = FALSE
    /\ vetted   = FALSE
    /\ faults   = 0

(* Stripe creates an event about s and delivers it until it is acknowledged*)
Emit(s) ==
    LET last == IF events = <<>> THEN 0 ELSE events[Len(events)].at IN
    /\ Len(events) < MaxEvents
    /\ \E at \in {last + 1} \cup (IF SameSecond /\ last > 0 THEN {last} ELSE {}) :
         events' = Append(events, [sub |-> s, at |-> at])
    /\ unacked' = unacked \cup {Len(events) + 1}

(* A subscription changes, or something happens to it that does not change *)
(* its status (an invoice).  "canceled" is final at Stripe too.            *)
StripeChanges(s, to) ==
    /\ stripe[s] # "none"
    /\ to \in Successors[stripe[s]]
    /\ stripe' = [stripe EXCEPT ![s] = to]
    /\ Emit(s)
    /\ UNCHANGED <<checkout, row, handler, local, workspace, people, faults>>

(* The customer completes the open session, or lets it expire.             *)
CompleteCheckout(s) ==
    /\ checkout
    /\ stripe[s] = "none"
    /\ checkout' = FALSE
    /\ stripe' = [stripe EXCEPT ![s] = "active"]
    /\ Emit(s)
    /\ UNCHANGED <<row, handler, local, workspace, people, faults>>

ExpireCheckout ==
    /\ checkout
    /\ checkout' = FALSE
    /\ UNCHANGED <<stripe, events, unacked, row, handler, local, workspace, people, faults>>

(* Only an approved workspace without a running subscription may open one. *)
prepareCheckout ==
    /\ status = "approved"
    /\ local.status \notin {"active", "past_due"}
    /\ ~checkout
    /\ checkout' = TRUE
    /\ UNCHANGED <<stripe, events, unacked, row, handler, local, workspace, people, faults>>

-----------------------------------------------------------------------------
(* A delivery: the row is inserted unless it exists, and claimed; if it is *)
(* settled, or another request claimed it less than five minutes ago,      *)
(* Stripe gets a 200.                                                      *)
Receive(h, e) ==
    /\ handler[h] = Idle
    /\ e \in unacked
    /\ \/ /\ Claimable(e)
          /\ IF Serving(e) = {} THEN UNCHANGED faults ELSE Fault
          /\ row' = [row EXCEPT ![e] = "processing"]
          /\ Become(h, [pc |-> "retrieve", event |-> e])
          /\ UNCHANGED unacked
       \/ /\ Held(e)
          /\ unacked' = unacked \ {e}
          /\ UNCHANGED <<row, handler, faults>>
    /\ UNCHANGED <<stripe, events, checkout, local, workspace, people>>

(* The subscription as it is now, not as it was when the event was created.*)
Retrieve(h) ==
    /\ handler[h].pc = "retrieve"
    /\ LET e == handler[h].event IN
       \/ /\ Become(h, [pc |-> "apply", event |-> e, seen |-> internalStatus(stripe[events[e].sub])])
          /\ UNCHANGED faults
       \/ Failing(h, "failed") /\ Fault
    /\ UNCHANGED <<provider, row, local, workspace, people>>

Ignored(s, e, seen) == StaleEvent(e) \/ Terminal(s, seen)

(* What the locked transaction does to the subscription and the workspace. *)
Transition(s, e, seen) ==
    /\ local' = [id |-> s, status |-> seen, at |-> events[e].at, by |-> "stripe"]
    /\ \/ /\ Pauses(seen)
          /\ status' = "paused" /\ reason' = "billing"
       \/ /\ seen = "active" /\ reason = "billing"
          /\ status' = "approved" /\ reason' = Restored
       \/ /\ ~Pauses(seen) /\ ~(seen = "active" /\ reason = "billing")
          /\ UNCHANGED <<status, reason>>

Apply(h) ==
    /\ handler[h].pc = "apply"
    /\ LET e == handler[h].event
           s == events[e].sub
           seen == handler[h].seen
           forbidden == ~Ignored(s, e, seen) /\ ReplacementForbidden(s)
           settled == IF Ignored(s, e, seen) THEN "ignored" ELSE "processed"
       IN
       \/ /\ ~forbidden
          /\ row' = [row EXCEPT ![e] = settled]
          /\ IF Ignored(s, e, seen) THEN UNCHANGED <<local, status, reason>>
             ELSE Transition(s, e, seen)
          /\ \/ Become(h, Idle) /\ unacked' = unacked \ {e} /\ UNCHANGED faults
             \/ Failing(h, "failed") /\ Fault /\ UNCHANGED unacked
       \/ /\ \/ forbidden /\ Failing(h, "rejected") /\ UNCHANGED faults
             \/ Failing(h, "failed") /\ Fault
          /\ UNCHANGED <<row, local, status, reason, unacked>>
    /\ UNCHANGED <<stripe, events, checkout, vetted, people>>

(* The catch block: a rejection is acknowledged, a failure is not.         *)
RecordFailure(h) ==
    /\ handler[h].pc = "fail"
    /\ LET e == handler[h].event
           verdict == handler[h].verdict IN
       \/ /\ row' = [row EXCEPT ![e] = verdict]
          /\ unacked' = IF verdict = "rejected" THEN unacked \ {e} ELSE unacked
          /\ UNCHANGED faults
       \/ Fault /\ UNCHANGED <<row, unacked>>
    /\ Become(h, Idle)
    /\ UNCHANGED <<stripe, events, checkout, local, workspace, people>>

Crash(h) ==
    /\ handler[h] # Idle
    /\ Fault
    /\ Become(h, Idle)
    /\ UNCHANGED <<provider, row, local, workspace, people>>

-----------------------------------------------------------------------------
(* The onboarding form reads the status, and writes without a condition.   *)
OpenForm ==
    /\ ~form
    /\ status \in {"sandbox", "pending_review"}
    /\ form' = TRUE
    /\ UNCHANGED <<provider, row, handler, local, workspace, reviewer, faults>>

completeOnboarding ==
    /\ form
    /\ form'   = FALSE
    /\ status' = "pending_review"
    /\ vetted' = FALSE
    /\ UNCHANGED <<provider, row, handler, local, reason, reviewer, faults>>

(* The review reads the status before its transaction as well.             *)
OpenReview ==
    /\ ~reviewer
    /\ status = "pending_review"
    /\ reviewer' = TRUE
    /\ UNCHANGED <<provider, row, handler, local, workspace, form, faults>>

approveWorkspace ==
    /\ reviewer
    /\ reviewer' = FALSE
    /\ status' = "approved"
    /\ reason' = "none"
    /\ vetted' = TRUE
    /\ local'  = [local EXCEPT !.status = "inactive", !.by = "admin"]
    /\ UNCHANGED <<provider, row, handler, form, faults>>

suspendWorkspace ==
    /\ \/ status' = "rejected" /\ reason' = "admin_rejected"
       \/ status' = "paused" /\ reason' = "admin_limited"
    /\ vetted' = FALSE
    /\ UNCHANGED <<provider, row, handler, local, people, faults>>

(* A complaint or a bounce that crosses the threshold.                     *)
pauseForReputation ==
    /\ status = "approved"
    /\ status' = "paused"
    /\ reason' = "reputation"
    /\ vetted' = FALSE
    /\ UNCHANGED <<provider, row, handler, local, people, faults>>

-----------------------------------------------------------------------------
Next ==
    \/ \E s \in Subs :
         \/ \E to \in StripeStatuses : StripeChanges(s, to)
         \/ CompleteCheckout(s)
    \/ ExpireCheckout
    \/ prepareCheckout
    \/ \E h \in Handlers :
         \/ \E e \in Issued : Receive(h, e)
         \/ Retrieve(h)
         \/ Apply(h)
         \/ RecordFailure(h)
         \/ Crash(h)
    \/ OpenForm
    \/ completeOnboarding
    \/ OpenReview
    \/ approveWorkspace
    \/ suspendWorkspace
    \/ pauseForReputation

Spec == Init /\ [][Next]_vars

-----------------------------------------------------------------------------
TypeOK ==
    /\ stripe \in [Subs -> StripeStatuses]
    /\ events \in Seq([sub : Subs, at : Ids])
    /\ unacked \subseteq Ids
    /\ checkout \in BOOLEAN
    /\ row \in [Ids -> {"none", "processing", "failed", "processed", "ignored", "rejected"}]
    /\ handler \in [Handlers -> HandlerStates]
    /\ local \in [id : Subs \cup {NoSub}, status : LocalStatuses, at : 0..MaxEvents,
                  by : {"stripe", "admin"}]
    /\ status \in Statuses
    /\ reason \in Reasons
    /\ reviewer \in BOOLEAN /\ form \in BOOLEAN /\ vetted \in BOOLEAN
    /\ faults \in 0..MaxFaults

EventsOf(s) == {e \in Issued : events[e].sub = s}

(* Out of order, repeated, slow or interrupted, the handlers converge: when*)
(* every event of the local subscription has been processed or ignored, the*)
(* local status is the one at Stripe, unless an approval reset it since.   *)
Reconciled ==
    LET s == local.id IN
    (/\ s # NoSub
     /\ \A e \in EventsOf(s) : row[e] \in {"processed", "ignored"}
     /\ \A h \in Handlers : handler[h] = Idle)
        => \/ local.status = internalStatus(stripe[s])
           \/ local.by = "admin"

(* A workspace whose subscription is canceled does not send, whoever else  *)
(* decides about it and however late they read what they decide on.        *)
CanceledIsPaused == local.status = "canceled" => status # "approved"

(* An approved workspace keeps no reason of an earlier pause: billing      *)
(* restores by the reason alone, and would lift a later pause for another. *)
ApprovedHasNoReason == status = "approved" => reason = "none"

(* Whoever decides about a workspace, however late they read what they     *)
(* decide on: a canceled subscription leaves it paused, and an approved    *)
(* one keeps no reason that billing would take for its own (route.ts:172). *)
WorkspaceFollows == CanceledIsPaused /\ ApprovedHasNoReason

(* While the local subscription is canceled, only another subscription or  *)
(* an administrator approves the workspace: no late event of the canceled  *)
(* one does, whatever its handler had read before the cancellation.        *)
RestoredByAnother ==
    [][(local.status = "canceled" /\ status # "approved" /\ status' = "approved")
         => (local'.id # local.id \/ local'.by = "admin")]_vars

(* "only a separate administrator decision can approve it" (architecture.md)*)
ApprovedWasVetted == status = "approved" => vetted
=============================================================================
