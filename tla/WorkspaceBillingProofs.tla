------------------------ MODULE WorkspaceBillingProofs ------------------------
(***************************************************************************)
(* Theorems about WorkspaceBilling for every set of subscriptions and      *)
(* handlers and every number of events: the types; what a workspace owes   *)
(* to its subscription; and, when Stripe never creates two events in the   *)
(* same second, that the handlers converge to what Stripe knows.           *)
(***************************************************************************)
EXTENDS WorkspaceBilling, TLAPS

(* Events are numbered from one, none is dated after its number, and only  *)
(* events that exist are delivered or handled.                             *)
EventsExist ==
    /\ Len(events) <= MaxEvents
    /\ \A e \in Issued : events[e].at <= e
    /\ unacked \subseteq Issued
    /\ \A h \in Handlers : handler[h] # Idle => handler[h].event \in Issued

LEMMA HandlerShape ==
    ASSUME NEW s \in HandlerStates
    PROVE  /\ s.pc \in {"idle", "retrieve", "apply", "fail"}
           /\ s.pc = "idle" <=> s = Idle
           /\ s.pc # "idle" => s.event \in Ids
           /\ s.pc = "apply" => s.seen \in LocalStatuses
           /\ s.pc = "fail" => s.verdict \in {"failed", "rejected"}
BY DEF HandlerStates, Idle

LEMMA StatesAre ==
    ASSUME NEW e \in Ids, NEW seen \in LocalStatuses, NEW why \in {"failed", "rejected"}
    PROVE  /\ [pc |-> "retrieve", event |-> e] \in HandlerStates
           /\ [pc |-> "apply", event |-> e, seen |-> seen] \in HandlerStates
           /\ [pc |-> "fail", event |-> e, verdict |-> why] \in HandlerStates
           /\ Idle \in HandlerStates
BY DEF HandlerStates

\* A handler moves to a state of the right kind, about an event that exists.
LEMMA BecomeFacts ==
    ASSUME handler \in [Handlers -> HandlerStates], NEW h \in Handlers,
           NEW s \in HandlerStates, Become(h, s)
    PROVE  /\ handler' \in [Handlers -> HandlerStates]
           /\ handler'[h] = s
           /\ \A g \in Handlers \ {h} : handler'[g] = handler[g]
BY DEF Become

LEMMA IssuedFacts ==
    ASSUME TypeOK, EventsExist
    PROVE  /\ Issued = 1..Len(events) /\ Len(events) \in Nat /\ Issued \subseteq Ids
           /\ \A e \in Issued : events[e].sub \in Subs /\ events[e].at \in Ids
<1>1. MaxEvents \in Nat
    BY BoundAssumption
<1> DEFINE R == [sub : Subs, at : Ids]
<1>2. events \in Seq(R)
    BY DEF TypeOK
<1>3. \A x \in R : x.sub \in Subs /\ x.at \in Ids
    OBVIOUS
<1> HIDE DEF R
<1>4. /\ Issued = 1..Len(events) /\ Len(events) \in Nat
      /\ \A e \in 1..Len(events) : events[e] \in R
    BY <1>2 DEF Issued
<1> QED
    BY <1>1, <1>3, <1>4 DEF EventsExist, Ids

\* A new event is the last one, and is dated after all others unless Stripe
\* creates two in the same second.
LEMMA EmitFacts ==
    ASSUME TypeOK, EventsExist, NEW s \in Subs, Emit(s)
    PROVE  LET new == Len(events) + 1 IN
           /\ new \in Ids /\ new \notin Issued
           /\ Issued' = Issued \cup {new} /\ Len(events') = new
           /\ \A e \in Issued : events'[e] = events[e]
           /\ events'[new].sub = s /\ events'[new].at \in 1..new
           /\ events' \in Seq([sub : Subs, at : Ids])
           /\ unacked' = unacked \cup {new}
           /\ ~SameSecond /\ events # <<>> => events'[new].at > events[Len(events)].at
<1> DEFINE new  == Len(events) + 1
           last == IF events = <<>> THEN 0 ELSE events[Len(events)].at
<1>1. Len(events) \in Nat /\ Len(events) < MaxEvents /\ MaxEvents \in Nat
    BY BoundAssumption DEF Emit, TypeOK
<1>2. /\ last \in 0..Len(events)
      /\ events # <<>> => last = events[Len(events)].at
    <2>1. CASE events = <<>>
        BY <1>1, <2>1
    <2>2. CASE events # <<>>
        <3>1. Len(events) \in Issued
            BY <1>1, <2>2 DEF TypeOK, Issued
        <3> QED
            BY <1>1, <2>2, <3>1, IssuedFacts DEF EventsExist, Ids
    <2> QED
        BY <2>1, <2>2
<1>3. PICK at \in {last + 1} \cup (IF SameSecond /\ last > 0 THEN {last} ELSE {}) :
        events' = Append(events, [sub |-> s, at |-> at])
    BY DEF Emit
<1>4. at \in 1..new /\ (~SameSecond => at > last)
    <2> HIDE DEF last
    <2> QED
        BY <1>1, <1>2, <1>3
<1>5. at \in Ids /\ new \in Ids
    BY <1>1, <1>4 DEF Ids
<1>6. events \in Seq([sub : Subs, at : Ids]) /\ [sub |-> s, at |-> at] \in [sub : Subs, at : Ids]
    BY <1>5 DEF TypeOK
<1>7. /\ events' \in Seq([sub : Subs, at : Ids]) /\ Len(events') = new
      /\ DOMAIN events' = 1..new /\ DOMAIN events = 1..Len(events)
      /\ \A e \in 1..Len(events) : events'[e] = events[e]
      /\ events'[new] = [sub |-> s, at |-> at]
    <2> DEFINE R == [sub : Subs, at : Ids]
               x == [sub |-> s, at |-> at]
    <2>1. events \in Seq(R) /\ x \in R /\ events' = Append(events, x)
        BY <1>3, <1>6
    <2> HIDE DEF R, x
    <2>2. /\ events' \in Seq(R) /\ Len(events') = new
          /\ DOMAIN events' = 1..new /\ DOMAIN events = 1..Len(events)
          /\ \A e \in 1..Len(events) : events'[e] = events[e]
          /\ events'[new] = x
        BY <2>1
    <2> QED
        BY <2>2 DEF R, x
<1>8. unacked' = unacked \cup {new}
    BY DEF Emit
<1> HIDE DEF last
<1> QED
    BY <1>1, <1>2, <1>4, <1>5, <1>7, <1>8 DEF Issued

-----------------------------------------------------------------------------
(* Every variable keeps its type.                                          *)
LEMMA InitTypes == Init => TypeOK /\ EventsExist
<1> SUFFICES ASSUME Init PROVE TypeOK /\ EventsExist
    OBVIOUS
<1>1. MaxEvents \in Nat /\ MaxFaults \in Nat
    BY BoundAssumption
<1>2. EventsExist
    BY <1>1 DEF Init, EventsExist, Issued
<1>3. handler \in [Handlers -> HandlerStates]
    BY DEF Init, HandlerStates
<1> QED
    <2>1. events \in Seq([sub : Subs, at : Ids])
        BY DEF Init
    <2>2. local \in [id : Subs \cup {NoSub}, status : LocalStatuses, at : 0..MaxEvents,
                     by : {"stripe", "admin"}]
        BY <1>1 DEF Init, LocalStatuses
    <2>3. stripe \in [Subs -> StripeStatuses] /\ status \in Statuses /\ reason \in Reasons
        BY DEF Init, StripeStatuses, Statuses, Reasons
    <2>4. faults \in 0..MaxFaults
        BY <1>1 DEF Init
    <2> QED
        BY <1>2, <1>3, <2>1, <2>2, <2>3, <2>4 DEF Init, TypeOK

\* Stripe creates an event.
LEMMA EmitTypes ==
    ASSUME TypeOK, EventsExist, NEW s \in Subs, Emit(s), handler' = handler
    PROVE  /\ events' \in Seq([sub : Subs, at : Ids]) /\ unacked' \subseteq Ids
           /\ EventsExist'
<1> DEFINE new == Len(events) + 1
<1>1. /\ new \in Ids /\ new \notin Issued
      /\ Issued' = Issued \cup {new} /\ Len(events') = new
      /\ \A e \in Issued : events'[e] = events[e]
      /\ events'[new].at \in 1..new
      /\ events' \in Seq([sub : Subs, at : Ids])
      /\ unacked' = unacked \cup {new}
    BY EmitFacts
<1>2. Len(events) \in Nat /\ MaxEvents \in Nat
    BY BoundAssumption DEF TypeOK
<1>3. Len(events') <= MaxEvents
    BY <1>1, <1>2 DEF Ids
<1>4. \A e \in Issued' : events'[e].at <= e
    <2>1. events'[new].at <= new
        BY <1>1, <1>2
    <2> QED
        BY <1>1, <2>1 DEF EventsExist
<1>5. unacked' \subseteq Issued' /\ \A h \in Handlers : handler'[h] # Idle => handler'[h].event \in Issued'
    BY <1>1 DEF EventsExist
<1> HIDE DEF new
<1> QED
    BY <1>1, <1>3, <1>4, <1>5 DEF EventsExist, TypeOK

\* A request is about an event that Stripe has created.
LEMMA HandlerTypes ==
    ASSUME TypeOK, EventsExist, NEW h \in Handlers,
           \/ \E e \in Issued : Receive(h, e)
           \/ Retrieve(h) \/ Apply(h) \/ RecordFailure(h) \/ Crash(h)
    PROVE  TypeOK' /\ EventsExist'
<1> USE DEF provider, workspace, people
<1>1. /\ UNCHANGED <<stripe, events, checkout, vetted, reviewer, form>>
      /\ unacked' \subseteq unacked
    BY DEF Receive, Retrieve, Apply, RecordFailure, Crash
<1>2. faults' \in 0..MaxFaults
    <2>1. faults' = faults \/ (faults < MaxFaults /\ faults' = faults + 1)
        BY DEF Receive, Retrieve, Apply, RecordFailure, Crash, Fault
    <2> QED
        BY <2>1, BoundAssumption DEF TypeOK
<1>3. PICK s \in HandlerStates : /\ handler' = handler \/ Become(h, s)
                                 /\ s # Idle => s.event \in Issued
    <2>1. ASSUME NEW e \in Issued, Receive(h, e)
          PROVE  \E s \in HandlerStates : /\ handler' = handler \/ Become(h, s)
                                          /\ s # Idle => s.event \in Issued
        BY <2>1, IssuedFacts, StatesAre DEF Receive, LocalStatuses
    <2>2. handler[h].pc # "idle" => handler[h].event \in Issued /\ handler[h].event \in Ids
        BY HandlerShape, IssuedFacts DEF TypeOK, EventsExist
    <2>3. CASE Retrieve(h)
        <3>1. internalStatus(stripe[events[handler[h].event].sub]) \in LocalStatuses
            BY <2>2, <2>3, IssuedFacts DEF Retrieve, internalStatus, TypeOK, StripeStatuses, LocalStatuses
        <3> QED
            BY <2>2, <2>3, <3>1, StatesAre DEF Retrieve, Failing
    <2>4. CASE Apply(h)
        BY <2>2, <2>4, StatesAre DEF Apply, Failing, LocalStatuses
    <2>5. CASE RecordFailure(h) \/ Crash(h)
        BY <2>5 DEF RecordFailure, Crash, HandlerStates
    <2> QED
        BY <2>1, <2>3, <2>4, <2>5
<1>4. handler' \in [Handlers -> HandlerStates]
      /\ \A g \in Handlers : handler'[g] # Idle => handler'[g].event \in Issued
    BY <1>3, BecomeFacts DEF TypeOK, EventsExist
<1>5. row' \in [Ids -> {"none", "processing", "failed", "processed", "ignored", "rejected"}]
    <2>1. ASSUME NEW e \in Issued, Receive(h, e)
          PROVE  row' \in [Ids -> {"none", "processing", "failed", "processed", "ignored", "rejected"}]
        BY <2>1 DEF Receive, TypeOK
    <2>2. handler[h].pc = "fail" => handler[h].verdict \in {"failed", "rejected"}
        BY HandlerShape DEF TypeOK
    <2> QED
        BY <2>1, <2>2 DEF Retrieve, Apply, RecordFailure, Crash, TypeOK
<1>6. /\ local' \in [id : Subs \cup {NoSub}, status : LocalStatuses, at : 0..MaxEvents,
                     by : {"stripe", "admin"}]
      /\ status' \in Statuses /\ reason' \in Reasons
    <2>1. CASE UNCHANGED <<local, status, reason>>
        BY <2>1 DEF TypeOK
    <2>2. CASE handler[h].pc = "apply" /\ Transition(events[handler[h].event].sub, handler[h].event, handler[h].seen)
        <3>1. /\ handler[h].event \in Issued /\ handler[h].seen \in LocalStatuses
            BY <2>2, HandlerShape DEF TypeOK, EventsExist
        <3>2. /\ events[handler[h].event].sub \in Subs
              /\ events[handler[h].event].at \in 0..MaxEvents
            BY <3>1, IssuedFacts DEF Ids
        <3> QED
            BY <2>2, <3>1, <3>2 DEF Transition, Restored, TypeOK, Statuses, Reasons
    <2> QED
        BY <2>1, <2>2 DEF Receive, Retrieve, Apply, RecordFailure, Crash
<1> QED
    <2>1. TypeOK'
        BY <1>1, <1>2, <1>4, <1>5, <1>6 DEF TypeOK
    <2>2. Issued' = Issued
        BY <1>1 DEF Issued
    <2> QED
        BY <1>1, <1>4, <2>1, <2>2 DEF EventsExist

LEMMA TypeStep == TypeOK /\ EventsExist /\ [Next]_vars => TypeOK' /\ EventsExist'
<1> SUFFICES ASSUME TypeOK, EventsExist, [Next]_vars PROVE TypeOK' /\ EventsExist'
    OBVIOUS
<1> USE DEF provider, workspace, people
<1>1. ASSUME NEW s \in Subs, NEW to \in StripeStatuses, StripeChanges(s, to)
      PROVE  TypeOK' /\ EventsExist'
    BY <1>1, EmitTypes DEF StripeChanges, TypeOK
<1>2. ASSUME NEW s \in Subs, CompleteCheckout(s) PROVE TypeOK' /\ EventsExist'
    BY <1>2, EmitTypes DEF CompleteCheckout, TypeOK, StripeStatuses
<1>3. CASE ExpireCheckout \/ prepareCheckout
    BY <1>3 DEF ExpireCheckout, prepareCheckout, TypeOK, EventsExist, Issued
<1>4. CASE OpenForm \/ completeOnboarding \/ OpenReview
    BY <1>4 DEF OpenForm, completeOnboarding, OpenReview, TypeOK, EventsExist, Issued, Statuses
<1>5. CASE approveWorkspace \/ suspendWorkspace \/ pauseForReputation
    BY <1>5 DEF approveWorkspace, suspendWorkspace, pauseForReputation, TypeOK, EventsExist,
           Issued, Statuses, Reasons, LocalStatuses
<1>6. CASE UNCHANGED vars
    BY <1>6 DEF vars, TypeOK, EventsExist, Issued
<1> QED
    BY <1>1, <1>2, <1>3, <1>4, <1>5, <1>6, HandlerTypes DEF Next

LEMMA TypesAlways == Spec => [](TypeOK /\ EventsExist)
BY InitTypes, TypeStep, PTL DEF Spec

(* Every variable keeps its type.                                          *)
THEOREM TypeCorrect == Spec => []TypeOK
BY TypesAlways, PTL
-----------------------------------------------------------------------------
(* What a workspace owes to its subscription, whoever decides about it.    *)
\* The transaction of a handler changes all it changes, or nothing.
LEMMA ApplyChanges ==
    ASSUME NEW h \in Handlers, Apply(h)
    PROVE  LET e == handler[h].event
               s == events[e].sub
           IN
           \/ UNCHANGED <<local, status, reason>>
           \/ /\ ~Ignored(s, e, handler[h].seen) /\ ~ReplacementForbidden(s)
              /\ Transition(s, e, handler[h].seen)
BY DEF Apply

LEMMA FollowsStep ==
    ASSUME TypeOK, WorkspaceFollows, [Next]_vars
    PROVE  WorkspaceFollows'
<1> USE DEF provider, workspace, people, WorkspaceFollows, CanceledIsPaused, ApprovedHasNoReason
<1>1. ASSUME NEW h \in Handlers, Apply(h) PROVE WorkspaceFollows'
    BY <1>1, ApplyChanges DEF Transition, Pauses, Restored
<1>2. CASE approveWorkspace
    BY <1>2 DEF approveWorkspace, TypeOK
<1>3. CASE completeOnboarding \/ suspendWorkspace \/ pauseForReputation
    BY <1>3 DEF completeOnboarding, suspendWorkspace, pauseForReputation
<1>4. CASE UNCHANGED <<local, status, reason>>
    BY <1>4
<1> QED
    BY <1>1, <1>2, <1>3, <1>4
       DEF Next, StripeChanges, CompleteCheckout, ExpireCheckout, prepareCheckout, Receive,
           Retrieve, RecordFailure, Crash, OpenForm, OpenReview, vars

(* Whatever handlers, forms, reviews and pauses overlap, and however late  *)
(* they read: a workspace whose subscription is canceled does not send,    *)
(* and an approved one keeps no reason that billing would act upon.        *)
THEOREM WorkspaceAlwaysFollows == Spec => []WorkspaceFollows
<1>1. Init => WorkspaceFollows
    BY DEF Init, WorkspaceFollows, CanceledIsPaused, ApprovedHasNoReason
<1>2. TypeOK /\ WorkspaceFollows /\ [Next]_vars => WorkspaceFollows'
    BY FollowsStep
<1> QED
    BY <1>1, <1>2, TypeCorrect, PTL DEF Spec

LEMMA RestoredStep ==
    ASSUME TypeOK, [Next]_vars,
           local.status = "canceled", status # "approved", status' = "approved"
    PROVE  local'.id # local.id \/ local'.by = "admin"
<1> USE DEF provider, workspace, people
<1>1. ASSUME NEW h \in Handlers, Apply(h) PROVE local'.id # local.id
    BY <1>1, ApplyChanges DEF Transition, Pauses, Ignored, Terminal
<1>2. CASE approveWorkspace
    BY <1>2 DEF approveWorkspace, TypeOK
<1>3. CASE completeOnboarding \/ suspendWorkspace \/ pauseForReputation
    BY <1>3 DEF completeOnboarding, suspendWorkspace, pauseForReputation
<1>4. CASE UNCHANGED <<local, status, reason>>
    BY <1>4
<1> QED
    BY <1>1, <1>2, <1>3, <1>4
       DEF Next, StripeChanges, CompleteCheckout, ExpireCheckout, prepareCheckout, Receive,
           Retrieve, RecordFailure, Crash, OpenForm, OpenReview, vars

(* No late event of a canceled subscription approves the workspace again.  *)
THEOREM CanceledRestoresNothing == Spec => RestoredByAnother
<1>1. TypeOK /\ [Next]_vars =>
        [(local.status = "canceled" /\ status # "approved" /\ status' = "approved")
           => (local'.id # local.id \/ local'.by = "admin")]_vars
    BY RestoredStep
<1> QED
    BY <1>1, TypeCorrect, PTL DEF Spec, RestoredByAnother

-----------------------------------------------------------------------------
(* The handlers converge.  What makes it true is that the handler of the   *)
(* last event of a subscription sees the subscription as it is: so it is   *)
(* enough that this event, once settled, cannot be overtaken by an older   *)
(* one (the test of staleness), was not ignored for a newer one of the     *)
(* same subscription (the events are in order), and was not refused as the *)
(* event of a canceled subscription (Stripe does not revive one).          *)
IsLast(s, e) == e \in EventsOf(s) /\ \A f \in EventsOf(s) : f <= e
Settles(e)   == row[e] \in {"processed", "ignored"}

InOrder == \A e, f \in Issued : e < f => events[e].at < events[f].at
EachHasALast == \A s \in Subs : \A e \in EventsOf(s) : \E f \in EventsOf(s) : IsLast(s, f)
UnissuedIsUnknown == \A e \in Ids \ Issued : row[e] = "none"
(* What a handler has read.                                                *)
SeenIsTrue ==
    \A h \in Handlers : handler[h].pc = "apply" =>
        LET e == handler[h].event
            s == events[e].sub
        IN  /\ IsLast(s, e) => handler[h].seen = internalStatus(stripe[s])
            /\ handler[h].seen = "canceled" => stripe[s] = "canceled"
(* What the local subscription is.                                         *)
LocalIsOfAnEvent ==
    /\ local.id # NoSub => \E e \in EventsOf(local.id) : events[e].at = local.at
    /\ local.status = "canceled" => local.id # NoSub /\ stripe[local.id] = "canceled"
(* What a settled last event has left.                                     *)
LastHasSettled ==
    \A s \in Subs, e \in Issued : IsLast(s, e) /\ Settles(e) =>
        /\ local.at >= events[e].at
        /\ local.id = s => \/ local.status = internalStatus(stripe[s])
                           \/ local.by = "admin"
BillingInvariant ==
    /\ InOrder /\ EachHasALast /\ UnissuedIsUnknown
    /\ SeenIsTrue /\ LocalIsOfAnEvent /\ LastHasSettled

LEMMA BillingInit == Init => BillingInvariant
BY NamesAssumption
   DEF Init, BillingInvariant, InOrder, EachHasALast, UnissuedIsUnknown, SeenIsTrue, Idle,
       LocalIsOfAnEvent, LastHasSettled, EventsOf, Issued, IsLast

\* A new event of s becomes its last one, and leaves those of the others.
LEMMA EmitKeeps ==
    ASSUME TypeOK, EventsExist, BillingInvariant, ~SameSecond, NEW s \in Subs, Emit(s),
           UNCHANGED <<row, handler, local>>,
           \A t \in Subs \ {s} : stripe'[t] = stripe[t],
           stripe[s] = "canceled" => stripe'[s] = "canceled"
    PROVE  BillingInvariant'
<1>1. PICK new \in Ids :
      /\ new = Len(events) + 1 /\ new \notin Issued
      /\ Issued' = Issued \cup {new} /\ Len(events') = new
      /\ \A e \in Issued : events'[e] = events[e]
      /\ events'[new].sub = s /\ events'[new].at \in 1..new
      /\ events # <<>> => events'[new].at > events[Len(events)].at
    BY EmitFacts
<1>2. /\ Issued = 1..Len(events) /\ Len(events) \in Nat /\ Issued \subseteq Ids
      /\ \A e \in Issued : events[e].sub \in Subs /\ events[e].at \in Ids
    BY IssuedFacts
<1>3. \A e \in Issued : e < new /\ e \in Nat
    BY <1>1, <1>2
<1>4. /\ \A t \in Subs \ {s} : EventsOf(t)' = EventsOf(t)
      /\ EventsOf(s)' = EventsOf(s) \cup {new}
    BY <1>1 DEF EventsOf
<1>5. /\ \A t \in Subs \ {s}, e \in Issued' : IsLast(t, e)' <=> IsLast(t, e)
      /\ \A e \in Issued' : IsLast(s, e)' <=> e = new
    <2>1. new \in Nat
        BY <1>1 DEF Ids
    <2>2. \A e \in EventsOf(s) : e \in Issued
        BY DEF EventsOf
    <2> QED
        BY <1>3, <1>4, <2>1, <2>2 DEF IsLast
<1>6. InOrder'
    <2>1. \A e \in Issued : events[e].at < events'[new].at
        <3>1. SUFFICES ASSUME NEW e \in Issued PROVE events[e].at < events'[new].at
            OBVIOUS
        <3>2. events # <<>> /\ Len(events) \in Issued
            BY <1>2
        <3>3. events[e].at <= events[Len(events)].at
            BY <1>2, <3>2 DEF BillingInvariant, InOrder, Ids
        <3>4. events[e].at \in Int /\ events[Len(events)].at \in Int /\ events'[new].at \in Int
            BY <1>1, <1>2, <3>2 DEF Ids
        <3> QED
            BY <1>1, <3>2, <3>3, <3>4
    <2>2. \A e \in Issued : ~(new < e)
        BY <1>1, <1>3 DEF Ids
    <2>3. ~(new < new)
        BY <1>1 DEF Ids
    <2> QED
        BY <1>1, <2>1, <2>2, <2>3 DEF BillingInvariant, InOrder
<1>7. EachHasALast'
    <2>1. IsLast(s, new)' /\ new \in EventsOf(s)'
        BY <1>1, <1>4, <1>5
    <2>2. ASSUME NEW t \in Subs \ {s}, NEW e \in EventsOf(t)'
          PROVE  \E f \in EventsOf(t)' : IsLast(t, f)'
        <3>1. PICK f \in EventsOf(t) : IsLast(t, f)
            BY <1>4, <2>2 DEF BillingInvariant, EachHasALast
        <3> QED
            BY <1>1, <1>4, <1>5, <3>1 DEF EventsOf
    <2> QED
        BY <2>1, <2>2 DEF EachHasALast
<1>8. UnissuedIsUnknown'
    BY <1>1 DEF BillingInvariant, UnissuedIsUnknown
<1>9. SeenIsTrue'
    <2>1. SUFFICES ASSUME NEW h \in Handlers, handler[h].pc = "apply",
                          NEW e, e = handler[h].event, NEW u, u = events'[e].sub
                   PROVE  /\ IsLast(u, e)' => handler[h].seen = internalStatus(stripe'[u])
                          /\ handler[h].seen = "canceled" => stripe'[u] = "canceled"
        BY DEF SeenIsTrue, internalStatus
    <2>2. e \in Issued
        BY <2>1 DEF EventsExist, Idle
    <2>3. u = events[e].sub /\ u \in Subs /\ e # new /\ e \in Issued'
        BY <1>1, <1>2, <2>1, <2>2
    <2>4. /\ IsLast(u, e) => handler[h].seen = internalStatus(stripe[u])
          /\ handler[h].seen = "canceled" => stripe[u] = "canceled"
        BY <2>1, <2>3 DEF BillingInvariant, SeenIsTrue
    <2>5. CASE u = s
        BY <1>5, <2>3, <2>4, <2>5
    <2>6. CASE u # s
        BY <1>5, <2>3, <2>4, <2>6
    <2> QED
        BY <2>5, <2>6
<1>10. LocalIsOfAnEvent'
    <2>1. local.id # NoSub => local.id \in Subs
        BY DEF TypeOK
    <2>2. local.id # NoSub => \E e \in EventsOf(local.id)' : events'[e].at = local.at
        <3>1. SUFFICES ASSUME local.id # NoSub
                       PROVE  \E e \in EventsOf(local.id)' : events'[e].at = local.at
            OBVIOUS
        <3>2. PICK e \in EventsOf(local.id) : events[e].at = local.at
            BY <3>1 DEF BillingInvariant, LocalIsOfAnEvent
        <3>3. e \in Issued /\ events[e].sub = local.id
            BY <3>2 DEF EventsOf
        <3> QED
            BY <1>1, <3>2, <3>3 DEF EventsOf
    <2>3. local.status = "canceled" => local.id # NoSub /\ stripe'[local.id] = "canceled"
        BY <2>1 DEF BillingInvariant, LocalIsOfAnEvent
    <2> QED
        BY <2>2, <2>3 DEF LocalIsOfAnEvent, EventsOf
<1>11. LastHasSettled'
    <2>1. SUFFICES ASSUME NEW t \in Subs, NEW e \in Issued', IsLast(t, e)', Settles(e)
                   PROVE  /\ local.at >= events'[e].at
                          /\ local.id = t => \/ local.status = internalStatus(stripe'[t])
                                             \/ local.by = "admin"
        BY DEF LastHasSettled, Settles, internalStatus
    <2>2. row[new] = "none"
        BY <1>1 DEF BillingInvariant, UnissuedIsUnknown
    <2>3. e # new
        BY <2>1, <2>2 DEF Settles
    <2>4. e \in Issued /\ t # s
        BY <1>1, <1>5, <2>1, <2>3
    <2>5. IsLast(t, e) /\ events'[e] = events[e] /\ stripe'[t] = stripe[t]
        BY <1>1, <1>5, <2>1, <2>4
    <2> QED
        BY <2>1, <2>4, <2>5 DEF BillingInvariant, LastHasSettled
<1> QED
    BY <1>6, <1>7, <1>8, <1>9, <1>10, <1>11 DEF BillingInvariant

\* Nothing at Stripe changes: what is left to show for a handler's step.
LEMMA QuietKeeps ==
    ASSUME BillingInvariant, UNCHANGED <<stripe, events>>,
           UnissuedIsUnknown', SeenIsTrue', LocalIsOfAnEvent', LastHasSettled'
    PROVE  BillingInvariant'
BY DEF BillingInvariant, InOrder, EachHasALast, EventsOf, Issued, IsLast

\* A handler that does not apply, and a row that is not settled by it.
LEMMA UnappliedKeeps ==
    ASSUME BillingInvariant, EventsExist, TypeOK, TypeOK', NEW h \in Handlers,
           UNCHANGED <<stripe, events, local>>,
           \A g \in Handlers \ {h} : handler'[g] = handler[g],
           handler'[h].pc = "apply" =>
               \/ handler'[h] = handler[h]
               \/ handler'[h].seen = internalStatus(stripe[events[handler'[h].event].sub]),
           \A e \in Ids : row'[e] = row[e] \/ (e \in Issued /\ ~Settles(e)')
    PROVE  BillingInvariant'
<1>1. /\ Issued' = Issued /\ \A s \in Subs : EventsOf(s)' = EventsOf(s)
      /\ \A s \in Subs, e \in Issued : IsLast(s, e)' <=> IsLast(s, e)
    BY DEF Issued, EventsOf, IsLast
<1>2. UnissuedIsUnknown'
    BY <1>1 DEF BillingInvariant, UnissuedIsUnknown
<1>3. SeenIsTrue'
    <2>1. \A x \in StripeStatuses : internalStatus(x) = "canceled" => x = "canceled"
        BY DEF internalStatus
    <2>2. SUFFICES ASSUME NEW g \in Handlers, handler'[g].pc = "apply",
                          NEW e, e = handler'[g].event, NEW u, u = events[e].sub
                   PROVE  /\ IsLast(u, e)' => handler'[g].seen = internalStatus(stripe[u])
                          /\ handler'[g].seen = "canceled" => stripe[u] = "canceled"
        BY DEF SeenIsTrue, internalStatus
    <2>3. CASE handler'[g] = handler[g]
        <3>1. e \in Issued
            BY <2>2, <2>3 DEF EventsExist, Idle
        <3>2. u \in Subs
            BY <2>2, <3>1, IssuedFacts
        <3> QED
            BY <1>1, <2>2, <2>3, <3>1, <3>2 DEF BillingInvariant, SeenIsTrue
    <2>4. CASE handler'[g] # handler[g]
        <3>1. e \in Ids
            BY <2>2, HandlerShape DEF TypeOK
        <3>2. handler'[g].seen = internalStatus(stripe[u])
            BY <2>2, <2>4
        <3>3. handler'[g].seen = "canceled" => stripe[u] = "canceled"
            BY <3>2 DEF internalStatus
        <3> QED
            BY <3>2, <3>3
    <2> QED
        BY <2>3, <2>4
<1>4. LocalIsOfAnEvent'
    BY DEF BillingInvariant, LocalIsOfAnEvent, EventsOf, Issued
<1>5. LastHasSettled'
    <2>1. SUFFICES ASSUME NEW s \in Subs, NEW e \in Issued, IsLast(s, e), Settles(e)'
                   PROVE  /\ local.at >= events[e].at
                          /\ local.id = s => \/ local.status = internalStatus(stripe[s])
                                             \/ local.by = "admin"
        BY <1>1 DEF LastHasSettled, internalStatus
    <2>2. Settles(e)
        BY <2>1, IssuedFacts DEF Settles
    <2> QED
        BY <2>1, <2>2 DEF BillingInvariant, LastHasSettled
<1> QED
    BY <1>2, <1>3, <1>4, <1>5, QuietKeeps

\* The transaction of a handler, when its last event sees the truth.
LEMMA ApplyKeeps ==
    ASSUME TypeOK, TypeOK', EventsExist, BillingInvariant, NEW h \in Handlers, Apply(h)
    PROVE  BillingInvariant'
<1>1. PICK e \in Issued, s \in Subs, seen \in LocalStatuses :
        e = handler[h].event /\ s = events[e].sub /\ seen = handler[h].seen
    <2>1. handler[h].event \in Issued /\ handler[h].seen \in LocalStatuses
        BY HandlerShape DEF Apply, TypeOK, EventsExist
    <2> QED
        BY <2>1, IssuedFacts
<1>2. /\ UNCHANGED <<stripe, events>> /\ handler[h].pc = "apply"
      /\ handler'[h].pc # "apply" /\ \A g \in Handlers \ {h} : handler'[g] = handler[g]
    BY DEF Apply, Failing, Become, Idle, TypeOK
<1>3. /\ Issued' = Issued /\ \A t \in Subs : EventsOf(t)' = EventsOf(t)
      /\ \A t \in Subs, f \in Issued : IsLast(t, f)' <=> IsLast(t, f)
    BY <1>2 DEF Issued, EventsOf, IsLast
<1>4. CASE UNCHANGED <<row, local>>
    BY <1>2, <1>4, UnappliedKeeps
<1>5. CASE /\ row' = [row EXCEPT ![e] = IF Ignored(s, e, seen) THEN "ignored" ELSE "processed"]
           /\ IF Ignored(s, e, seen) THEN UNCHANGED local
              ELSE Transition(s, e, seen) /\ ~ReplacementForbidden(s)
    <2>1. /\ Issued \subseteq Ids
          /\ \A f \in Issued : events[f].at \in Nat /\ events[f].sub \in Subs
          /\ local.at \in Nat
        BY IssuedFacts, BoundAssumption DEF TypeOK, Ids
    <2>2. UnissuedIsUnknown'
        BY <1>3, <1>5 DEF BillingInvariant, UnissuedIsUnknown, TypeOK
    <2>3. SeenIsTrue'
        <3>1. SUFFICES ASSUME NEW g \in Handlers \ {h}, handler[g].pc = "apply",
                              NEW f, f = handler[g].event, NEW u, u = events[f].sub
                       PROVE  /\ IsLast(u, f)' => handler[g].seen = internalStatus(stripe[u])
                              /\ handler[g].seen = "canceled" => stripe[u] = "canceled"
            BY <1>2 DEF SeenIsTrue, internalStatus
        <3>2. f \in Issued
            BY <3>1 DEF EventsExist, Idle
        <3> QED
            BY <1>3, <2>1, <3>1, <3>2 DEF BillingInvariant, SeenIsTrue
    <2>4. /\ IsLast(s, e) => seen = internalStatus(stripe[s])
          /\ seen = "canceled" => stripe[s] = "canceled"
        BY <1>1, <1>2 DEF BillingInvariant, SeenIsTrue
    <2>5. CASE Ignored(s, e, seen)
        <3>1. UNCHANGED local
            BY <1>5, <2>5
        <3>2. LocalIsOfAnEvent'
            BY <1>2, <3>1 DEF BillingInvariant, LocalIsOfAnEvent, EventsOf, Issued
        <3>3. ASSUME IsLast(s, e) PROVE local.at > events[e].at /\ local.id # s
            <4>1. ~Terminal(s, seen)
                <5>1. local.status = "canceled" /\ local.id = s => stripe[s] = "canceled"
                    BY DEF BillingInvariant, LocalIsOfAnEvent
                <5> QED
                    BY <2>4, <3>3, <5>1 DEF Terminal, internalStatus
            <4>2. events[e].at < local.at
                BY <2>5, <4>1 DEF Ignored, StaleEvent
            <4>3. local.id # s
                <5>1. SUFFICES ASSUME local.id = s PROVE FALSE
                    OBVIOUS
                <5>2. PICK f \in EventsOf(s) : events[f].at = local.at
                    BY <5>1, NamesAssumption DEF BillingInvariant, LocalIsOfAnEvent
                <5>3. f <= e /\ f \in Issued /\ f \in Nat /\ e \in Nat
                    BY <2>1, <3>3, <5>2 DEF IsLast, EventsOf, Ids
                <5>4. events[f].at <= events[e].at
                    <6>1. CASE f = e
                        BY <2>1, <6>1
                    <6>2. CASE f < e
                        BY <2>1, <5>3, <6>2 DEF BillingInvariant, InOrder
                    <6> QED
                        BY <5>3, <6>1, <6>2
                <5> QED
                    BY <2>1, <4>2, <5>2, <5>3, <5>4
            <4> QED
                BY <2>1, <4>2, <4>3
        <3>4. LastHasSettled'
            <4>1. SUFFICES ASSUME NEW t \in Subs, NEW f \in Issued, IsLast(t, f), Settles(f)'
                           PROVE  /\ local.at >= events[f].at
                                  /\ local.id = t => \/ local.status = internalStatus(stripe[t])
                                                     \/ local.by = "admin"
                BY <1>2, <1>3, <3>1 DEF LastHasSettled, internalStatus
            <4>2. CASE f = e
                <5>1. t = s
                    BY <1>1, <4>1, <4>2 DEF IsLast, EventsOf
                <5> QED
                    BY <2>1, <3>3, <4>1, <4>2, <5>1
            <4>3. CASE f # e
                <5>1. Settles(f)
                    BY <1>5, <2>1, <4>1, <4>3 DEF Settles, TypeOK
                <5> QED
                    BY <4>1, <5>1 DEF BillingInvariant, LastHasSettled
            <4> QED
                BY <4>2, <4>3
        <3> QED
            BY <1>2, <2>2, <2>3, <3>2, <3>4, QuietKeeps
    <2>6. CASE ~Ignored(s, e, seen)
        <3>1. /\ local' = [id |-> s, status |-> seen, at |-> events[e].at, by |-> "stripe"]
              /\ events[e].at >= local.at
            BY <1>5, <2>1, <2>6 DEF Transition, Ignored, StaleEvent
        <3>2. LocalIsOfAnEvent'
            <4>1. e \in EventsOf(s)'
                BY <1>1, <1>3 DEF EventsOf
            <4>2. local'.id = s /\ local'.at = events'[e].at /\ local'.status = seen
                BY <1>2, <3>1
            <4>3. seen = "canceled" => s # NoSub /\ stripe'[s] = "canceled"
                BY <1>2, <2>4, NamesAssumption
            <4>4. EventsOf(local.id)' = EventsOf(s)'
                BY <4>2 DEF EventsOf
            <4> QED
                BY <4>1, <4>2, <4>3, <4>4 DEF LocalIsOfAnEvent
        <3>3. LastHasSettled'
            <4>1. SUFFICES ASSUME NEW t \in Subs, NEW f \in Issued, IsLast(t, f), Settles(f)'
                           PROVE  /\ events[e].at >= events[f].at
                                  /\ s = t => seen = internalStatus(stripe[t])
                <5>1. local'.at = events[e].at /\ local'.id = s /\ local'.status = seen
                    BY <3>1
                <5> QED
                    BY <1>2, <1>3, <4>1, <5>1 DEF LastHasSettled, internalStatus
            <4>2. CASE f = e
                <5>1. t = s
                    BY <1>1, <4>1, <4>2 DEF IsLast, EventsOf
                <5> QED
                    BY <2>1, <2>4, <4>1, <4>2, <5>1
            <4>3. CASE f # e
                <5>1. Settles(f)
                    BY <1>5, <2>1, <4>1, <4>3 DEF Settles, TypeOK
                <5>2. local.at >= events[f].at
                    BY <4>1, <5>1 DEF BillingInvariant, LastHasSettled
                <5>3. events[e].at >= events[f].at
                    BY <2>1, <3>1, <5>2
                <5>4. s # t
                    <6>1. SUFFICES ASSUME s = t PROVE FALSE
                        OBVIOUS
                    <6>2. e <= f /\ e \in Nat /\ f \in Nat
                        <7>1. e \in EventsOf(t) /\ \A d \in EventsOf(t) : d <= f
                            BY <1>1, <4>1, <6>1 DEF IsLast, EventsOf
                        <7>2. e \in Nat /\ f \in Nat
                            BY <2>1, BoundAssumption DEF Ids
                        <7> QED
                            BY <7>1, <7>2
                    <6>3. events[e].at < events[f].at
                        BY <4>3, <6>2 DEF BillingInvariant, InOrder
                    <6> QED
                        BY <2>1, <5>3, <6>3
                <5> QED
                    BY <5>3, <5>4
            <4> QED
                BY <4>2, <4>3
        <3> QED
            BY <1>2, <2>2, <2>3, <3>2, <3>3, QuietKeeps
    <2> QED
        BY <2>5, <2>6
<1> QED
    BY <1>1, <1>4, <1>5 DEF Apply

\* An approval resets the local status, and says who did it.
LEMMA ApprovalKeeps ==
    ASSUME TypeOK, BillingInvariant, approveWorkspace
    PROVE  BillingInvariant'
<1>1. /\ UNCHANGED <<stripe, events, row, handler>>
      /\ local'.id = local.id /\ local'.at = local.at
      /\ local'.status = "inactive" /\ local'.by = "admin"
    BY DEF approveWorkspace, provider, TypeOK
<1>2. Issued' = Issued /\ \A s : EventsOf(s)' = EventsOf(s)
    BY <1>1 DEF Issued, EventsOf
<1>3. \A s, e : IsLast(s, e)' <=> IsLast(s, e)
    BY <1>1 DEF IsLast, EventsOf, Issued
<1>4. UnissuedIsUnknown' /\ SeenIsTrue'
    BY <1>1, <1>2, <1>3 DEF BillingInvariant, UnissuedIsUnknown, SeenIsTrue, internalStatus
<1>5. LocalIsOfAnEvent'
    BY <1>1, <1>2 DEF BillingInvariant, LocalIsOfAnEvent, EventsOf, Issued
<1>6. LastHasSettled'
    BY <1>1, <1>2, <1>3 DEF BillingInvariant, LastHasSettled, Settles
<1> QED
    BY <1>1, <1>4, <1>5, <1>6, QuietKeeps

LEMMA BillingStep ==
    ASSUME TypeOK, TypeOK', EventsExist, BillingInvariant, ~SameSecond, [Next]_vars
    PROVE  BillingInvariant'
<1> USE DEF provider, workspace, people
<1>1. ASSUME NEW s \in Subs, NEW to \in StripeStatuses, StripeChanges(s, to)
      PROVE  BillingInvariant'
    <2>1. stripe[s] = "canceled" => to = "canceled"
        BY <1>1 DEF StripeChanges, Successors, StripeStatuses
    <2>2. /\ stripe'[s] = to /\ \A t \in Subs \ {s} : stripe'[t] = stripe[t]
          /\ Emit(s) /\ UNCHANGED <<row, handler, local>>
        BY <1>1 DEF StripeChanges, TypeOK
    <2> QED
        BY <2>1, <2>2, EmitKeeps
<1>2. ASSUME NEW s \in Subs, CompleteCheckout(s) PROVE BillingInvariant'
    <2>1. /\ stripe[s] = "none" /\ \A t \in Subs \ {s} : stripe'[t] = stripe[t]
          /\ Emit(s) /\ UNCHANGED <<row, handler, local>>
        BY <1>2 DEF CompleteCheckout, TypeOK
    <2> QED
        BY <2>1, EmitKeeps
<1>3. ASSUME NEW h \in Handlers, NEW e \in Issued, Receive(h, e) PROVE BillingInvariant'
    <2>1. /\ UNCHANGED <<stripe, events, local>>
          /\ \A g \in Handlers \ {h} : handler'[g] = handler[g]
          /\ handler'[h].pc = "apply" => handler'[h] = handler[h]
        BY <1>3 DEF Receive, Become, TypeOK
    <2>2. \A f \in Ids : row'[f] = row[f] \/ (f \in Issued /\ ~Settles(f)')
        BY <1>3 DEF Receive, Settles, TypeOK
    <2> QED
        BY <2>1, <2>2, UnappliedKeeps
<1>4. ASSUME NEW h \in Handlers, Retrieve(h) PROVE BillingInvariant'
    <2>1. /\ UNCHANGED <<stripe, events, local, row>>
          /\ \A g \in Handlers \ {h} : handler'[g] = handler[g]
        BY <1>4 DEF Retrieve, Failing, Become, TypeOK
    <2>2. handler'[h].pc = "apply" =>
            handler'[h].seen = internalStatus(stripe[events[handler'[h].event].sub])
        BY <1>4 DEF Retrieve, Failing, Become, TypeOK
    <2> QED
        BY <2>1, <2>2, UnappliedKeeps
<1>5. ASSUME NEW h \in Handlers, RecordFailure(h) \/ Crash(h) PROVE BillingInvariant'
    <2>1. /\ UNCHANGED <<stripe, events, local>>
          /\ \A g \in Handlers \ {h} : handler'[g] = handler[g]
          /\ handler'[h].pc = "idle"
        BY <1>5 DEF RecordFailure, Crash, Become, Idle, TypeOK
    <2>2. \A f \in Ids : row'[f] = row[f] \/ (f \in Issued /\ ~Settles(f)')
        <3>1. CASE RecordFailure(h)
            <4>1. handler[h].event \in Issued /\ handler[h].verdict \in {"failed", "rejected"}
                BY <3>1, HandlerShape DEF RecordFailure, EventsExist, TypeOK
            <4> QED
                BY <3>1, <4>1 DEF RecordFailure, Settles, TypeOK
        <3>2. CASE Crash(h)
            BY <3>2 DEF Crash
        <3> QED
            BY <1>5, <3>1, <3>2
    <2> QED
        BY <2>1, <2>2, UnappliedKeeps
<1>6. CASE UNCHANGED <<stripe, events, row, handler, local>>
    BY <1>6 DEF BillingInvariant, InOrder, EachHasALast, UnissuedIsUnknown, SeenIsTrue,
           LocalIsOfAnEvent, LastHasSettled, EventsOf, Issued, IsLast, Settles, internalStatus
<1> QED
    BY <1>1, <1>2, <1>3, <1>4, <1>5, <1>6, ApplyKeeps, ApprovalKeeps
       DEF Next, ExpireCheckout, prepareCheckout, OpenForm, completeOnboarding, OpenReview,
           suspendWorkspace, pauseForReputation, vars

(* Out of order, repeated, slow, interrupted or overlapping: when the last *)
(* event of the local subscription is settled, its status is Stripe's, or  *)
(* an administrator has reset it since.                                    *)
THEOREM BillingConverges ==
    ASSUME ~SameSecond
    PROVE  Spec => []Reconciled
<1>1. TypeOK /\ EventsExist /\ TypeOK' /\ BillingInvariant /\ [Next]_vars => BillingInvariant'
    BY BillingStep
<1>2. TypeOK /\ BillingInvariant => Reconciled
    <2>1. SUFFICES ASSUME TypeOK, BillingInvariant, local.id # NoSub,
                          \A e \in EventsOf(local.id) : Settles(e)
                   PROVE  local.status = internalStatus(stripe[local.id]) \/ local.by = "admin"
        BY DEF Reconciled, Settles
    <2>2. PICK s \in Subs : s = local.id
        BY <2>1 DEF TypeOK
    <2>3. PICK e \in EventsOf(s) : IsLast(s, e)
        BY <2>1, <2>2 DEF BillingInvariant, LocalIsOfAnEvent, EachHasALast
    <2> QED
        BY <2>1, <2>2, <2>3 DEF BillingInvariant, LastHasSettled, EventsOf
<1> QED
    BY <1>1, <1>2, BillingInit, TypesAlways, PTL DEF Spec
=============================================================================
