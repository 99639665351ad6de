------------------------- MODULE WebhookDeliveryProofs -------------------------
(***************************************************************************)
(* Theorems about WebhookDelivery for every set of deliveries and workers, *)
(* every number of attempts and every clock skew, when a claim outlives    *)
(* the worker that made it and no retry is due before the worker that      *)
(* announced it is gone.                                                   *)
(***************************************************************************)
EXTENDS WebhookDelivery, TLAPS, FiniteSetTheorems

Early   == {"none", "reading"}
Settled == {"delivered", "terminal", "deleted"}
AtPost(w, d) == Past(w, d) /\ run[w].pc = "post"

(* The part of TypeOK that the arguments below need.                       *)
Types ==
    /\ state \in [Deliveries -> States]
    /\ attempt \in [Deliveries -> 0..MaxAttempts]
    /\ due \in [Deliveries -> Int]
    /\ claim \in [Deliveries -> Workers \cup {Nobody, Dead}]
    /\ claimAge \in [Deliveries -> Nat]
    /\ run \in [Workers -> Runs]
    /\ calls \in [Deliveries -> Nat]
    /\ faults \in Nat
    /\ \A d \in Deliveries : state[d] \in Early \cup {"pending"} => attempt[d] < MaxAttempts

(* Whoever is past its claim still holds it, for as long as it has run; or *)
(* the delivery is settled; or its retry is recorded and not yet due.      *)
ClaimHolds(w, d) ==
    \/ state[d] \in Settled
    \/ StillMine(w, d) /\ claimAge[d] = run[w].elapsed /\ run[w].try = attempt[d] + 1
    \/ /\ run[w].pc = "failed" /\ state[d] = "pending" /\ claim[d] = Nobody
       /\ due[d] + run[w].elapsed >= Timeout
WorkerHolds(w) ==
    \A d \in Deliveries : Working(w, d) =>
        /\ state[d] \in Settled \cup {"pending"}
        /\ Past(w, d) => ClaimHolds(w, d)
        /\ run[w].pc = "claim" /\ state[d] = "pending" =>
             run[w].try = attempt[d] + 1 \/ due[d] + run[w].elapsed > 0

(* The requests that the row does not count.                               *)
CallsCounted(d) ==
    /\ state[d] \in Early => calls[d] = 0
    /\ state[d] = "pending" =>
         \/ calls[d] <= attempt[d] + faults
         \/ /\ calls[d] <= attempt[d] + faults + 1
            /\ \E w \in Workers : Past(w, d) /\ StillMine(w, d) /\ run[w].pc # "post"
    /\ calls[d] <= MaxAttempts + faults
    /\ (\E w \in Workers : AtPost(w, d)) => calls[d] < MaxAttempts + faults

WebhookInvariant ==
    /\ Types /\ OneSender
    /\ \A w \in Workers : WorkerHolds(w)
    /\ \A d \in Deliveries : CallsCounted(d)

\* How a step of worker w changes the row of d.
RowBy(w, d) ==
    \/ UNCHANGED <<state[d], attempt[d], due[d], claim[d], claimAge[d]>>
    \/ state[d] \in Settled \cup {"pending"} /\ state'[d] \in Settled
    \/ /\ run[w].pc = "claim" /\ Working(w, d) /\ Claimable(d, run[w].elapsed)
       /\ UNCHANGED <<state[d], attempt[d], due[d]>>
       /\ claim'[d] = w /\ claimAge'[d] = run[w].elapsed
    \/ /\ Past(w, d) /\ StillMine(w, d) /\ state'[d] = "pending" /\ claim'[d] = Nobody
       /\ due'[d] \in Int /\ due'[d] + run[w].elapsed >= Timeout
    \/ claim[d] = w /\ UNCHANGED <<state[d], attempt[d], due[d], claimAge[d]>>

-----------------------------------------------------------------------------
LEMMA RunShape ==
    ASSUME NEW s \in Runs
    PROVE  /\ s = Idle <=> s.pc = "idle"
           /\ s.pc # "idle" =>
                /\ s \in [pc : Pcs, job : Deliveries, try : 1..MaxAttempts, elapsed : Elapsed]
                /\ s.pc \in Pcs /\ s.job \in Deliveries /\ s.try \in 1..MaxAttempts
                /\ s.elapsed \in Elapsed
BY DEF Runs, Idle, Pcs

LEMMA BecomeFacts ==
    ASSUME run \in [Workers -> Runs], NEW w \in Workers, NEW s, Become(w, s)
    PROVE  /\ run'[w] = s /\ \A v \in Workers \ {w} : run'[v] = run[v]
           /\ s \in Runs => run' \in [Workers -> Runs]
BY DEF Become

LEMMA GotoFacts ==
    ASSUME run \in [Workers -> Runs], NEW w \in Workers, run[w].pc # "idle",
           NEW pc \in Pcs, Goto(w, pc)
    PROVE  /\ run' \in [Workers -> Runs] /\ \A v \in Workers \ {w} : run'[v] = run[v]
           /\ run'[w].pc = pc /\ run'[w].job = run[w].job /\ run'[w].try = run[w].try
           /\ run'[w].elapsed = run[w].elapsed /\ run'[w] # Idle
<1>1. run[w] \in [pc : Pcs, job : Deliveries, try : 1..MaxAttempts, elapsed : Elapsed]
    BY RunShape
<1>2. run'[w] = [run[w] EXCEPT !.pc = pc] /\ \A v \in Workers \ {w} : run'[v] = run[v]
    BY BecomeFacts DEF Goto
<1>3. [run[w] EXCEPT !.pc = pc] \in [pc : Pcs, job : Deliveries, try : 1..MaxAttempts, elapsed : Elapsed]
    BY <1>1
<1>4. run' \in [Workers -> Runs]
    BY <1>3, BecomeFacts DEF Goto, Runs
<1> QED
    BY <1>1, <1>2, <1>3, <1>4 DEF Idle, Pcs

LEMMA IdleFacts == Idle \in Runs /\ Idle.pc = "idle"
BY DEF Idle, Runs

\* A delivery that a worker may claim is in nobody else's hands.
LEMMA NobodyElse ==
    ASSUME WebhookAssumption, WebhookInvariant,
           NEW v \in Workers, NEW w \in Workers, NEW d \in Deliveries,
           run[w].pc # "idle", Claimable(d, run[w].elapsed)
    PROVE  ~Past(v, d)
<1> USE DEF WebhookInvariant, Types
<1>1. SUFFICES ASSUME Past(v, d) PROVE FALSE
    OBVIOUS
<1>2. ClaimHolds(v, d)
    BY <1>1 DEF WorkerHolds, Past
<1>3. run[v].elapsed \in 0..(Timeout - 1) /\ run[w].elapsed \in 0..(Timeout - 1)
    BY <1>1, RunShape DEF Past, Working, Elapsed
<1>4. state[d] = "pending" /\ due[d] <= -run[w].elapsed
      /\ (claim[d] = Nobody \/ claimAge[d] - run[w].elapsed > Lease)
    BY DEF Claimable, DueAt, Stale
<1>5. CASE StillMine(v, d) /\ claimAge[d] = run[v].elapsed
    BY <1>3, <1>4, <1>5 DEF StillMine, WebhookAssumption
<1>6. CASE due[d] + run[v].elapsed >= Timeout
    BY <1>3, <1>4, <1>6 DEF WebhookAssumption
<1> QED
    BY <1>2, <1>4, <1>5, <1>6 DEF ClaimHolds, Settled

\* What a worker's step leaves of the work of the others: all of it.
LEMMA OthersKeep ==
    ASSUME WebhookAssumption, WebhookInvariant,
           NEW w \in Workers, \A d \in Deliveries : RowBy(w, d),
           NEW v \in Workers \ {w}, run'[v] = run[v]
    PROVE  /\ WorkerHolds(v)'
           /\ \A d \in Deliveries : Past(v, d) /\ StillMine(v, d) /\ state'[d] = "pending" =>
                  StillMine(v, d)' /\ UNCHANGED <<attempt[d]>>
<1> USE DEF WebhookInvariant, Types
<1>1. SUFFICES ASSUME NEW d \in Deliveries, Working(v, d)
               PROVE  /\ state'[d] \in Settled \cup {"pending"}
                      /\ Past(v, d) => ClaimHolds(v, d)'
                      /\ run[v].pc = "claim" /\ state'[d] = "pending" =>
                           run[v].try = attempt'[d] + 1 \/ due'[d] + run[v].elapsed > 0
                      /\ Past(v, d) /\ StillMine(v, d) /\ state'[d] = "pending" =>
                            StillMine(v, d)' /\ UNCHANGED <<attempt[d]>>
    BY DEF WorkerHolds, Working, Past
<1>2. /\ state[d] \in Settled \cup {"pending"}
      /\ Past(v, d) => ClaimHolds(v, d)
      /\ run[v].pc = "claim" /\ state[d] = "pending" =>
           run[v].try = attempt[d] + 1 \/ due[d] + run[v].elapsed > 0
    BY <1>1 DEF WorkerHolds
<1>3. run[v].elapsed \in 0..(Timeout - 1) /\ (run[w].pc # "idle" => run[w].elapsed \in 0..(Timeout - 1))
    BY <1>1, RunShape DEF Working, Elapsed
<1>4. CASE UNCHANGED <<state[d], attempt[d], due[d], claim[d], claimAge[d]>>
    BY <1>2, <1>4 DEF ClaimHolds, StillMine
<1>5. CASE state'[d] \in Settled
    BY <1>5 DEF ClaimHolds, Settled
<1>6. CASE /\ run[w].pc = "claim" /\ Claimable(d, run[w].elapsed)
           /\ UNCHANGED <<state[d], attempt[d], due[d]>>
    <2>1. ~Past(v, d)
        <3>1. run[w].pc # "idle"
            BY <1>6
        <3> QED
            BY <1>6, <3>1, NobodyElse
    <2> QED
        BY <1>2, <1>6, <2>1
<1>7. CASE /\ Past(w, d) /\ state'[d] = "pending"
           /\ due'[d] \in Int /\ due'[d] + run[w].elapsed >= Timeout
    <2>1. ~Past(v, d)
        BY <1>7 DEF OneSender
    <2>2. run[w].pc # "idle"
        BY <1>7, RunShape DEF Past, Working
    <2>3. due'[d] > 0
        BY <1>3, <1>7, <2>2 DEF WebhookAssumption
    <2> QED
        BY <1>2, <1>3, <1>7, <2>1, <2>3 DEF WebhookAssumption
<1>8. CASE claim[d] = w /\ UNCHANGED <<state[d], attempt[d], due[d], claimAge[d]>>
    <2>1. ~StillMine(v, d) /\ claim[d] # Nobody
        BY <1>8 DEF StillMine, WebhookAssumption
    <2> QED
        BY <1>2, <1>8, <2>1 DEF ClaimHolds
<1> QED
    BY <1>4, <1>5, <1>6, <1>7, <1>8 DEF RowBy

\* The calls of a delivery about which nothing is forgotten.
LEMMA CallsKept ==
    ASSUME WebhookAssumption, WebhookInvariant, NEW d \in Deliveries,
           calls'[d] = calls[d], faults' \in Nat, faults' >= faults,
           \/ state'[d] = state[d] /\ attempt'[d] = attempt[d]
           \/ state'[d] \in Settled \cup {"reading", "aborted"} /\ (state'[d] = "reading" => state[d] \in Early),
           \A w \in Workers : AtPost(w, d)' => AtPost(w, d),
           \A w \in Workers : Past(w, d) /\ StillMine(w, d) /\ run[w].pc # "post" /\ state'[d] = "pending" =>
               \/ faults' > faults
               \/ Past(w, d)' /\ StillMine(w, d)' /\ run'[w].pc # "post"
    PROVE  CallsCounted(d)'
<1>1. /\ calls[d] \in Nat /\ attempt[d] \in Nat /\ faults \in Nat /\ MaxAttempts \in Nat
      /\ CallsCounted(d)
    BY DEF WebhookInvariant, Types, WebhookAssumption
<1>2. calls'[d] <= MaxAttempts + faults'
    BY <1>1 DEF CallsCounted
<1>3. (\E w \in Workers : AtPost(w, d)') => calls'[d] < MaxAttempts + faults'
    BY <1>1 DEF CallsCounted
<1>4. state'[d] \in Early => calls'[d] = 0
    BY <1>1 DEF CallsCounted, Early, Settled
<1>5. state'[d] = "pending" =>
        \/ calls'[d] <= attempt'[d] + faults'
        \/ /\ calls'[d] <= attempt'[d] + faults' + 1
           /\ \E w \in Workers : Past(w, d)' /\ StillMine(w, d)' /\ run'[w].pc # "post"
    <2>1. SUFFICES ASSUME state'[d] = "pending"
                   PROVE  \/ calls[d] <= attempt[d] + faults'
                          \/ /\ calls[d] <= attempt[d] + faults' + 1
                             /\ \E w \in Workers : Past(w, d)' /\ StillMine(w, d)' /\ run'[w].pc # "post"
        BY DEF Settled
    <2>2. state[d] = "pending"
        BY <2>1 DEF Settled
    <2>3. CASE calls[d] <= attempt[d] + faults
        BY <1>1, <2>3
    <2>4. CASE /\ calls[d] <= attempt[d] + faults + 1
               /\ \E w \in Workers : Past(w, d) /\ StillMine(w, d) /\ run[w].pc # "post"
        BY <1>1, <2>1, <2>4
    <2> QED
        BY <1>1, <2>2, <2>3, <2>4 DEF CallsCounted
<1> QED
    BY <1>2, <1>3, <1>4, <1>5 DEF CallsCounted

\* What a step of worker w must say of the calls of d.
CallsBy(w, d) ==
    /\ calls'[d] = calls[d]
    /\ \/ state'[d] = state[d] /\ attempt'[d] = attempt[d]
       \/ state'[d] \in Settled
    /\ AtPost(w, d)' => AtPost(w, d)
    /\ Past(w, d) /\ StillMine(w, d) /\ run[w].pc # "post" /\ state'[d] = "pending" =>
         faults' > faults

\* A step of worker w keeps the invariant if it keeps w's own part.
LEMMA ActorStep ==
    ASSUME WebhookAssumption, WebhookInvariant, Types', faults' >= faults,
           NEW w \in Workers, \A d \in Deliveries : RowBy(w, d),
           \A v \in Workers \ {w} : run'[v] = run[v],
           WorkerHolds(w)', \A d \in Deliveries : CallsBy(w, d) \/ CallsCounted(d)',
           \A d \in Deliveries : Past(w, d)' =>
               Past(w, d) \/ \A v \in Workers \ {w} : ~Past(v, d)
    PROVE  WebhookInvariant'
<1>1. \A v \in Workers \ {w} : WorkerHolds(v)'
    BY OthersKeep
<1>2. \A v \in Workers \ {w}, d \in Deliveries : Past(v, d)' <=> Past(v, d)
    BY DEF Past, Working
<1>3. OneSender'
    BY <1>2 DEF OneSender, WebhookInvariant
<1>4. ASSUME NEW d \in Deliveries, CallsBy(w, d) PROVE CallsCounted(d)'
    <2>1. \A v \in Workers : AtPost(v, d)' => AtPost(v, d)
        BY <1>2, <1>4 DEF AtPost, CallsBy
    <2>2. \A v \in Workers : Past(v, d) /\ StillMine(v, d) /\ run[v].pc # "post" /\ state'[d] = "pending" =>
               \/ faults' > faults
               \/ Past(v, d)' /\ StillMine(v, d)' /\ run'[v].pc # "post"
        <3>1. SUFFICES ASSUME NEW v \in Workers \ {w}, Past(v, d), StillMine(v, d),
                              run[v].pc # "post", state'[d] = "pending"
                       PROVE  Past(v, d)' /\ StillMine(v, d)' /\ run'[v].pc # "post"
            BY <1>4 DEF CallsBy
        <3>2. run'[v] = run[v]
            OBVIOUS
        <3>3. StillMine(v, d)'
            BY <3>1, <3>2, OthersKeep
        <3> QED
            BY <1>2, <3>1, <3>2, <3>3
    <2>3. faults' \in Nat
        BY DEF Types
    <2>4. calls'[d] = calls[d] /\ (\/ state'[d] = state[d] /\ attempt'[d] = attempt[d]
                                   \/ /\ state'[d] \in Settled \cup {"reading", "aborted"}
                                      /\ (state'[d] = "reading" => state[d] \in Early))
        BY <1>4 DEF CallsBy, Settled
    <2> QED
        BY <2>1, <2>2, <2>3, <2>4, CallsKept
<1> QED
    BY <1>1, <1>3, <1>4 DEF WebhookInvariant

LEMMA WebhookInit == WebhookAssumption /\ Init => WebhookInvariant
<1> SUFFICES ASSUME WebhookAssumption, Init PROVE WebhookInvariant
    OBVIOUS
<1>1. Types
    BY IdleFacts DEF Init, Types, States, WebhookAssumption, Early
<1>2. \A w \in Workers, d \in Deliveries : ~Working(w, d)
    BY DEF Init, Working
<1> QED
    BY <1>1, <1>2 DEF Init, WebhookInvariant, OneSender, WorkerHolds, CallsCounted, Past, AtPost,
           WebhookAssumption

\* Whatever changes rows but no worker.
RowAlone(d) ==
    \/ UNCHANGED <<state[d], due[d], claim[d]>>
    \/ state[d] \in Settled \cup {"pending"} /\ state'[d] \in Settled /\ due'[d] = due[d]
    \/ /\ state[d] \notin Settled \cup {"pending"} /\ due'[d] \in Int
       /\ state'[d] \in {state[d], "reading", "aborted", "pending"}
       /\ state'[d] \in {"reading", "pending"} => state[d] \in Early

LEMMA RowSteps ==
    ASSUME WebhookAssumption, WebhookInvariant,
           \/ \E d \in Deliveries : ReadEndpoints(d) \/ queuePublicEmailEvent(d) \/ Duplicate(d)
           \/ toggleWebhook \/ deleteWebhook
    PROVE  WebhookInvariant'
<1> USE DEF delivery
<1>1. /\ UNCHANGED <<run, calls, attempt, claimAge>>
      /\ faults' = faults \/ faults' = faults + 1
    BY DEF ReadEndpoints, queuePublicEmailEvent, Duplicate, toggleWebhook, deleteWebhook, Fault
<1>2. /\ \A d \in Deliveries : RowAlone(d)
      /\ state' = [d \in Deliveries |-> state'[d]] /\ due' = [d \in Deliveries |-> due'[d]]
      /\ claim' \in [Deliveries -> Workers \cup {Nobody, Dead}]
    <2> USE DEF WebhookInvariant, Types, RowAlone
    <2>1. ASSUME NEW e \in Deliveries, ReadEndpoints(e)
          PROVE  /\ \A d \in Deliveries : RowAlone(d)
                 /\ state' = [d \in Deliveries |-> state'[d]] /\ due' = [d \in Deliveries |-> due'[d]]
                 /\ claim' \in [Deliveries -> Workers \cup {Nobody, Dead}]
        BY <2>1 DEF ReadEndpoints, Early, Settled
    <2>2. ASSUME NEW e \in Deliveries, queuePublicEmailEvent(e)
          PROVE  /\ \A d \in Deliveries : RowAlone(d)
                 /\ state' = [d \in Deliveries |-> state'[d]] /\ due' = [d \in Deliveries |-> due'[d]]
                 /\ claim' \in [Deliveries -> Workers \cup {Nobody, Dead}]
        <3>1. 0 \in Int /\ Skew \in Int
            BY DEF WebhookAssumption
        <3> QED
            BY <2>2, <3>1 DEF queuePublicEmailEvent, Early, Settled
    <2>3. ASSUME NEW e \in Deliveries, Duplicate(e)
          PROVE  /\ \A d \in Deliveries : RowAlone(d)
                 /\ state' = [d \in Deliveries |-> state'[d]] /\ due' = [d \in Deliveries |-> due'[d]]
                 /\ claim' \in [Deliveries -> Workers \cup {Nobody, Dead}]
        BY <2>3 DEF Duplicate
    <2>4. CASE toggleWebhook
        BY <2>4 DEF toggleWebhook, Abandoned, Settled
    <2>5. CASE deleteWebhook
        BY <2>5 DEF deleteWebhook, Settled, States, Early
    <2> QED
        BY <2>1, <2>2, <2>3, <2>4, <2>5
<1>3. \A w \in Workers, d \in Deliveries : /\ Working(w, d)' <=> Working(w, d)
                                           /\ Past(w, d)' <=> Past(w, d)
                                           /\ AtPost(w, d)' <=> AtPost(w, d)
    BY <1>1 DEF Working, Past, AtPost
<1>4. Types'
    BY <1>1, <1>2 DEF WebhookInvariant, Types, RowAlone, Settled, States, Early
<1>5. \A w \in Workers : WorkerHolds(w)'
    <2>1. SUFFICES ASSUME NEW w \in Workers, NEW d \in Deliveries, Working(w, d)
                   PROVE  /\ state'[d] \in Settled \cup {"pending"}
                          /\ Past(w, d) => ClaimHolds(w, d)'
                          /\ run[w].pc = "claim" /\ state'[d] = "pending" =>
                               run[w].try = attempt'[d] + 1 \/ due'[d] + run[w].elapsed > 0
        BY <1>1, <1>3 DEF WorkerHolds
    <2>2. /\ state[d] \in Settled \cup {"pending"}
          /\ Past(w, d) => ClaimHolds(w, d)
          /\ run[w].pc = "claim" /\ state[d] = "pending" =>
               run[w].try = attempt[d] + 1 \/ due[d] + run[w].elapsed > 0
        BY <2>1 DEF WebhookInvariant, WorkerHolds
    <2> QED
        BY <1>1, <1>2, <2>2 DEF RowAlone, ClaimHolds, StillMine, Settled
<1>6. \A d \in Deliveries : CallsCounted(d)'
    <2>1. SUFFICES ASSUME NEW d \in Deliveries PROVE CallsCounted(d)'
        OBVIOUS
    <2>2. calls'[d] = calls[d] /\ attempt'[d] = attempt[d] /\ faults' \in Nat /\ faults' >= faults
        BY <1>1 DEF WebhookInvariant, Types
    <2>3. CASE state'[d] = "pending" /\ state[d] \in Early
        <3>1. calls[d] = 0 /\ \A w \in Workers : ~Past(w, d)
            BY <2>3 DEF WebhookInvariant, WorkerHolds, CallsCounted, Early, Settled, Past
        <3>2. attempt[d] \in Nat /\ MaxAttempts \in Nat
            BY DEF WebhookInvariant, Types, WebhookAssumption
        <3>3. \A w \in Workers : ~AtPost(w, d)'
            BY <1>3, <3>1 DEF AtPost
        <3>4. calls'[d] = 0 /\ attempt'[d] \in Nat
            BY <2>2, <3>1, <3>2
        <3>5. state'[d] \notin Early
            BY <2>3 DEF Early
        <3>6. faults' \in Nat
            BY <2>2
        <3>7. \A m, n \in Nat : 0 <= m + n
            OBVIOUS
        <3>8. calls'[d] <= attempt'[d] + faults' /\ calls'[d] <= MaxAttempts + faults'
            BY <3>2, <3>4, <3>6, <3>7
        <3> QED
            BY <3>3, <3>5, <3>8 DEF CallsCounted
    <2>4. CASE ~(state'[d] = "pending" /\ state[d] \in Early)
        <3>1. \/ state'[d] = state[d]
              \/ state'[d] \in Settled \cup {"reading", "aborted"}
                 /\ (state'[d] = "reading" => state[d] \in Early)
            BY <1>2, <2>4 DEF RowAlone, Settled, Early
        <3>2. \A w \in Workers : StillMine(w, d) /\ state'[d] = "pending" => StillMine(w, d)'
            BY <1>2 DEF RowAlone, StillMine, Settled
        <3> QED
            BY <1>1, <1>3, <2>2, <3>1, <3>2, CallsKept
    <2> QED
        BY <2>3, <2>4
<1> QED
    BY <1>3, <1>4, <1>5, <1>6 DEF WebhookInvariant, OneSender

LEMMA ReceiveStep ==
    ASSUME WebhookAssumption, WebhookInvariant,
           NEW w \in Workers, NEW e \in Deliveries, Receive(w, e)
    PROVE  WebhookInvariant'
<1> USE DEF delivery
<1>1. run[w] = Idle /\ UNCHANGED <<state, attempt, due, claim, claimAge, calls, faults>>
    BY DEF Receive
<1>2. \A d \in Deliveries : ~Working(w, d) /\ ~Past(w, d)
    BY <1>1 DEF Working, Past
<1>3. /\ run' \in [Workers -> Runs] /\ \A v \in Workers \ {w} : run'[v] = run[v]
      /\ \/ run'[w] = Idle
         \/ /\ run'[w].pc = "claim" /\ run'[w].job = e /\ state[e] = "pending"
            /\ run'[w].try = attempt[e] + 1
    <2>1. CASE ToDeliver(e)
        <3>1. attempt[e] + 1 \in 1..MaxAttempts /\ 0 \in Elapsed /\ state[e] = "pending"
            BY <2>1 DEF ToDeliver, WebhookInvariant, Types, WebhookAssumption, Elapsed
        <3>2. [pc |-> "claim", job |-> e, try |-> attempt[e] + 1, elapsed |-> 0] \in Runs
            BY <3>1 DEF Runs, Pcs
        <3>3. Become(w, [pc |-> "claim", job |-> e, try |-> attempt[e] + 1, elapsed |-> 0])
            BY <2>1 DEF Receive
        <3>4. /\ run' \in [Workers -> Runs] /\ \A v \in Workers \ {w} : run'[v] = run[v]
              /\ run'[w] = [pc |-> "claim", job |-> e, try |-> attempt[e] + 1, elapsed |-> 0]
            BY <3>2, <3>3, BecomeFacts DEF WebhookInvariant, Types
        <3> QED
            BY <3>1, <3>4
    <2>2. CASE ~ToDeliver(e)
        BY <1>1, <2>2 DEF Receive, WebhookInvariant, Types
    <2> QED
        BY <2>1, <2>2
<1>4. Types'
    BY <1>1, <1>3 DEF WebhookInvariant, Types
<1>5. WorkerHolds(w)'
    BY <1>1, <1>3 DEF WorkerHolds, Working, Past
<1>6. \A d \in Deliveries : ~Past(w, d)' /\ ~AtPost(w, d)'
    BY <1>3, IdleFacts DEF Past, Working, AtPost
<1>7. \A d \in Deliveries : RowBy(w, d)
    BY <1>1 DEF RowBy
<1>8. \A d \in Deliveries : CallsBy(w, d)
    BY <1>1, <1>2, <1>6 DEF CallsBy
<1>9. faults' >= faults
    BY <1>1 DEF WebhookInvariant, Types
<1> QED
    BY <1>3, <1>4, <1>5, <1>6, <1>7, <1>8, <1>9, ActorStep

\* A worker that is not idle works for one delivery.
LEMMA OneJob ==
    ASSUME run \in [Workers -> Runs], NEW w \in Workers, run[w].pc # "idle"
    PROVE  /\ run[w].job \in Deliveries /\ run[w].try \in 1..MaxAttempts
           /\ run[w].elapsed \in 0..(Timeout - 1)
           /\ \A d \in Deliveries : /\ Working(w, d) <=> d = run[w].job
                                    /\ Past(w, d) <=> d = run[w].job /\ run[w].pc # "claim"
<1>1. run[w] # Idle /\ run[w].job \in Deliveries /\ run[w].try \in 1..MaxAttempts
      /\ run[w].elapsed \in 0..(Timeout - 1)
    BY RunShape DEF Elapsed
<1> QED
    BY <1>1 DEF Working, Past

\* When worker w has become idle.
LEMMA IdleAfter ==
    ASSUME NEW w \in Workers, run'[w] = Idle
    PROVE  WorkerHolds(w)' /\ \A d \in Deliveries : ~Past(w, d)' /\ ~AtPost(w, d)'
BY DEF WorkerHolds, Working, Past, AtPost

\* A worker that goes on keeps its job, its attempt and its clock.
LEMMA AfterGoto ==
    ASSUME run \in [Workers -> Runs], NEW w \in Workers, run[w].pc # "idle",
           NEW pc \in Pcs, Goto(w, pc)
    PROVE  \A d \in Deliveries : /\ Working(w, d)' <=> d = run[w].job
                                 /\ Past(w, d)' <=> d = run[w].job /\ pc # "claim"
                                 /\ AtPost(w, d)' <=> d = run[w].job /\ pc = "post"
BY GotoFacts DEF Working, Past, AtPost, Pcs

LEMMA ClaimStep ==
    ASSUME WebhookAssumption, WebhookInvariant, NEW w \in Workers, Claim(w)
    PROVE  WebhookInvariant'
<1> USE DEF delivery
<1>1. /\ run[w].pc = "claim" /\ run \in [Workers -> Runs]
      /\ UNCHANGED <<state, attempt, due, calls, faults>>
    BY DEF Claim, WebhookInvariant, Types
<1>2. PICK j \in Deliveries : j = run[w].job
    BY <1>1, OneJob
<1>3. faults' >= faults
    BY <1>1 DEF WebhookInvariant, Types
<1>4. \A d \in Deliveries : ~Past(w, d)
    BY <1>1, OneJob
<1>5. CASE Claimable(j, run[w].elapsed)
    <2>1. /\ claim' = [claim EXCEPT ![j] = w] /\ claimAge' = [claimAge EXCEPT ![j] = run[w].elapsed]
          /\ Goto(w, "post")
        BY <1>2, <1>5 DEF Claim
    <2>2. "post" \in Pcs /\ run[w].pc # "idle"
        BY <1>1 DEF Pcs
    <2>3. /\ run' \in [Workers -> Runs] /\ \A v \in Workers \ {w} : run'[v] = run[v]
          /\ run'[w].pc = "post" /\ run'[w].job = j /\ run'[w].try = run[w].try
          /\ run'[w].elapsed = run[w].elapsed
        BY <1>1, <1>2, <2>1, <2>2, GotoFacts
    <2>4. \A d \in Deliveries : /\ Working(w, d)' <=> d = j
                                /\ Past(w, d)' <=> d = j
                                /\ AtPost(w, d)' <=> d = j
        BY <1>1, <1>2, <2>1, <2>2, AfterGoto
    <2>5. run[w].elapsed \in Nat /\ run[w].elapsed \in 0..(Timeout - 1) /\ Timeout \in Nat
        BY <1>1, <2>2, OneJob DEF WebhookAssumption
    <2>6. Types'
        BY <1>1, <2>1, <2>3, <2>5 DEF WebhookInvariant, Types
    <2>7. \A v \in Workers : ~Past(v, j)
        BY <1>5, <2>2, NobodyElse
    <2>8. Working(w, j)
        BY <1>1, <1>2, <2>2, OneJob
    <2>9. state[j] = "pending" /\ due[j] <= -run[w].elapsed
        BY <1>5 DEF Claimable, DueAt
    <2>10. run[w].try = attempt[j] + 1
        <3>1. due[j] \in Int
            BY DEF WebhookInvariant, Types
        <3>2. run[w].try = attempt[j] + 1 \/ due[j] + run[w].elapsed > 0
            BY <1>1, <2>8, <2>9 DEF WebhookInvariant, WorkerHolds
        <3> QED
            BY <2>5, <2>9, <3>1, <3>2
    <2>11. WorkerHolds(w)'
        <3>1. claim'[j] = w /\ claimAge'[j] = run[w].elapsed /\ state'[j] = "pending" /\ attempt'[j] = attempt[j]
            BY <1>1, <2>1, <2>9 DEF WebhookInvariant, Types
        <3>2. ClaimHolds(w, j)'
            BY <2>3, <2>10, <3>1 DEF ClaimHolds, StillMine
        <3> QED
            BY <2>3, <2>4, <3>1, <3>2 DEF WorkerHolds
    <2>12. \A d \in Deliveries : RowBy(w, d)
        BY <1>1, <1>5, <2>1, <2>8 DEF RowBy, WebhookInvariant, Types
    <2>13. \A d \in Deliveries \ {j} : CallsBy(w, d)
        BY <1>1, <1>4, <2>4 DEF CallsBy
    <2>14. CallsCounted(j)'
        <3>1. calls[j] <= attempt[j] + faults /\ attempt[j] < MaxAttempts
            BY <2>7, <2>9 DEF WebhookInvariant, Types, CallsCounted
        <3>2. /\ calls[j] \in Nat /\ attempt[j] \in Nat /\ faults \in Nat /\ MaxAttempts \in Nat
            BY DEF WebhookInvariant, Types, WebhookAssumption
        <3>3. calls[j] < MaxAttempts + faults /\ calls[j] <= MaxAttempts + faults
            BY <3>1, <3>2
        <3>4. state[j] \notin Early
            BY <2>9 DEF Early
        <3> QED
            BY <1>1, <3>1, <3>3, <3>4 DEF CallsCounted
    <2> QED
        BY <1>3, <2>3, <2>6, <2>7, <2>11, <2>12, <2>13, <2>14, <2>4, ActorStep
<1>6. CASE ~Claimable(j, run[w].elapsed)
    <2>1. Become(w, Idle) /\ UNCHANGED <<claim, claimAge>>
        BY <1>2, <1>6 DEF Claim
    <2>2. /\ run' \in [Workers -> Runs] /\ \A v \in Workers \ {w} : run'[v] = run[v]
          /\ run'[w] = Idle
        BY <1>1, <2>1, BecomeFacts, IdleFacts
    <2>3. Types'
        BY <1>1, <2>1, <2>2 DEF WebhookInvariant, Types
    <2>4. \A d \in Deliveries : RowBy(w, d)
        BY <1>1, <2>1 DEF RowBy
    <2>5. WorkerHolds(w)' /\ \A d \in Deliveries : ~Past(w, d)' /\ ~AtPost(w, d)'
        BY <2>2, IdleAfter
    <2>6. \A d \in Deliveries : CallsBy(w, d)
        BY <1>1, <1>4, <2>5 DEF CallsBy
    <2> QED
        BY <1>3, <2>2, <2>3, <2>4, <2>5, <2>6, ActorStep
<1> QED
    BY <1>5, <1>6

LEMMA PostStep ==
    ASSUME WebhookAssumption, WebhookInvariant, NEW w \in Workers, Post(w)
    PROVE  WebhookInvariant'
<1> USE DEF delivery
<1>1. /\ run[w].pc = "post" /\ run \in [Workers -> Runs]
      /\ UNCHANGED <<state, attempt, due, claim, claimAge, faults>>
    BY DEF Post, WebhookInvariant, Types
<1>2. PICK j \in Deliveries : j = run[w].job
    BY <1>1, OneJob
<1>3. PICK pc \in {"accepted", "refused", "failed"}, n \in {0, 1} :
          calls' = [calls EXCEPT ![j] = @ + n] /\ Goto(w, pc)
    BY <1>1, <1>2 DEF Post
<1>4. pc \in Pcs /\ pc # "post" /\ pc # "claim" /\ run[w].pc # "idle"
    BY <1>1 DEF Pcs
<1>5. /\ run' \in [Workers -> Runs] /\ \A v \in Workers \ {w} : run'[v] = run[v]
      /\ run'[w].pc = pc /\ run'[w].job = j /\ run'[w].try = run[w].try
      /\ run'[w].elapsed = run[w].elapsed
    BY <1>1, <1>2, <1>3, <1>4, GotoFacts
<1>6. \A d \in Deliveries : /\ Working(w, d)' <=> d = j
                            /\ Past(w, d)' <=> d = j
                            /\ ~AtPost(w, d)'
    BY <1>1, <1>2, <1>3, <1>4, AfterGoto
<1>7. \A d \in Deliveries : (Working(w, d) <=> d = j) /\ (Past(w, d) <=> d = j)
    BY <1>1, <1>2, <1>4, OneJob
<1>8. /\ calls'[j] \in Nat /\ calls[j] \in Nat /\ calls'[j] <= calls[j] + 1 /\ calls' \in [Deliveries -> Nat]
      /\ \A d \in Deliveries \ {j} : calls'[d] = calls[d]
    BY <1>3 DEF WebhookInvariant, Types
<1>9. Types'
    BY <1>1, <1>5, <1>8 DEF WebhookInvariant, Types
<1>10. /\ state[j] \in Settled \cup {"pending"}
       /\ \/ state[j] \in Settled
          \/ StillMine(w, j) /\ claimAge[j] = run[w].elapsed /\ run[w].try = attempt[j] + 1
    BY <1>1, <1>7 DEF WebhookInvariant, WorkerHolds, ClaimHolds
<1>11. WorkerHolds(w)'
    <2>1. ClaimHolds(w, j)'
        BY <1>1, <1>5, <1>10 DEF ClaimHolds, StillMine
    <2>2. state'[j] \in Settled \cup {"pending"} /\ run'[w].pc # "claim"
        BY <1>1, <1>4, <1>5, <1>10
    <2> QED
        BY <1>6, <2>1, <2>2 DEF WorkerHolds
<1>12. \A d \in Deliveries : RowBy(w, d)
    BY <1>1 DEF RowBy
<1>13. \A d \in Deliveries \ {j} : CallsBy(w, d)
    BY <1>1, <1>6, <1>7, <1>8 DEF CallsBy
<1>14. CallsCounted(j)'
    <2>1. /\ attempt[j] \in Nat /\ faults \in Nat /\ MaxAttempts \in Nat /\ CallsCounted(j)
        BY DEF WebhookInvariant, Types, WebhookAssumption
    <2>2. AtPost(w, j)
        BY <1>1, <1>7 DEF AtPost
    <2>3. calls'[j] <= MaxAttempts + faults
        BY <1>8, <2>1, <2>2 DEF CallsCounted
    <2>4. \A v \in Workers : ~AtPost(v, j)'
        BY <1>5, <1>6, <1>7 DEF AtPost, Past, Working, WebhookInvariant, OneSender
    <2>5. state[j] \notin Early
        BY <1>10 DEF Early, Settled
    <2>6. ASSUME state[j] = "pending"
          PROVE  /\ calls'[j] <= attempt[j] + faults + 1
                 /\ Past(w, j)' /\ StillMine(w, j)' /\ run'[w].pc # "post"
        <3>1. ~ \E v \in Workers : Past(v, j) /\ StillMine(v, j) /\ run[v].pc # "post"
            BY <1>1, <1>7 DEF WebhookInvariant, OneSender
        <3>2. calls[j] <= attempt[j] + faults
            BY <2>1, <2>6, <3>1 DEF CallsCounted
        <3>3. StillMine(w, j)'
            BY <1>1, <1>10, <2>6 DEF StillMine, Settled
        <3> QED
            BY <1>4, <1>5, <1>6, <1>8, <2>1, <3>2, <3>3
    <2> QED
        BY <1>1, <2>3, <2>4, <2>5, <2>6 DEF CallsCounted
<1>15. faults' >= faults
    BY <1>1 DEF WebhookInvariant, Types
<1> QED
    BY <1>5, <1>6, <1>7, <1>9, <1>11, <1>12, <1>13, <1>14, <1>15, ActorStep

LEMMA DeliveredStep ==
    ASSUME WebhookAssumption, WebhookInvariant, NEW w \in Workers, RecordDelivered(w)
    PROVE  WebhookInvariant'
<1> USE DEF delivery
<1>1. /\ run[w].pc = "accepted" /\ run[w].pc # "idle" /\ run \in [Workers -> Runs]
      /\ UNCHANGED <<due, claimAge, calls>> /\ faults \in Nat
    BY DEF RecordDelivered, WebhookInvariant, Types
<1>2. PICK j \in Deliveries : j = run[w].job
    BY <1>1, OneJob
<1>3. /\ \/ faults' = faults /\ Become(w, Idle)
         \/ faults' = faults + 1 /\ Goto(w, "failed")
      /\ \/ /\ StillMine(w, j) /\ state' = [state EXCEPT ![j] = "delivered"]
            /\ attempt' = [attempt EXCEPT ![j] = run[w].try] /\ claim' = [claim EXCEPT ![j] = Nobody]
         \/ /\ ~StillMine(w, j) \/ faults' > faults
            /\ UNCHANGED <<state, attempt, claim>>
    BY <1>1, <1>2 DEF RecordDelivered, NoFault, Fault
<1>4. "failed" \in Pcs
    BY DEF Pcs
<1>5. /\ run' \in [Workers -> Runs] /\ \A v \in Workers \ {w} : run'[v] = run[v]
      /\ \/ run'[w] = Idle
         \/ run'[w].pc = "failed" /\ run'[w].elapsed = run[w].elapsed /\ run'[w].try = run[w].try
    BY <1>1, <1>3, <1>4, GotoFacts, BecomeFacts, IdleFacts
<1>6. \A d \in Deliveries : (Working(w, d) <=> d = j) /\ (Past(w, d) <=> d = j)
    BY <1>1, <1>2, OneJob
<1>7. \A d \in Deliveries : ~AtPost(w, d)' /\ (Working(w, d)' => d = j) /\ (Past(w, d)' => d = j)
    <2>1. CASE Become(w, Idle)
        BY <1>1, <2>1, BecomeFacts, IdleFacts DEF AtPost, Past, Working
    <2>2. CASE Goto(w, "failed")
        BY <1>1, <1>2, <1>4, <2>2, AfterGoto
    <2> QED
        BY <1>3, <2>1, <2>2
<1>8. \/ state[j] \in Settled
      \/ StillMine(w, j) /\ claimAge[j] = run[w].elapsed /\ run[w].try = attempt[j] + 1
    BY <1>1, <1>6 DEF WebhookInvariant, WorkerHolds, ClaimHolds
<1>9. /\ run[w].try \in 1..MaxAttempts /\ run[w].try \in 0..MaxAttempts
    BY <1>1, OneJob DEF WebhookAssumption
<1>10. Types'
    <2>1. \/ UNCHANGED <<state, attempt, claim>>
          \/ /\ state' = [state EXCEPT ![j] = "delivered"] /\ claim' = [claim EXCEPT ![j] = Nobody]
             /\ attempt' = [attempt EXCEPT ![j] = run[w].try]
        BY <1>3
    <2>2. faults' \in Nat
        BY <1>1, <1>3
    <2>3. /\ state' \in [Deliveries -> States] /\ attempt' \in [Deliveries -> 0..MaxAttempts]
          /\ claim' \in [Deliveries -> Workers \cup {Nobody, Dead}]
        BY <1>9, <2>1 DEF WebhookInvariant, Types, States
    <2>4. \A d \in Deliveries : state'[d] \in Early \cup {"pending"} => attempt'[d] < MaxAttempts
        BY <2>1 DEF WebhookInvariant, Types, Early
    <2> QED
        BY <1>1, <1>5, <2>2, <2>3, <2>4 DEF WebhookInvariant, Types
<1>11. /\ \A d \in Deliveries \ {j} : UNCHANGED <<state[d], attempt[d], due[d], claim[d], claimAge[d]>>
       /\ \/ StillMine(w, j) /\ state'[j] = "delivered" 
          \/ /\ ~StillMine(w, j) \/ faults' > faults
             /\ UNCHANGED <<state[j], attempt[j], due[j], claim[j], claimAge[j]>>
    BY <1>1, <1>3 DEF WebhookInvariant, Types
<1>12. \A d \in Deliveries : RowBy(w, d)
    BY <1>11 DEF RowBy, Settled, StillMine
<1>13. WorkerHolds(w)'
    <2>1. state'[j] \in Settled \cup {"pending"} /\ (run'[w] # Idle => ClaimHolds(w, j)')
        BY <1>5, <1>8, <1>11 DEF ClaimHolds, StillMine, Settled
    <2> QED
        BY <1>5, <1>7, <2>1, IdleAfter DEF WorkerHolds, Working
<1>14. \A d \in Deliveries : CallsBy(w, d)
    BY <1>1, <1>6, <1>7, <1>11 DEF CallsBy, Settled
<1>15. faults' >= faults
    BY <1>1, <1>3
<1> QED
    BY <1>5, <1>6, <1>7, <1>10, <1>12, <1>13, <1>14, <1>15, ActorStep

LEMMA FailureStep ==
    ASSUME WebhookAssumption, WebhookInvariant, NEW w \in Workers,
           recordExpectedFailure(w)
    PROVE  WebhookInvariant'
<1> USE DEF delivery
<1>1. /\ run[w].pc \in {"refused", "failed"} /\ run[w].pc # "idle" /\ run \in [Workers -> Runs]
      /\ UNCHANGED <<claimAge, calls>> /\ faults \in Nat
    BY DEF recordExpectedFailure, WebhookInvariant, Types
<1>2. PICK j \in Deliveries : j = run[w].job
    BY <1>1, OneJob
<1>3. PICK n \in 1..MaxAttempts : n = run[w].try
    BY <1>1, OneJob
<1>4. /\ \/ Become(w, Idle)
         \/ Goto(w, "failed")
      /\ faults' = faults \/ faults' = faults + 1
      /\ \/ /\ ~StillMine(w, j) \/ faults' > faults
            /\ UNCHANGED <<state, due, attempt, claim>>
         \/ /\ StillMine(w, j) /\ claim' = [claim EXCEPT ![j] = Nobody]
            /\ attempt' = [attempt EXCEPT ![j] = n]
            /\ \/ state' = [state EXCEPT ![j] = "terminal"] /\ UNCHANGED due
               \/ ~Terminal(n) /\ due' = [due EXCEPT ![j] = NextDue(w)] /\ UNCHANGED state
    <2>1. \/ NoFault /\ Become(w, Idle)
          \/ Fault /\ (Become(w, Idle) \/ Goto(w, "failed"))
        BY DEF recordExpectedFailure
    <2>2. \/ /\ ~StillMine(w, j) \/ Fault
             /\ UNCHANGED <<state, due, attempt, claim>>
          \/ /\ StillMine(w, j) /\ claim' = [claim EXCEPT ![j] = Nobody]
             /\ attempt' = [attempt EXCEPT ![j] = n]
             /\ \/ state' = [state EXCEPT ![j] = "terminal"] /\ UNCHANGED due
                \/ ~Terminal(n) /\ due' = [due EXCEPT ![j] = NextDue(w)] /\ UNCHANGED state
        <3>1. CASE ~StillMine(w, j)
            BY <1>2, <3>1 DEF recordExpectedFailure
        <3>2. CASE StillMine(w, j) /\ Terminal(n)
            BY <1>2, <1>3, <3>2 DEF recordExpectedFailure
        <3>3. CASE StillMine(w, j) /\ ~Terminal(n)
            BY <1>2, <1>3, <3>3 DEF recordExpectedFailure
        <3> QED
            BY <3>1, <3>2, <3>3
    <2>3. (Fault => faults' = faults + 1 /\ faults' > faults) /\ (NoFault => faults' = faults)
        BY <1>1 DEF Fault, NoFault
    <2> QED
        BY <2>1, <2>2, <2>3
<1>5. "failed" \in Pcs
    BY DEF Pcs
<1>6. /\ run' \in [Workers -> Runs] /\ \A v \in Workers \ {w} : run'[v] = run[v]
      /\ \/ run'[w] = Idle
         \/ run'[w].pc = "failed" /\ run'[w].elapsed = run[w].elapsed /\ run'[w].try = run[w].try
    BY <1>1, <1>4, <1>5, GotoFacts, BecomeFacts, IdleFacts
<1>7. \A d \in Deliveries : (Working(w, d) <=> d = j) /\ (Past(w, d) <=> d = j)
    BY <1>1, <1>2, OneJob
<1>8. \A d \in Deliveries : ~AtPost(w, d)' /\ (Working(w, d)' => d = j) /\ (Past(w, d)' => d = j)
    <2>1. CASE Become(w, Idle)
        BY <1>1, <2>1, BecomeFacts, IdleFacts DEF AtPost, Past, Working
    <2>2. CASE Goto(w, "failed")
        BY <1>1, <1>2, <1>5, <2>2, AfterGoto
    <2> QED
        BY <1>4, <2>1, <2>2
<1>9. ClaimHolds(w, j)
    BY <1>7 DEF WebhookInvariant, WorkerHolds
<1>10. StillMine(w, j) => n = attempt[j] + 1
    BY <1>3, <1>9 DEF ClaimHolds, StillMine, Settled, WebhookAssumption
<1>11. ~Terminal(n) => /\ n < MaxAttempts /\ NextDue(w) \in Int
                       /\ NextDue(w) + run[w].elapsed >= Timeout
    <2>1. SUFFICES ASSUME ~Terminal(n)
                   PROVE  /\ n < MaxAttempts /\ NextDue(w) \in Int
                          /\ NextDue(w) + run[w].elapsed >= Timeout
        OBVIOUS
    <2>2. n \in 1..(MaxAttempts - 1) /\ n < MaxAttempts
        BY <2>1 DEF Terminal, WebhookAssumption
    <2>3. RetryDelay[n] \in Nat /\ RetryDelay[n] >= Timeout /\ Timeout \in Nat
        BY <2>2 DEF WebhookAssumption
    <2>4. run[w].elapsed \in Nat
        BY <1>1, OneJob DEF WebhookAssumption
    <2> QED
        BY <1>3, <2>2, <2>3, <2>4 DEF NextDue
<1>12. /\ \A d \in Deliveries \ {j} : UNCHANGED <<state[d], attempt[d], due[d], claim[d], claimAge[d]>>
       /\ \/ /\ ~StillMine(w, j) \/ faults' > faults
             /\ UNCHANGED <<state[j], attempt[j], due[j], claim[j], claimAge[j]>>
          \/ StillMine(w, j) /\ state'[j] = "terminal"
          \/ /\ StillMine(w, j) /\ state'[j] = "pending" /\ claim'[j] = Nobody /\ attempt'[j] = n
             /\ due'[j] \in Int /\ due'[j] + run[w].elapsed >= Timeout
    BY <1>1, <1>4, <1>11 DEF WebhookInvariant, Types, StillMine
<1>13. Types'
    <2>1. n \in 0..MaxAttempts
        BY DEF WebhookAssumption
    <2> QED
        BY <1>1, <1>4, <1>6, <1>11, <2>1 DEF WebhookInvariant, Types, States, Early
<1>14. \A d \in Deliveries : RowBy(w, d)
    BY <1>7, <1>12 DEF RowBy, Settled, StillMine
<1>15. WorkerHolds(w)'
    <2>1. state'[j] \in Settled \cup {"pending"} /\ (run'[w] # Idle => ClaimHolds(w, j)')
        <3>1. state[j] \in Settled \cup {"pending"}
            BY <1>7 DEF WebhookInvariant, WorkerHolds
        <3>2. CASE run'[w] = Idle
            BY <1>12, <3>1, <3>2 DEF Settled
        <3>3. CASE run'[w].pc = "failed" /\ run'[w].elapsed = run[w].elapsed /\ run'[w].try = run[w].try
            BY <1>1, <1>9, <1>12, <3>1, <3>3 DEF ClaimHolds, StillMine, Settled
        <3> QED
            BY <1>6, <3>2, <3>3
    <2> QED
        BY <1>6, <1>8, <2>1, IdleAfter DEF WorkerHolds, Working
<1>16. \A d \in Deliveries : CallsBy(w, d) \/ CallsCounted(d)'
    <2>1. ASSUME state'[j] = "pending", StillMine(w, j), attempt'[j] = n PROVE CallsCounted(j)'
        <3>1. /\ attempt[j] \in Nat /\ calls[j] \in Nat /\ MaxAttempts \in Nat /\ CallsCounted(j)
              /\ faults' \in Nat /\ faults' >= faults /\ faults \in Nat /\ n = attempt[j] + 1
            BY <1>1, <1>4, <1>10, <2>1 DEF WebhookInvariant, Types, WebhookAssumption
        <3>2. calls[j] <= attempt[j] + faults + 1 /\ calls[j] <= MaxAttempts + faults
            BY <2>1, <3>1 DEF CallsCounted, StillMine
        <3>3. calls[j] <= n + faults' /\ calls[j] <= MaxAttempts + faults'
            BY <3>1, <3>2
        <3>4. \A v \in Workers : ~AtPost(v, j)'
            BY <1>6, <1>7, <1>8 DEF AtPost, Past, Working, WebhookInvariant, OneSender
        <3>5. state'[j] \notin Early
            BY <2>1 DEF Early
        <3> QED
            BY <1>1, <2>1, <3>3, <3>4, <3>5 DEF CallsCounted
    <2> QED
        BY <1>1, <1>7, <1>8, <1>12, <2>1 DEF CallsBy, Settled
<1>17. faults' >= faults
    BY <1>1, <1>4
<1> QED
    BY <1>6, <1>7, <1>8, <1>13, <1>14, <1>15, <1>16, <1>17, ActorStep

LEMMA CrashStep ==
    ASSUME WebhookAssumption, WebhookInvariant, NEW w \in Workers, Crash(w)
    PROVE  WebhookInvariant'
<1>1. /\ UNCHANGED <<state, attempt, due, claimAge, calls>> /\ faults' = faults + 1 /\ faults \in Nat
      /\ claim' = [d \in Deliveries |-> IF claim[d] = w THEN Dead ELSE claim[d]]
      /\ Become(w, Idle) /\ run \in [Workers -> Runs]
    BY DEF Crash, Fault, WebhookInvariant, Types
<1>2. /\ run' \in [Workers -> Runs] /\ \A v \in Workers \ {w} : run'[v] = run[v]
      /\ run'[w] = Idle
    BY <1>1, BecomeFacts, IdleFacts
<1>3. Types'
    BY <1>1, <1>2 DEF WebhookInvariant, Types
<1>4. \A d \in Deliveries : RowBy(w, d)
    BY <1>1 DEF RowBy
<1>5. WorkerHolds(w)' /\ \A d \in Deliveries : ~Past(w, d)' /\ ~AtPost(w, d)'
    BY <1>2, IdleAfter
<1>6. \A d \in Deliveries : CallsBy(w, d)
    BY <1>1, <1>5 DEF CallsBy
<1> QED
    BY <1>1, <1>2, <1>3, <1>4, <1>5, <1>6, ActorStep

LEMMA TickStep ==
    ASSUME WebhookAssumption, WebhookInvariant, Tick
    PROVE  WebhookInvariant'
<1>1. UNCHANGED <<state, attempt, claim, calls, faults>> /\ run \in [Workers -> Runs]
    BY DEF Tick, WebhookInvariant, Types
<1>2. \A w \in Workers :
        /\ run[w].pc = "idle" => run'[w] = Idle
        /\ run[w].pc # "idle" => /\ run'[w] \in Runs /\ run'[w] # Idle /\ run'[w].pc = run[w].pc
                                 /\ run'[w].job = run[w].job /\ run'[w].try = run[w].try
                                 /\ run'[w].elapsed = run[w].elapsed + 1
    <2>1. SUFFICES ASSUME NEW w \in Workers, run[w].pc # "idle"
                   PROVE  /\ run'[w] \in Runs /\ run'[w] # Idle /\ run'[w].pc = run[w].pc
                          /\ run'[w].job = run[w].job /\ run'[w].try = run[w].try
                          /\ run'[w].elapsed = run[w].elapsed + 1
        BY <1>1, RunShape DEF Tick
    <2>2. /\ run[w] \in [pc : Pcs, job : Deliveries, try : 1..MaxAttempts, elapsed : Elapsed]
          /\ run[w] # Idle /\ run[w].pc \in Pcs
        BY <1>1, <2>1, RunShape
    <2>3. run'[w] = [run[w] EXCEPT !.elapsed = @ + 1] /\ run[w].elapsed + 1 < Timeout
        BY <2>2 DEF Tick
    <2>4. run[w].elapsed + 1 \in Elapsed
        BY <2>2, <2>3 DEF Elapsed, WebhookAssumption
    <2>5. run'[w] \in [pc : Pcs, job : Deliveries, try : 1..MaxAttempts, elapsed : Elapsed]
          /\ run'[w].pc = run[w].pc /\ run'[w].job = run[w].job /\ run'[w].try = run[w].try
          /\ run'[w].elapsed = run[w].elapsed + 1
        BY <2>2, <2>3, <2>4
    <2> QED
        BY <2>1, <2>5, IdleFacts DEF Runs
<1>3. run' \in [Workers -> Runs]
    BY <1>1, <1>2, IdleFacts DEF Tick
<1>4. \A w \in Workers, d \in Deliveries : /\ Working(w, d)' <=> Working(w, d)
                                           /\ Past(w, d)' <=> Past(w, d)
                                           /\ AtPost(w, d)' <=> AtPost(w, d)
    BY <1>1, <1>2, RunShape DEF Working, Past, AtPost
<1>5. /\ Timeout \in Nat /\ Lease \in Nat /\ OldAge = Lease + Timeout + 1
    BY DEF WebhookAssumption, OldAge
<1>6. Types'
    <2>1. due' \in [Deliveries -> Int]
        BY <1>5 DEF Tick, WebhookInvariant, Types
    <2>2. claimAge' \in [Deliveries -> Nat]
        BY <1>5 DEF Tick, WebhookInvariant, Types
    <2> QED
        BY <1>1, <1>3, <2>1, <2>2 DEF WebhookInvariant, Types
<1>7. ASSUME NEW w \in Workers PROVE WorkerHolds(w)'
    <2>1. SUFFICES ASSUME NEW d \in Deliveries, Working(w, d)
                   PROVE  /\ state[d] \in Settled \cup {"pending"}
                          /\ Past(w, d) => ClaimHolds(w, d)'
                          /\ run[w].pc = "claim" /\ state[d] = "pending" =>
                               run[w].try = attempt[d] + 1 \/ due'[d] + (run[w].elapsed + 1) > 0
        <3>1. \A d \in Deliveries : Working(w, d)' => Working(w, d)
            BY <1>4
        <3> QED
            BY <1>1, <1>2, <1>4 DEF WorkerHolds, Working, Idle
    <2>2. /\ state[d] \in Settled \cup {"pending"}
          /\ Past(w, d) => ClaimHolds(w, d)
          /\ run[w].pc = "claim" /\ state[d] = "pending" =>
               run[w].try = attempt[d] + 1 \/ due[d] + run[w].elapsed > 0
        BY <2>1 DEF WebhookInvariant, WorkerHolds
    <2>3. /\ run[w].pc # "idle" /\ run[w].elapsed \in 0..(Timeout - 1) /\ due[d] \in Int
          /\ claimAge[d] \in Nat
        BY <1>1, <2>1, RunShape DEF Working, Elapsed, WebhookInvariant, Types
    <2>4. /\ run'[w].pc = run[w].pc /\ run'[w].try = run[w].try /\ run'[w].elapsed = run[w].elapsed + 1
        BY <1>2, <2>3
    <2>5. due[d] + run[w].elapsed >= 0 => due'[d] + (run[w].elapsed + 1) = due[d] + run[w].elapsed
        <3>1. due'[d] = IF due[d] > -Timeout THEN due[d] - 1 ELSE due[d]
            BY DEF Tick
        <3>2. run[w].elapsed \in Int /\ run[w].elapsed < Timeout
            BY <1>5, <2>3
        <3> QED
            BY <1>5, <2>3, <3>1, <3>2
    <2>6. claim[d] # Nobody /\ claimAge[d] = run[w].elapsed => claimAge'[d] = run[w].elapsed + 1
        BY <1>5, <2>3 DEF Tick
    <2>7. w # Nobody
        BY DEF WebhookAssumption
    <2>8. Past(w, d) => ClaimHolds(w, d)'
        BY <1>1, <1>5, <2>2, <2>3, <2>4, <2>5, <2>6, <2>7 DEF ClaimHolds, StillMine
    <2> QED
        BY <2>2, <2>3, <2>5, <2>8
<1>8. ASSUME NEW d \in Deliveries PROVE CallsCounted(d)'
    <2>1. \A w \in Workers : Past(w, d) => run'[w].pc = run[w].pc
        BY <1>1, <1>2, RunShape DEF Past, Working
    <2>2. \A w \in Workers : StillMine(w, d)' <=> StillMine(w, d)
        BY <1>1 DEF StillMine
    <2>3. faults' \in Nat /\ faults' >= faults
        BY <1>1 DEF WebhookInvariant, Types
    <2> QED
        BY <1>1, <1>4, <2>1, <2>2, <2>3, CallsKept
<1> QED
    BY <1>4, <1>6, <1>7, <1>8 DEF WebhookInvariant, OneSender

LEMMA WebhookStep ==
    ASSUME WebhookAssumption, WebhookInvariant, [Next]_vars
    PROVE  WebhookInvariant'
<1>1. ASSUME \/ \E d \in Deliveries : ReadEndpoints(d) \/ queuePublicEmailEvent(d) \/ Duplicate(d)
             \/ toggleWebhook \/ deleteWebhook
      PROVE  WebhookInvariant'
    BY <1>1, RowSteps
<1>2. ASSUME NEW w \in Workers, NEW d \in Deliveries, Receive(w, d) PROVE WebhookInvariant'
    BY <1>2, ReceiveStep
<1>3. ASSUME NEW w \in Workers, Step(w) PROVE WebhookInvariant'
    BY <1>3, ClaimStep, PostStep, DeliveredStep, FailureStep DEF Step
<1>4. ASSUME NEW w \in Workers, Crash(w) PROVE WebhookInvariant'
    BY <1>4, CrashStep
<1>5. CASE Tick
    BY <1>5, TickStep
<1>6. CASE UNCHANGED vars
    BY <1>6 DEF vars, delivery, WebhookInvariant, Types, OneSender, WorkerHolds, ClaimHolds, CallsCounted,
                Working, Past, StillMine, AtPost
<1> QED
    BY <1>1, <1>2, <1>3, <1>4, <1>5, <1>6 DEF Next

\* What is pending has been sent as often as its row counts, plus the faults
\* and the worker that is about to count.
LEMMA CallsFollow ==
    ASSUME WebhookAssumption, WebhookInvariant
    PROVE  CallsAreBounded
<1>1. SUFFICES ASSUME NEW d \in Deliveries
               PROVE  /\ calls[d] <= MaxAttempts + faults
                      /\ state[d] = "pending" =>
                           calls[d] <= attempt[d] + faults + Cardinality({w \in Workers : Past(w, d)})
    BY DEF CallsAreBounded
<1>2. /\ calls[d] \in Nat /\ attempt[d] \in Nat /\ faults \in Nat /\ CallsCounted(d)
    BY DEF WebhookInvariant, Types, WebhookAssumption
<1>3. PICK S : S = {w \in Workers : Past(w, d)}
    OBVIOUS
<1>4. IsFiniteSet(S) /\ Cardinality(S) \in Nat
    BY <1>3, FS_Subset, FS_CardinalityType DEF WebhookAssumption
<1>5. (\E w \in Workers : Past(w, d)) => Cardinality(S) >= 1
    <2>1. (\E w \in Workers : Past(w, d)) => Cardinality(S) # 0
        BY <1>3, <1>4, FS_EmptySet
    <2> QED
        BY <1>4, <2>1
<1>6. calls[d] <= MaxAttempts + faults
    BY <1>2 DEF CallsCounted
<1>7. ASSUME state[d] = "pending"
      PROVE  calls[d] <= attempt[d] + faults + Cardinality(S)
    BY <1>2, <1>4, <1>5, <1>7 DEF CallsCounted
<1> QED
    BY <1>3, <1>6, <1>7

(* The inductive invariant.                                                *)
THEOREM WebhookHolds ==
    ASSUME WebhookAssumption
    PROVE  Spec => []WebhookInvariant
<1>1. Init => WebhookInvariant
    BY WebhookInit
<1>2. WebhookInvariant /\ [Next]_vars => WebhookInvariant'
    BY WebhookStep
<1> QED
    BY <1>1, <1>2, PTL DEF Spec

(* However many workers run, crash and repeat each other's messages, no    *)
(* two of them talk to the customer about the same event.                  *)
THEOREM SendersAreAlone ==
    ASSUME WebhookAssumption
    PROVE  Spec => []OneSender
<1>1. WebhookInvariant => OneSender
    BY DEF WebhookInvariant
<1> QED
    BY <1>1, WebhookHolds, PTL

(* A worker that still holds its claim counts the attempt it made: neither *)
(* an attempt is lost nor one is counted twice.                            *)
THEOREM AttemptsAreCurrent ==
    ASSUME WebhookAssumption
    PROVE  Spec => []AttemptIsCurrent
<1>1. WebhookInvariant => AttemptIsCurrent
    BY DEF WebhookInvariant, Types, WorkerHolds, ClaimHolds, AttemptIsCurrent, StillMine, Past, Settled,
           WebhookAssumption
<1> QED
    BY <1>1, WebhookHolds, PTL

(* A customer gets an event at most MaxAttempts times and once more for    *)
(* each crash, failed transaction or repeated message.                     *)
THEOREM CallsStayBounded ==
    ASSUME WebhookAssumption
    PROVE  Spec => []CallsAreBounded
<1>1. WebhookInvariant => CallsAreBounded
    BY CallsFollow
<1> QED
    BY <1>1, WebhookHolds, PTL
\* What a step may do to a delivery.
Moves(d) ==
    /\ state[d] \in {"delivered", "terminal"} =>
         state'[d] \in {state[d], "deleted"} /\ attempt'[d] = attempt[d]
    /\ attempt'[d] \in {attempt[d], attempt[d] + 1}
    /\ claim'[d] # claim[d] /\ claim'[d] \in Workers => due[d] <= 0

LEMMA RowsMove ==
    ASSUME WebhookAssumption, Types, NEW d \in Deliveries,
           \/ \E e \in Deliveries : ReadEndpoints(e) \/ queuePublicEmailEvent(e) \/ Duplicate(e)
           \/ toggleWebhook \/ deleteWebhook \/ Tick \/ UNCHANGED vars
    PROVE  Moves(d)
<1> USE DEF Types, Moves, delivery, WebhookAssumption
<1>1. ASSUME NEW e \in Deliveries, ReadEndpoints(e) \/ queuePublicEmailEvent(e) \/ Duplicate(e) PROVE Moves(d)
    BY <1>1 DEF ReadEndpoints, queuePublicEmailEvent, Duplicate
<1>2. CASE toggleWebhook
    BY <1>2 DEF toggleWebhook, Abandoned
<1>3. CASE deleteWebhook
    BY <1>3 DEF deleteWebhook
<1>4. CASE Tick
    BY <1>4 DEF Tick
<1>5. CASE UNCHANGED vars
    BY <1>5 DEF vars
<1> QED
    BY <1>1, <1>2, <1>3, <1>4, <1>5

\* A worker claims what is due, and settles what is its own.
LEMMA WorkersMove ==
    ASSUME WebhookAssumption, WebhookInvariant, NEW w \in Workers, NEW d \in Deliveries,
           \/ \E e \in Deliveries : Receive(w, e)
           \/ Step(w) \/ Crash(w)
    PROVE  Moves(d)
<1> USE DEF WebhookInvariant, Types, Moves, delivery
<1>1. CASE (\E e \in Deliveries : Receive(w, e)) \/ Post(w)
    BY <1>1 DEF Receive, Post
<1>2. CASE Crash(w)
    BY <1>2 DEF Crash, WebhookAssumption
<1>3. CASE Claim(w)
    <2>1. /\ run[w].pc = "claim" /\ run[w].pc # "idle"
          /\ state' = state /\ attempt' = attempt
          /\ \/ claim' = claim
             \/ Claimable(run[w].job, run[w].elapsed) /\ claim' = [claim EXCEPT ![run[w].job] = w]
        BY <1>3 DEF Claim
    <2>2. run[w].elapsed \in Nat /\ run[w].job \in Deliveries
        BY <2>1, OneJob, RunShape DEF Elapsed, WebhookAssumption
    <2>3. Claimable(run[w].job, run[w].elapsed) => due[run[w].job] <= 0
        BY <2>2 DEF Claimable, DueAt
    <2> QED
        BY <2>1, <2>2, <2>3
<1>4. CASE RecordDelivered(w) \/ recordExpectedFailure(w)
    <2>1. run[w].pc # "idle" /\ run[w].pc # "claim"
        BY <1>4 DEF RecordDelivered, recordExpectedFailure
    <2>2. PICK j \in Deliveries : j = run[w].job
        BY <2>1, OneJob
    <2>3. ClaimHolds(w, j)
        BY <2>1, <2>2, OneJob DEF WorkerHolds
    <2>4. StillMine(w, j) => run[w].try = attempt[j] + 1 /\ state[j] = "pending"
        BY <2>3 DEF ClaimHolds, StillMine, Settled, WebhookAssumption
    <2>5. \/ UNCHANGED <<state, attempt, claim>>
          \/ /\ StillMine(w, j) /\ claim' = [claim EXCEPT ![j] = Nobody]
             /\ attempt' = [attempt EXCEPT ![j] = run[w].try]
             /\ \A e \in Deliveries \ {j} : state'[e] = state[e]
        <3>1. CASE RecordDelivered(w)
            BY <2>2, <3>1 DEF RecordDelivered
        <3>2. CASE recordExpectedFailure(w) /\ ~StillMine(w, j)
            BY <2>2, <3>2 DEF recordExpectedFailure
        <3>3. CASE recordExpectedFailure(w) /\ StillMine(w, j)
            BY <2>2, <3>3 DEF recordExpectedFailure
        <3> QED
            BY <1>4, <3>1, <3>2, <3>3
    <2> QED
        BY <2>4, <2>5 DEF WebhookAssumption
<1> QED
    BY <1>1, <1>2, <1>3, <1>4 DEF Step

(* What is settled stays as it is, every attempt is counted, and nothing   *)
(* is tried before its time: each of these by what the worker still holds  *)
(* when it writes (deliver-webhook.ts).                                    *)
THEOREM SettledForGood ==
    ASSUME WebhookAssumption
    PROVE  Spec => [][SettledIsFinal /\ NotBeforeDue]_vars
<1>1. WebhookInvariant /\ [Next]_vars => SettledIsFinal /\ NotBeforeDue
    <2> SUFFICES ASSUME WebhookInvariant, [Next]_vars PROVE \A d \in Deliveries : Moves(d)
        BY DEF Moves, SettledIsFinal, NotBeforeDue
    <2> TAKE d \in Deliveries
    <2> QED
        BY RowsMove, WorkersMove DEF Next, WebhookInvariant
<1> QED
    BY <1>1, WebhookHolds, PTL DEF Spec
-----------------------------------------------------------------------------
\* A finite set of numbers has a largest: the number of those not above it
\* is that of the set.
LEMMA LargestExists ==
    ASSUME NEW S \in SUBSET Int, IsFiniteSet(S), S # {}
    PROVE  \E n \in S : \A k \in S : k <= n
<1> DEFINE c        == Cardinality(S)
           upTo(x)  == {y \in S : y <= x}
           f        == [x \in S |-> Cardinality(upTo(x))]
<1>1. c \in Nat /\ c # 0
    BY FS_CardinalityType, FS_EmptySet
<1>2. ASSUME NEW x \in S
      PROVE  IsFiniteSet(upTo(x)) /\ Cardinality(upTo(x)) \in 1..c /\ x \in upTo(x)
    <2>1. upTo(x) \in SUBSET S /\ x \in upTo(x)
        OBVIOUS
    <2>2. IsFiniteSet(upTo(x)) /\ Cardinality(upTo(x)) <= c /\ Cardinality(upTo(x)) \in Nat
        BY <2>1, FS_Subset, FS_CardinalityType
    <2>3. Cardinality(upTo(x)) # 0
        BY <2>1, <2>2, FS_EmptySet
    <2> QED
        BY <1>1, <2>1, <2>2, <2>3
<1>3. ASSUME NEW x \in S, NEW y \in S, x < y
      PROVE  f[x] # f[y]
    <2>0. /\ x \in Int /\ y \in Int /\ ~(y <= x) /\ y <= y
          /\ \A z \in S : z <= x => z <= y
        BY <1>3
    <2>1. upTo(x) \in SUBSET upTo(y) /\ y \notin upTo(x) /\ y \in upTo(y)
        <3>1. \A z \in upTo(x) : z \in upTo(y)
            BY <2>0
        <3>2. y \notin upTo(x) /\ y \in upTo(y)
            BY <2>0
        <3> QED
            BY <3>1, <3>2
    <2>2. upTo(x) # upTo(y)
        BY <2>1
    <2>3. IsFiniteSet(upTo(y))
        BY <1>2
    <2> HIDE DEF upTo
    <2>4. Cardinality(upTo(x)) # Cardinality(upTo(y))
        BY <2>1, <2>2, <2>3, FS_Subset
    <2> QED
        BY <2>4
<1>4. \A x \in S : f[x] \in 1..c
    BY <1>2
<1>5. \A x, y \in S : x # y => f[x] # f[y]
    <2>1. \A x, y \in S : x # y => x < y \/ y < x
        OBVIOUS
    <2> HIDE DEF f
    <2> QED
        BY <1>3, <2>1
<1>6. f \in Injection(S, 1..c)
    BY <1>4, <1>5 DEF Injection, IsInjective
<1>7. f \in Surjection(S, 1..c)
    BY <1>1, <1>6, FS_Interval, FS_Injection
<1>8. PICK n \in S : f[n] = c
    <2> HIDE DEF f
    <2>1. c \in 1..c
        BY <1>1
    <2> QED
        BY <1>7, <2>1 DEF Surjection
<1>9. upTo(n) = S
    BY <1>8, FS_Subset
<1> QED
    BY <1>9

LEMMA MaxDueIs ==
    ASSUME WebhookAssumption
    PROVE  /\ MaxDue \in Nat /\ Skew <= MaxDue
           /\ \A n \in 1..(MaxAttempts - 1) : RetryDelay[n] \in Nat /\ RetryDelay[n] <= MaxDue
<1>1. Delays \cup {Skew} \in SUBSET Nat /\ Delays \cup {Skew} # {}
    BY DEF Delays, WebhookAssumption
<1>2. IsFiniteSet(Delays \cup {Skew})
    <2>1. IsFiniteSet(1..(MaxAttempts - 1))
        BY FS_Interval DEF WebhookAssumption
    <2>2. RetryDelay \in Surjection(1..(MaxAttempts - 1), Delays)
        BY DEF Surjection, Delays, WebhookAssumption
    <2>3. IsFiniteSet(Delays)
        BY <2>1, <2>2, FS_Surjection
    <2> QED
        BY <2>3, FS_AddElement
<1>3. \E n \in Delays \cup {Skew} : \A k \in Delays \cup {Skew} : k <= n
    BY <1>1, <1>2, LargestExists
<1>4. MaxDue \in Delays \cup {Skew} /\ \A k \in Delays \cup {Skew} : k <= MaxDue
    BY <1>3 DEF MaxDue
<1> QED
    BY <1>1, <1>4 DEF Delays, WebhookAssumption

\* What TypeOK says beyond Types.
Bounds ==
    /\ endpoint \in {"enabled", "disabled", "deleted"}
    /\ due \in [Deliveries -> (-Timeout)..MaxDue]
    /\ claimAge \in [Deliveries -> 0..OldAge]
    /\ queue \in [Deliveries -> Seq(Nat)]
    /\ faults \in 0..MaxFaults

LEMMA SequencesOfNat ==
    /\ \A s \in Seq(Nat), n \in Nat : Append(s, n) \in Seq(Nat) /\ <<n>> \in Seq(Nat)
    /\ <<>> \in Seq(Nat) /\ \A s, t \in Seq(Nat) : s \o t \in Seq(Nat)
    /\ \A s \in Seq(Nat), i \in Nat : i \in 1..Len(s) => RemoveAt(s, i) \in Seq(Nat)
    /\ \A s \in Seq(Nat) : DOMAIN s = 1..Len(s) /\ \A i \in 1..Len(s) : s[i] \in Nat
<1>1. ASSUME NEW s \in Seq(Nat), NEW i \in 1..Len(s) PROVE RemoveAt(s, i) \in Seq(Nat)
    <2>1. SubSeq(s, 1, i - 1) \in Seq(Nat)
        OBVIOUS
    <2>2. SubSeq(s, i + 1, Len(s)) \in Seq(Nat)
        OBVIOUS
    <2> QED
        BY <2>1, <2>2 DEF RemoveAt
<1> QED
    BY <1>1

LEMMA BoundsInit ==
    ASSUME WebhookAssumption, Init
    PROVE  Bounds
BY MaxDueIs, SequencesOfNat DEF Init, Bounds, OldAge, WebhookAssumption

\* What the helpers keep.
LEMMA PublishKeeps ==
    ASSUME queue \in [Deliveries -> Seq(Nat)], NEW d \in Deliveries, NEW n \in Nat, Publish(d, n)
    PROVE  queue' \in [Deliveries -> Seq(Nat)]
<1>1. Append(queue[d], n) \in Seq(Nat)
    BY SequencesOfNat
<1> QED
    BY <1>1 DEF Publish

LEMMA FaultKeeps ==
    ASSUME WebhookAssumption, faults \in 0..MaxFaults, Fault \/ NoFault
    PROVE  faults' \in 0..MaxFaults
BY DEF Fault, NoFault, WebhookAssumption

LEMMA BoundsOfRows ==
    ASSUME WebhookAssumption, Bounds,
           \/ \E d \in Deliveries : ReadEndpoints(d) \/ queuePublicEmailEvent(d) \/ Duplicate(d)
           \/ toggleWebhook \/ deleteWebhook
    PROVE  Bounds'
<1> USE DEF Bounds, delivery
<1>1. ASSUME NEW d \in Deliveries, ReadEndpoints(d) PROVE Bounds'
    BY <1>1 DEF ReadEndpoints
<1>2. ASSUME NEW d \in Deliveries, queuePublicEmailEvent(d) PROVE Bounds'
    <2>1. 0 \in (-Timeout)..MaxDue /\ Skew \in (-Timeout)..MaxDue /\ 0 \in Nat
        BY MaxDueIs DEF WebhookAssumption
    <2>2. due' \in [Deliveries -> (-Timeout)..MaxDue]
        BY <1>2, <2>1 DEF queuePublicEmailEvent
    <2>3. queue' \in [Deliveries -> Seq(Nat)]
        <3>1. queue' = queue \/ Publish(d, 0)
            BY <1>2 DEF queuePublicEmailEvent
        <3> QED
            BY <2>1, <3>1, PublishKeeps
    <2> QED
        BY <1>2, <2>2, <2>3 DEF queuePublicEmailEvent
<1>3. ASSUME NEW d \in Deliveries, Duplicate(d) PROVE Bounds'
    <2>1. PICK i \in DOMAIN queue[d] : Publish(d, queue[d][i])
        BY <1>3 DEF Duplicate
    <2>2. queue[d][i] \in Nat
        BY SequencesOfNat
    <2>3. queue' \in [Deliveries -> Seq(Nat)]
        BY <2>1, <2>2, PublishKeeps
    <2>4. faults' \in 0..MaxFaults
        BY <1>3, FaultKeeps DEF Duplicate
    <2> QED
        BY <1>3, <2>3, <2>4 DEF Duplicate
<1>4. CASE toggleWebhook
    BY <1>4 DEF toggleWebhook
<1>5. CASE deleteWebhook
    BY <1>5 DEF deleteWebhook
<1> QED
    BY <1>1, <1>2, <1>3, <1>4, <1>5

LEMMA DelayLess ==
    ASSUME NEW most \in Nat, NEW bound \in Nat, NEW delay \in Nat, NEW spent \in 0..(bound - 1),
           delay <= most
    PROVE  delay - spent \in (-bound)..most
OBVIOUS

LEMMA BoundsOfWorkers ==
    ASSUME WebhookAssumption, WebhookInvariant, Bounds, NEW w \in Workers,
           \/ \E d \in Deliveries : Receive(w, d)
           \/ Step(w) \/ Crash(w)
    PROVE  Bounds'
<1> USE DEF Bounds, delivery
<1>1. ASSUME NEW d \in Deliveries, Receive(w, d) PROVE Bounds'
    <2>1. queue' \in [Deliveries -> Seq(Nat)]
        BY <1>1, SequencesOfNat DEF Receive
    <2> QED
        BY <1>1, <2>1 DEF Receive
<1>2. CASE Claim(w)
    <2>0. run[w].job \in Deliveries /\ run[w].elapsed \in 0..(Timeout - 1)
        <3>1. run[w].pc # "idle" /\ run \in [Workers -> Runs]
            BY <1>2 DEF Claim, WebhookInvariant, Types
        <3> QED
            BY <3>1, OneJob
    <2>1. run[w].job \in Deliveries /\ run[w].elapsed \in 0..OldAge
        BY <2>0 DEF OldAge, WebhookAssumption
    <2>2. queue' \in [Deliveries -> Seq(Nat)]
        <3>1. (queue' = queue \/ Publish(run[w].job, Visibility)) /\ Visibility \in Nat
            BY <1>2 DEF Claim, WebhookAssumption
        <3> QED
            BY <2>1, <3>1, PublishKeeps
    <2>3. claimAge' \in [Deliveries -> 0..OldAge]
        BY <1>2, <2>1 DEF Claim
    <2> QED
        BY <1>2, <2>2, <2>3 DEF Claim
<1>3. CASE Post(w)
    BY <1>3 DEF Post
<1>4. CASE RecordDelivered(w)
    <2>1. faults' \in 0..MaxFaults
        BY <1>4, FaultKeeps DEF RecordDelivered
    <2> QED
        BY <1>4, <2>1 DEF RecordDelivered
<1>5. CASE recordExpectedFailure(w)
    <2>1. /\ run[w].job \in Deliveries /\ run[w].try \in 1..MaxAttempts
          /\ run[w].elapsed \in 0..(Timeout - 1) /\ MaxAttempts \in Nat
        BY <1>5, OneJob DEF recordExpectedFailure, WebhookInvariant, Types, WebhookAssumption
    <2>2. ~Terminal(run[w].try) => NextDue(w) \in (-Timeout)..MaxDue
        <3>1. SUFFICES ASSUME ~Terminal(run[w].try) PROVE NextDue(w) \in (-Timeout)..MaxDue
            OBVIOUS
        <3>2. run[w].try \in 1..(MaxAttempts - 1)
            BY <2>1, <3>1 DEF Terminal
        <3>3. /\ RetryDelay[run[w].try] \in Nat /\ RetryDelay[run[w].try] <= MaxDue
              /\ MaxDue \in Nat /\ Timeout \in Nat
            BY <3>2, MaxDueIs DEF WebhookAssumption
        <3> QED
            BY <2>1, <3>3, DelayLess DEF NextDue
    <2>3. due' \in [Deliveries -> (-Timeout)..MaxDue]
        BY <1>5, <2>1, <2>2 DEF recordExpectedFailure
    <2>4. RetryRow(w, run[w].job) \in Seq(Nat) /\ <<Visibility>> \in Seq(Nat)
        BY <2>2, SequencesOfNat, MaxDueIs DEF RetryRow, WebhookAssumption
    <2>5. queue' \in [Deliveries -> Seq(Nat)]
        <3> DEFINE d == run[w].job
                   more == RetryRow(w, d)
        <3>1. more \in Seq(Nat) /\ queue[d] \in Seq(Nat)
            BY <2>1, <2>4
        <3>2. /\ queue[d] \o more \in Seq(Nat) /\ queue[d] \o more \o <<Visibility>> \in Seq(Nat)
              /\ queue[d] \o more \o <<>> \in Seq(Nat) /\ queue[d] \o <<Visibility>> \in Seq(Nat)
              /\ queue[d] \o <<>> \in Seq(Nat)
            BY <2>4, <3>1, SequencesOfNat
        <3>3. \E s \in Seq(Nat) : queue' = [queue EXCEPT ![d] = s]
            <4>1. CASE run[w].pc = "failed"
                BY <1>5, <3>2, <4>1 DEF recordExpectedFailure
            <4>2. CASE run[w].pc # "failed"
                BY <1>5, <3>2, <4>2 DEF recordExpectedFailure
            <4> QED
                BY <4>1, <4>2
        <3> QED
            BY <2>1, <3>3
    <2>6. faults' \in 0..MaxFaults
        BY <1>5, FaultKeeps DEF recordExpectedFailure
    <2> QED
        BY <1>5, <2>3, <2>5, <2>6 DEF recordExpectedFailure
<1>6. CASE Crash(w)
    <2>1. run[w].job \in Deliveries
        BY <1>6, RunShape DEF Crash, WebhookInvariant, Types
    <2>2. Visibility \in Nat /\ Publish(run[w].job, Visibility)
        BY <1>6 DEF Crash, WebhookAssumption
    <2>3. queue' \in [Deliveries -> Seq(Nat)]
        BY <2>1, <2>2, PublishKeeps
    <2>4. faults' \in 0..MaxFaults
        BY <1>6, FaultKeeps DEF Crash
    <2> QED
        BY <1>6, <2>3, <2>4 DEF Crash
<1> QED
    BY <1>1, <1>2, <1>3, <1>4, <1>5, <1>6 DEF Step

LEMMA BoundsOfTick ==
    ASSUME WebhookAssumption, Bounds, Tick
    PROVE  Bounds'
<1> USE DEF Bounds
<1>0. Timeout \in Nat /\ MaxDue \in Nat /\ OldAge \in Nat
    BY MaxDueIs DEF OldAge, WebhookAssumption
<1>1. due' \in [Deliveries -> (-Timeout)..MaxDue]
    <2>1. ASSUME NEW n \in (-Timeout)..MaxDue
          PROVE  (IF n > -Timeout THEN n - 1 ELSE n) \in (-Timeout)..MaxDue
        BY <1>0
    <2> QED
        BY <2>1 DEF Tick
<1>3. claimAge' \in [Deliveries -> 0..OldAge]
    <2>1. ASSUME NEW n \in 0..OldAge
          PROVE  (IF n < OldAge THEN n + 1 ELSE OldAge) \in 0..OldAge /\ 0 \in 0..OldAge
        BY <1>0
    <2> QED
        BY <2>1 DEF Tick
<1>2. queue' \in [Deliveries -> Seq(Nat)]
    <2>1. ASSUME NEW s \in Seq(Nat)
          PROVE  [i \in DOMAIN s |-> IF s[i] > 0 THEN s[i] - 1 ELSE 0] \in Seq(Nat)
        <3>1. Len(s) \in Nat /\ DOMAIN s = 1..Len(s) /\ \A i \in 1..Len(s) : s[i] \in Nat
            BY SequencesOfNat
        <3>2. \A i \in 1..Len(s) : (IF s[i] > 0 THEN s[i] - 1 ELSE 0) \in Nat
            BY <3>1
        <3>3. [i \in 1..Len(s) |-> IF s[i] > 0 THEN s[i] - 1 ELSE 0] \in [1..Len(s) -> Nat]
            BY <3>2
        <3> QED
            BY <3>1, <3>3
    <2> QED
        BY <2>1 DEF Tick
<1> QED
    BY <1>1, <1>2, <1>3 DEF Tick

(* Types, bounds of the clocks and of the sequences in the queue.          *)
THEOREM TypeCorrect ==
    ASSUME WebhookAssumption
    PROVE  Spec => []TypeOK
<1>1. Init => Bounds
    BY BoundsInit
<1>2. WebhookInvariant /\ Bounds /\ [Next]_vars => Bounds'
    <2> SUFFICES ASSUME WebhookInvariant, Bounds, [Next]_vars PROVE Bounds'
        OBVIOUS
    <2>1. CASE UNCHANGED vars
        BY <2>1 DEF vars, delivery, Bounds
    <2> QED
        BY <2>1, BoundsOfRows, BoundsOfWorkers, BoundsOfTick DEF Next
<1>3. WebhookInvariant /\ Bounds => TypeOK
    BY DEF WebhookInvariant, Types, Bounds, TypeOK
<1> QED
    BY <1>1, <1>2, <1>3, WebhookHolds, PTL DEF Spec
=============================================================================
