--------------------------- MODULE DeliveryProofs ---------------------------
(***************************************************************************)
(* Theorems about Delivery for every set of messages and workers, every    *)
(* limit, clock bound and number of faults: the types, the send path, the  *)
(* outcome of a message, the contract, the attempts, the daily counters.   *)
(***************************************************************************)
EXTENDS Delivery, FiniteSetTheorems, TLAPS

-----------------------------------------------------------------------------
(* The states of an invocation of the worker are used below only through   *)
(* these two lemmas.                                                       *)
LEMMA WorkerStateShape ==
    ASSUME NEW s \in WorkerStates
    PROVE  /\ s.pc \in Pcs
           /\ (s = Idle) <=> (s.pc = "idle")
           /\ s # Idle => s.msg \in Messages
           /\ s.pc = "accepted" => s.at \in Times
           /\ s.pc = "refuse" => s.verdict \in {"failed", "suppressed"}
BY DEF WorkerStates, Idle, Pcs

LEMMA WorkerStateMakers ==
    ASSUME NEW m \in Messages
    PROVE  /\ Idle \in WorkerStates
           /\ Idle.pc = "idle"
           /\ \A pc \in Pcs \ {"idle", "accepted", "refuse"} :
                /\ Doing(pc, m) \in WorkerStates
                /\ Doing(pc, m).pc = pc
                /\ Doing(pc, m).msg = m
           /\ \A at \in Times :
                /\ Accepted(m, at) \in WorkerStates
                /\ Accepted(m, at).pc = "accepted"
                /\ Accepted(m, at).msg = m
           /\ \A why \in {"failed", "suppressed"} :
                /\ Refusal(m, why) \in WorkerStates
                /\ Refusal(m, why).pc = "refuse"
                /\ Refusal(m, why).msg = m
BY DEF WorkerStates, Idle, Doing, Accepted, Refusal, Pcs

LEMMA DayOfTime == \A t \in Times : Day(t) \in Days
BY DEF Days

-----------------------------------------------------------------------------
(* Type correctness.  The shared pieces of the actions first.              *)
LEMMA BecomeType ==
    ASSUME worker \in [Workers -> WorkerStates], NEW w, NEW s \in WorkerStates, Become(w, s)
    PROVE  worker' \in [Workers -> WorkerStates]
BY DEF Become

LEMMA FaultType ==
    ASSUME faults \in 0..MaxFaults, Fault \/ NoFault
    PROVE  faults' \in 0..MaxFaults
BY ClockAssumption DEF Fault, NoFault

LEMMA CommittedType ==
    ASSUME worker \in [Workers -> WorkerStates], faults \in 0..MaxFaults, NEW w,
           NEW ok \in WorkerStates, NEW error \in WorkerStates, Committed(w, ok, error)
    PROVE  /\ worker' \in [Workers -> WorkerStates]
           /\ faults' \in 0..MaxFaults
BY BecomeType, FaultType DEF Committed

LEMMA ReleaseType ==
    ASSUME reserved \in [Days -> Nat], NEW m, releaseReservation(m)
    PROVE  reserved' \in [Days -> Nat]
<1> DEFINE less(n) == IF n > 0 THEN n - 1 ELSE 0
<1>1. \A n \in Nat : less(n) \in Nat
    OBVIOUS
<1>2. QED
    BY <1>1 DEF releaseReservation

LEMMA RecordType ==
    ASSUME TypeOK, NEW m \in Messages, NEW at \in Times, recordAcceptedUsage(m, at)
    PROVE  /\ ledger' \in [Messages -> Times \cup {NoTime}]
           /\ usageJobs' \subseteq Messages
           /\ accepted' \in [Days -> Nat]
BY DEF TypeOK, recordAcceptedUsage

LEMMA RankType ==
    ASSUME NEW s \in Statuses, NEW e \in EventTypes
    PROVE  monotonicMessageStatus(s, e) \in {s, e}
BY DEF monotonicMessageStatus

LEMMA InitTypeOK == Init => TypeOK
BY ClockAssumption, WorkerStateMakers
   DEF Init, TypeOK, Times, NoTime, Statuses, WorkerStates

LEMMA NextTypeOK == TypeOK /\ [Next]_vars => TypeOK'
<1> SUFFICES ASSUME TypeOK, [Next]_vars PROVE TypeOK'
    OBVIOUS
<1> USE DEF message, usage, history, provider
<1>0. clock \in Times /\ \A x : x \in Workers /\ worker[x] # Idle => worker[x].msg \in Messages
    BY WorkerStateShape DEF TypeOK
<1>1. ASSUME NEW m \in Messages, Accept(m) PROVE TypeOK'
    BY <1>1, DayOfTime DEF Accept, TypeOK, Statuses
<1>2. ASSUME NEW m \in Messages, recoverStaleSending(m) PROVE TypeOK'
    BY <1>2, ReleaseType DEF recoverStaleSending, TypeOK, Statuses
<1>3. ASSUME NEW m \in Messages, expireQueuedPastDeadline(m) PROVE TypeOK'
    BY <1>3, ReleaseType DEF expireQueuedPastDeadline, TypeOK, Statuses
<1>4. ASSUME NEW m \in Messages, NEW type \in TransportEvents, NEW t \in Times,
             ingestProviderEvent(m, type, t)
      PROVE  TypeOK'
    <2>1. type \in EventTypes /\ EventTypes \subseteq Statuses
        BY EventsAssumption DEF EventTypes, Statuses
    <2>2. monotonicMessageStatus(status[m], type) \in Statuses
        BY <2>1, RankType DEF TypeOK
    <2>3. /\ ledger' \in [Messages -> Times \cup {NoTime}]
          /\ usageJobs' \subseteq Messages
          /\ accepted' \in [Days -> Nat]
          /\ reserved' \in [Days -> Nat]
        <3>1. CASE ConfirmsAcceptance(m, type)
            <4> DEFINE at == IF ambiguousAt[m] # NoTime /\ ambiguousAt[m] < t
                             THEN ambiguousAt[m] ELSE t
            <4>1. at \in Times
                BY DEF TypeOK
            <4>2. recordAcceptedUsage(m, at)
                BY <1>4, <3>1 DEF ingestProviderEvent
            <4>3. releaseReservation(m) \/ UNCHANGED reserved
                BY <1>4, <3>1 DEF ingestProviderEvent
            <4> QED
                BY <4>1, <4>2, <4>3, RecordType, ReleaseType DEF TypeOK
        <3>2. CASE ~ConfirmsAcceptance(m, type)
            BY <1>4, <3>2 DEF ingestProviderEvent, TypeOK
        <3> QED
            BY <3>1, <3>2
    <2>4. /\ status' \in [Messages -> Statuses]
          /\ lastEventAt' \in [Messages -> Times \cup {NoTime}]
          /\ ingested' \in [Messages -> SUBSET EventTypes]
        BY <1>4, <2>1, <2>2 DEF ingestProviderEvent, TypeOK
    <2> QED
        BY <1>4, <2>3, <2>4 DEF ingestProviderEvent, TypeOK
<1>5. ASSUME NEW w \in Workers, NEW m \in Messages, Claim(w, m) PROVE TypeOK'
    BY <1>5, BecomeType, WorkerStateMakers DEF Claim, TypeOK, Statuses, Pcs
<1>6. ASSUME NEW w \in Workers, WorkerStep(w) PROVE TypeOK'
    <2> DEFINE m == worker[w].msg
    <2>0. /\ worker[w].pc # "idle" => m \in Messages
          /\ worker[w].pc = "accepted" => worker[w].at \in Times
          /\ worker[w].pc = "refuse" => worker[w].verdict \in {"failed", "suppressed"}
        BY WorkerStateShape DEF TypeOK
    <2>1. CASE Evaluate(w)
        BY <2>0, <2>1, BecomeType, WorkerStateMakers
           DEF Evaluate, evaluateStoredMessage, TypeOK, Pcs
    <2>2. CASE LoadContent(w)
        BY <2>0, <2>2, BecomeType, FaultType, WorkerStateMakers DEF LoadContent, TypeOK, Pcs
    <2>3. CASE Transmit(w)
        <3>1. m \in Messages
            BY <2>0, <2>3 DEF Transmit
        <3>2. worker' \in [Workers -> WorkerStates]
            BY <1>0, <2>3, <3>1, BecomeType, WorkerStateMakers DEF Transmit, TypeOK, Pcs
        <3>3. handed' \in [Messages -> Nat]
            BY <2>3, <3>1 DEF Transmit, TypeOK
        <3>4. confirmed' \subseteq Messages
            BY <2>3, <3>1 DEF Transmit, TypeOK
        <3> QED
            BY <2>3, <3>2, <3>3, <3>4 DEF Transmit, TypeOK
    <2>m. ASSUME m \in Messages
          PROVE  \A pc \in {"ambiguous", "fallback"} : Doing(pc, m) \in WorkerStates /\ Idle \in WorkerStates
        BY <2>m, WorkerStateMakers DEF Pcs
    <2>4. CASE CommitAccepted(w)
        <3>1. m \in Messages
            BY <2>0, <2>4 DEF CommitAccepted
        <3>2. worker' \in [Workers -> WorkerStates] /\ faults' \in 0..MaxFaults
            BY <2>4, <3>1, <2>m, BecomeType, FaultType, CommittedType DEF CommitAccepted, TypeOK
        <3>3. /\ ledger' \in [Messages -> Times \cup {NoTime}]
              /\ usageJobs' \subseteq Messages
              /\ accepted' \in [Days -> Nat]
              /\ reserved' \in [Days -> Nat]
            BY <2>0, <2>4, <3>1, RecordType, ReleaseType DEF CommitAccepted, TypeOK
        <3> QED
            BY <2>4, <3>1, <3>2, <3>3 DEF CommitAccepted, TypeOK, Statuses
    <2>5. CASE finalizeUnknown(w)
        <3>1. m \in Messages
            BY <2>0, <2>5 DEF finalizeUnknown
        <3>2. worker' \in [Workers -> WorkerStates] /\ faults' \in 0..MaxFaults
            BY <2>5, <3>1, <2>m, BecomeType, FaultType, CommittedType DEF finalizeUnknown, TypeOK
        <3> QED
            BY <2>5, <3>1, <3>2, ReleaseType DEF finalizeUnknown, TypeOK, Statuses
    <2>6. CASE finalizeTerminal(w)
        <3>1. m \in Messages
            BY <2>0, <2>6 DEF finalizeTerminal
        <3>2. worker' \in [Workers -> WorkerStates] /\ faults' \in 0..MaxFaults
            BY <2>6, <3>1, <2>m, BecomeType, FaultType, CommittedType DEF finalizeTerminal, TypeOK
        <3> QED
            BY <2>6, <3>1, <3>2, <2>0, ReleaseType DEF finalizeTerminal, TypeOK, Statuses
    <2>7. CASE Requeue(w)
        <3>1. m \in Messages
            BY <2>0, <2>7 DEF Requeue
        <3>2. worker' \in [Workers -> WorkerStates] /\ faults' \in 0..MaxFaults
            BY <2>7, <3>1, <2>m, BecomeType, FaultType, CommittedType DEF Requeue, TypeOK
        <3> QED
            BY <2>7, <3>1, <3>2 DEF Requeue, TypeOK, Statuses
    <2>8. CASE GiveBack(w)
        BY <2>0, <2>8, BecomeType, FaultType, WorkerStateMakers
        DEF GiveBack, TypeOK, Statuses
    <2> QED
        BY <1>6, <2>1, <2>2, <2>3, <2>4, <2>5, <2>6, <2>7, <2>8 DEF WorkerStep
<1>7. ASSUME NEW w \in Workers, Crash(w) PROVE TypeOK'
    BY <1>7, BecomeType, FaultType DEF Crash, TypeOK, WorkerStates
<1>8. CASE Tick
    BY <1>8, ClockAssumption DEF Tick, TypeOK, Times
<1>9. CASE UNCHANGED vars
    BY <1>9 DEF vars, TypeOK
<1> QED
    BY <1>1, <1>2, <1>3, <1>4, <1>5, <1>6, <1>7, <1>8, <1>9 DEF Next

(* Every column keeps its domain, the two day counters never go negative,  *)
(* and every invocation is in one of the states of the worker's code.      *)
THEOREM TypeCorrect == Spec => []TypeOK
<1>1. Init => TypeOK
    BY InitTypeOK
<1>2. TypeOK /\ [Next]_vars => TypeOK'
    BY NextTypeOK
<1> QED
    BY <1>1, <1>2, PTL DEF Spec

-----------------------------------------------------------------------------
(* No message is handed to the provider twice.                             *)
LEMMA BecomeFacts ==
    ASSUME worker \in [Workers -> WorkerStates], NEW w \in Workers, NEW s, Become(w, s)
    PROVE  /\ worker'[w] = s
           /\ \A v \in Workers \ {w} : worker'[v] = worker[v]
BY DEF Become

LEMMA CommittedFacts ==
    ASSUME ~LostAcks, NEW w, NEW ok, NEW error, Committed(w, ok, error)
    PROVE  Become(w, ok)
BY DEF Committed

(* A step that starts no work and puts nothing back in the queue.          *)
LEMMA SendPathQuietStep ==
    ASSUME TypeOK, TypeOK', SendPathInvariant, UNCHANGED handed,
           \A m \in Messages : status'[m] = status[m] \/ status'[m] \notin {"none", "queued"},
           \A w \in Workers : \/ worker'[w] = worker[w]
                              \/ worker'[w] = Idle
                              \/ /\ worker[w] # Idle
                                 /\ worker'[w].msg = worker[w].msg
                                 /\ worker'[w].pc \in {"accepted", "ambiguous"}
                                      \/ worker[w].pc \notin {"accepted", "ambiguous"}
    PROVE  SendPathInvariant'
<1>1. \A w \in Workers : worker[w] # Idle => worker[w].msg \in Messages
    BY WorkerStateShape DEF TypeOK
<1>2. \A w \in Workers : worker'[w] # Idle =>
            worker[w] # Idle /\ worker'[w].msg = worker[w].msg
    OBVIOUS
<1>3. OneHolder'
    BY <1>2 DEF SendPathInvariant, OneHolder
<1>4. HeldIsClaimed'
    BY <1>1, <1>2 DEF SendPathInvariant, HeldIsClaimed
<1>5. HandedIsClaimed' /\ NeverTakenTwice'
    BY DEF SendPathInvariant, HandedIsClaimed, NeverTakenTwice
<1> QED
    BY <1>3, <1>4, <1>5 DEF SendPathInvariant

(* The only step that puts a message back in the queue is taken by its     *)
(* holder, before the provider took it, and ends the holder's work.        *)
LEMMA SendPathRequeueStep ==
    ASSUME TypeOK, TypeOK', SendPathInvariant, UNCHANGED handed,
           NEW w \in Workers, worker[w].pc \notin {"idle", "accepted", "ambiguous"},
           worker'[w] = Idle,
           \A v \in Workers \ {w} : worker'[v] = worker[v],
           \A m \in Messages \ {worker[w].msg} : status'[m] = status[m]
    PROVE  SendPathInvariant'
<1>1. \A v \in Workers : worker[v] # Idle => worker[v].msg \in Messages
    BY WorkerStateShape DEF TypeOK
<1>2. worker[w] # Idle
    BY DEF Idle
<1>3. \A v \in Workers : worker'[v] # Idle =>
            /\ worker[v] # Idle
            /\ worker'[v] = worker[v]
            /\ worker[v].msg # worker[w].msg
    BY <1>2 DEF SendPathInvariant, OneHolder
<1>4. OneHolder'
    BY <1>3 DEF SendPathInvariant, OneHolder
<1>5. HeldIsClaimed'
    BY <1>1, <1>3 DEF SendPathInvariant, HeldIsClaimed
<1>6. HandedIsClaimed' /\ NeverTakenTwice'
    BY <1>1, <1>2 DEF SendPathInvariant, HandedIsClaimed, HeldIsClaimed, NeverTakenTwice, TypeOK
<1> QED
    BY <1>4, <1>5, <1>6 DEF SendPathInvariant

LEMMA SendPathInit == Init => SendPathInvariant
BY DEF Init, SendPathInvariant, OneHolder, HeldIsClaimed, HandedIsClaimed, NeverTakenTwice

LEMMA SendPathNext ==
    ASSUME ~LostAcks, TypeOK, SendPathInvariant, [Next]_vars
    PROVE  SendPathInvariant'
<1> USE DEF message, usage, history, provider
<1>0. TypeOK'
    BY NextTypeOK
<1>1. \A w \in Workers : worker[w] # Idle => worker[w].msg \in Messages
    BY WorkerStateShape DEF TypeOK
<1>2. \A w \in Workers : worker[w].pc # "idle" => worker[w] # Idle
    BY DEF Idle
<1>3. ASSUME NEW m \in Messages, Accept(m) PROVE SendPathInvariant'
    <2>1. status[m] = "none" /\ status' = [status EXCEPT ![m] = "queued"]
          /\ UNCHANGED <<worker, handed>>
        BY <1>3 DEF Accept
    <2>2. handed[m] = 0 /\ \A w \in Workers : worker[w] # Idle => worker[w].msg # m
        BY <2>1 DEF SendPathInvariant, HeldIsClaimed, HandedIsClaimed, TypeOK
    <2> QED
        BY <1>1, <2>1, <2>2 DEF SendPathInvariant, OneHolder, HeldIsClaimed,
                                HandedIsClaimed, NeverTakenTwice, TypeOK
<1>4. ASSUME NEW m \in Messages, recoverStaleSending(m) PROVE SendPathInvariant'
    BY <1>0, <1>4, SendPathQuietStep DEF recoverStaleSending, TypeOK
<1>5. ASSUME NEW m \in Messages, expireQueuedPastDeadline(m) PROVE SendPathInvariant'
    BY <1>0, <1>5, SendPathQuietStep DEF expireQueuedPastDeadline, TypeOK
<1>6. ASSUME NEW m \in Messages, NEW type \in TransportEvents, NEW t \in Times,
             ingestProviderEvent(m, type, t)
      PROVE  SendPathInvariant'
    <2>1. type \notin {"none", "queued"} /\ type \in EventTypes
        BY EventsAssumption DEF EventTypes
    <2>2. monotonicMessageStatus(status[m], type) \in {status[m], type}
        BY <2>1, RankType DEF TypeOK
    <2>3. \A n \in Messages : status'[n] = status[n] \/ status'[n] \notin {"none", "queued"}
        BY <1>6, <2>1, <2>2 DEF ingestProviderEvent, TypeOK
    <2>4. UNCHANGED <<worker, handed>>
        BY <1>6 DEF ingestProviderEvent
    <2> QED
        BY <1>0, <2>3, <2>4, SendPathQuietStep
<1>7. ASSUME NEW w \in Workers, NEW m \in Messages, Claim(w, m) PROVE SendPathInvariant'
    <2>1. /\ status[m] = "queued"
          /\ status' = [status EXCEPT ![m] = "sending"]
          /\ Become(w, Doing("check", m))
          /\ UNCHANGED handed
        BY <1>7 DEF Claim, Claimable
    <2>2. /\ worker'[w].msg = m
          /\ \A v \in Workers \ {w} : worker'[v] = worker[v]
        BY <2>1, BecomeFacts, WorkerStateMakers DEF TypeOK, Pcs
    <2>3. /\ handed[m] = 0
          /\ \A v \in Workers : worker[v] # Idle => worker[v].msg # m
        BY <2>1 DEF SendPathInvariant, HeldIsClaimed, HandedIsClaimed, TypeOK
    <2>4. OneHolder'
        BY <2>2, <2>3 DEF SendPathInvariant, OneHolder
    <2>5. HeldIsClaimed'
        BY <1>1, <2>1, <2>2, <2>3 DEF SendPathInvariant, HeldIsClaimed, TypeOK
    <2>6. HandedIsClaimed' /\ NeverTakenTwice'
        BY <2>1 DEF SendPathInvariant, HandedIsClaimed, NeverTakenTwice, TypeOK
    <2> QED
        BY <2>4, <2>5, <2>6 DEF SendPathInvariant
<1>8. ASSUME NEW w \in Workers, WorkerStep(w) PROVE SendPathInvariant'
    <2> DEFINE m == worker[w].msg
    <2>0. worker[w].pc # "idle" => worker[w] # Idle /\ m \in Messages
        BY <1>1, <1>2
    <2>m. ASSUME m \in Messages
          PROVE  /\ \A pc \in Pcs \ {"idle", "accepted", "refuse"} :
                      Doing(pc, m).pc = pc /\ Doing(pc, m).msg = m
                 /\ \A why \in {"failed", "suppressed"} :
                      Refusal(m, why).pc = "refuse" /\ Refusal(m, why).msg = m
                 /\ \A at \in Times :
                      Accepted(m, at).pc = "accepted" /\ Accepted(m, at).msg = m
        BY <2>m, WorkerStateMakers
    <2>1. CASE Evaluate(w)
        <3>1. m \in Messages /\ worker[w] # Idle /\ worker[w].pc = "check"
            BY <2>0, <2>1 DEF Evaluate
        <3>2. PICK s : /\ Become(w, s)
                       /\ s \in {Refusal(m, "failed"), Refusal(m, "suppressed"), Doing("load", m)}
            BY <2>1 DEF Evaluate, evaluateStoredMessage
        <3>3. worker'[w] = s /\ s.msg = m /\ \A v \in Workers \ {w} : worker'[v] = worker[v]
            BY <2>m, <3>1, <3>2, BecomeFacts DEF TypeOK, Pcs
        <3> QED
            BY <1>0, <2>1, <3>1, <3>3, SendPathQuietStep DEF Evaluate
    <2>2. CASE LoadContent(w)
        <3>1. m \in Messages /\ worker[w] # Idle /\ worker[w].pc = "load"
            BY <2>0, <2>2 DEF LoadContent
        <3>2. PICK s : /\ Become(w, s)
                       /\ s \in {Refusal(m, "failed"), Doing("transmit", m), Doing("ambiguous", m)}
            BY <2>2 DEF LoadContent
        <3>3. worker'[w] = s /\ s.msg = m /\ \A v \in Workers \ {w} : worker'[v] = worker[v]
            BY <2>m, <3>1, <3>2, BecomeFacts DEF TypeOK, Pcs
        <3> QED
            BY <1>0, <2>2, <3>1, <3>3, SendPathQuietStep DEF LoadContent
    <2>3. CASE Transmit(w)
        <3>1. m \in Messages /\ worker[w] # Idle /\ worker[w].pc = "transmit"
            BY <2>0, <2>3 DEF Transmit
        <3>2. handed[m] = 0 /\ status[m] \notin {"none", "queued"}
            BY <3>1 DEF SendPathInvariant, HeldIsClaimed
        <3>a. Accepted(m, clock).pc = "accepted" /\ Accepted(m, clock).msg = m
            BY <2>m, <3>1 DEF TypeOK
        <3>b. \A pc \in {"ambiguous", "transient"} : Doing(pc, m).pc = pc /\ Doing(pc, m).msg = m
            BY <2>m, <3>1 DEF Pcs
        <3>c. Refusal(m, "failed").msg = m
            BY <2>m, <3>1
        <3>d. \/ Become(w, Accepted(m, clock)) /\ handed' = [handed EXCEPT ![m] = @ + 1]
              \/ /\ Become(w, Doing("ambiguous", m))
                 /\ \E taken \in {0, 1} : handed' = [handed EXCEPT ![m] = @ + taken]
              \/ /\ Become(w, Doing("transient", m)) \/ Become(w, Refusal(m, "failed"))
                 /\ UNCHANGED handed
            BY <2>3 DEF Transmit
        <3>e. PICK s : /\ Become(w, s)
                       /\ s.msg = m
                       /\ \/ /\ s.pc \in {"accepted", "ambiguous"}
                             /\ \E taken \in {0, 1} : handed' = [handed EXCEPT ![m] = @ + taken]
                          \/ UNCHANGED handed
            BY <3>a, <3>b, <3>c, <3>d
        <3>f. handed[m] \in Nat /\ handed' \in [Messages -> Nat]
            BY <1>0, <3>1 DEF TypeOK
        <3>3. PICK taken \in {0, 1} :
                   /\ s.pc \in {"accepted", "ambiguous"} \/ taken = 0
                   /\ handed' = [handed EXCEPT ![m] = @ + taken]
            <4>1. CASE UNCHANGED handed
                <5>1. handed' = [handed EXCEPT ![m] = @ + 0]
                    BY <4>1, <3>f DEF TypeOK
                <5> QED
                    BY <5>1
            <4> QED
                BY <3>e, <4>1
        <3>4. worker'[w] = s /\ \A v \in Workers \ {w} : worker'[v] = worker[v]
            BY <3>e, BecomeFacts DEF TypeOK
        <3>5. /\ handed'[m] = taken
              /\ \A n \in Messages \ {m} : handed'[n] = handed[n]
              /\ UNCHANGED status
            BY <2>3, <3>1, <3>2, <3>3 DEF Transmit, TypeOK
        <3>6. \A v \in Workers : worker'[v] # Idle =>
                worker[v] # Idle /\ worker'[v].msg = worker[v].msg
            BY <3>1, <3>e, <3>4
        <3>7. OneHolder'
            BY <3>6 DEF SendPathInvariant, OneHolder
        <3>8. HeldIsClaimed'
            <4>1. \A v \in Workers \ {w} : worker[v] # Idle => worker[v].msg # m
                BY <3>1 DEF SendPathInvariant, OneHolder
            <4> QED
                BY <1>1, <3>1, <3>2, <3>e, <3>3, <3>4, <3>5, <4>1 DEF SendPathInvariant, HeldIsClaimed
        <3>9. HandedIsClaimed' /\ NeverTakenTwice'
            BY <3>2, <3>3, <3>5 DEF SendPathInvariant, HandedIsClaimed, NeverTakenTwice
        <3> QED
            BY <3>7, <3>8, <3>9 DEF SendPathInvariant
    <2>4. CASE CommitAccepted(w)
        <3>1. m \in Messages /\ worker[w] # Idle /\ worker[w].pc = "accepted"
            BY <2>0, <2>4 DEF CommitAccepted
        <3>2. PICK s : Become(w, s) /\ s \in {Idle, Doing("ambiguous", m)}
            BY <2>4, CommittedFacts DEF CommitAccepted
        <3>3. worker'[w] = s /\ \A v \in Workers \ {w} : worker'[v] = worker[v]
            BY <3>2, BecomeFacts DEF TypeOK
        <3>4. s = Idle \/ (s.msg = m /\ s.pc = "ambiguous")
            BY <2>m, <3>1, <3>2 DEF Pcs
        <3>5. \A n \in Messages : status'[n] = status[n] \/ status'[n] \notin {"none", "queued"}
            BY <2>4, <3>1 DEF CommitAccepted, TypeOK
        <3> QED
            BY <1>0, <2>4, <3>1, <3>3, <3>4, <3>5, SendPathQuietStep DEF CommitAccepted
    <2>5. CASE finalizeUnknown(w)
        <3>1. m \in Messages /\ worker[w] # Idle
            BY <2>0, <2>5 DEF finalizeUnknown
        <3>2. Become(w, Idle)
            BY <2>5, CommittedFacts DEF finalizeUnknown
        <3>3. worker'[w] = Idle /\ \A v \in Workers \ {w} : worker'[v] = worker[v]
            BY <3>2, BecomeFacts DEF TypeOK
        <3>4. \A n \in Messages : status'[n] = status[n] \/ status'[n] \notin {"none", "queued"}
            BY <2>5, <3>1 DEF finalizeUnknown, TypeOK
        <3> QED
            BY <1>0, <2>5, <3>3, <3>4, SendPathQuietStep DEF finalizeUnknown
    <2>6. CASE finalizeTerminal(w)
        <3>1. m \in Messages /\ worker[w] # Idle /\ worker[w].pc = "refuse"
              /\ worker[w].verdict \in {"failed", "suppressed"}
            BY <2>0, <2>6, WorkerStateShape DEF finalizeTerminal, TypeOK
        <3>2. PICK s : Become(w, s) /\ s \in {Idle, Doing("fallback", m)}
            BY <2>6, CommittedFacts DEF finalizeTerminal
        <3>3. worker'[w] = s /\ \A v \in Workers \ {w} : worker'[v] = worker[v]
            BY <3>2, BecomeFacts DEF TypeOK
        <3>4. s = Idle \/ s.msg = m
            BY <2>m, <3>1, <3>2 DEF Pcs
        <3>5. \A n \in Messages : status'[n] = status[n] \/ status'[n] \notin {"none", "queued"}
            BY <2>6, <3>1 DEF finalizeTerminal, TypeOK
        <3> QED
            BY <1>0, <2>6, <3>1, <3>3, <3>4, <3>5, SendPathQuietStep DEF finalizeTerminal
    <2>7. CASE Requeue(w)
        <3>1. m \in Messages /\ worker[w] # Idle /\ worker[w].pc = "transient"
            BY <2>0, <2>7 DEF Requeue
        <3>2. UNCHANGED handed
            BY <2>7 DEF Requeue
        <3>3. CASE Become(w, Idle)
            <4>1. worker'[w] = Idle /\ \A v \in Workers \ {w} : worker'[v] = worker[v]
                BY <3>3, BecomeFacts DEF TypeOK
            <4>2. \A n \in Messages \ {m} : status'[n] = status[n]
                BY <2>7, <3>1 DEF Requeue, TypeOK
            <4> QED
                BY <1>0, <3>1, <3>2, <4>1, <4>2, SendPathRequeueStep
        <3>4. CASE Become(w, Doing("fallback", m)) /\ UNCHANGED status
            <4>1. /\ worker'[w].msg = m
                  /\ \A v \in Workers \ {w} : worker'[v] = worker[v]
                BY <2>m, <3>1, <3>4, BecomeFacts DEF TypeOK, Pcs
            <4> QED
                BY <1>0, <3>1, <3>2, <3>4, <4>1, SendPathQuietStep
        <3> QED
            BY <2>7, <3>3, <3>4, CommittedFacts DEF Requeue
    <2>8. CASE GiveBack(w)
        <3>1. m \in Messages /\ worker[w].pc = "fallback" /\ UNCHANGED handed /\ Become(w, Idle)
            BY <2>0, <2>8 DEF GiveBack
        <3>2. worker'[w] = Idle /\ \A v \in Workers \ {w} : worker'[v] = worker[v]
            BY <3>1, BecomeFacts DEF TypeOK
        <3>3. \A n \in Messages \ {m} : status'[n] = status[n]
            BY <2>8, <3>1 DEF GiveBack, TypeOK
        <3> QED
            BY <1>0, <3>1, <3>2, <3>3, SendPathRequeueStep
    <2> QED
        BY <1>8, <2>1, <2>2, <2>3, <2>4, <2>5, <2>6, <2>7, <2>8 DEF WorkerStep
<1>9. ASSUME NEW w \in Workers, Crash(w) PROVE SendPathInvariant'
    <2>1. worker'[w] = Idle /\ \A v \in Workers \ {w} : worker'[v] = worker[v]
        BY <1>9, BecomeFacts DEF Crash, TypeOK
    <2> QED
        BY <1>0, <1>9, <2>1, SendPathQuietStep DEF Crash
<1>10. CASE Tick
    BY <1>0, <1>10, SendPathQuietStep DEF Tick
<1>11. CASE UNCHANGED vars
    BY <1>0, <1>11, SendPathQuietStep DEF vars
<1> QED
    BY <1>3, <1>4, <1>5, <1>6, <1>7, <1>8, <1>9, <1>10, <1>11 DEF Next

(* When no acknowledgement of a COMMIT is lost, no message is handed to    *)
(* the provider twice, whatever is redelivered, crashes, rolls back, times *)
(* out or is recovered, and however many workers run.                      *)
THEOREM TakenAtMostOnce ==
    ASSUME ~LostAcks
    PROVE  Spec => []NeverTakenTwice
<1>1. Init => SendPathInvariant
    BY SendPathInit
<1>2. TypeOK /\ SendPathInvariant /\ [Next]_vars => SendPathInvariant'
    BY SendPathNext
<1>3. SendPathInvariant => NeverTakenTwice
    BY DEF SendPathInvariant
<1> QED
    BY <1>1, <1>2, <1>3, TypeCorrect, PTL DEF Spec

-----------------------------------------------------------------------------
(***************************************************************************)
(* What becomes of a message: its verdict, its bill and the contract, for  *)
(* every set of messages and workers, every limit, clock bound and number  *)
(* of faults, as long as no acknowledgement of a COMMIT is lost.  The      *)
(* argument rests on SendPathInvariant (DeliveryProofs) and on             *)
(* OutcomeInvariant, which says what the columns of a row have to do with  *)
(* one another and with the invocation that holds the row.                 *)
(***************************************************************************)
(* The row of m as it is, or as a step leaves it alone.                    *)
RowKept(m) ==
    /\ status'[m] = status[m] /\ ledger'[m] = ledger[m]
    /\ published'[m] = published[m] /\ ingested'[m] = ingested[m]
    /\ lastEventAt'[m] = lastEventAt[m] /\ handed'[m] = handed[m]

LEMMA KeptAgrees ==
    ASSUME NEW m \in Messages, RowAgrees(m), RowKept(m)
    PROVE  RowAgrees(m)'
BY DEF RowAgrees, RowKept, Billed

(* A step that writes the row of one message.                              *)
LEMMA OneRowStep ==
    ASSUME OutcomeInvariant, NEW m \in Messages, RowAgrees(m)', HolderAgrees', CountersAgree',
           \A n \in Messages \ {m} : RowKept(n)
    PROVE  OutcomeInvariant'
<1>1. \A n \in Messages : RowAgrees(n)'
    <2>1. SUFFICES ASSUME NEW n \in Messages PROVE RowAgrees(n)'
        OBVIOUS
    <2>2. CASE n = m
        BY <2>2
    <2>3. CASE n # m
        BY <2>3, KeptAgrees DEF OutcomeInvariant
    <2> QED
        BY <2>2, <2>3
<1> QED
    BY <1>1 DEF OutcomeInvariant

LEMMA SameCounters ==
    ASSUME CountersAgree, UNCHANGED <<ledger, accepted>>
    PROVE  CountersAgree'
BY DEF CountersAgree, BilledOn, Billed

(* A message is counted on the day of its acceptance, once.                *)
LEMMA RecordCounts ==
    ASSUME TypeOK, CountersAgree, NEW m \in Messages, NEW at \in Times, recordAcceptedUsage(m, at)
    PROVE  CountersAgree'
<1>1. CASE ledger[m] # NoTime
    BY <1>1, SameCounters DEF recordAcceptedUsage
<1>2. CASE ledger[m] = NoTime
    <2>1. /\ ledger' = [ledger EXCEPT ![m] = at]
          /\ accepted' = [accepted EXCEPT ![Day(at)] = @ + 1]
        BY <1>2 DEF recordAcceptedUsage
    <2>2. at # NoTime /\ Day(at) \in Days
        BY DayOfTime DEF NoTime, Times
    <2>3. SUFFICES ASSUME NEW d \in Days PROVE accepted'[d] = Cardinality(BilledOn(d)')
        BY DEF CountersAgree
    <2>4. accepted[d] = Cardinality(BilledOn(d))
        BY DEF CountersAgree
    <2>5. IsFiniteSet(BilledOn(d))
        BY SetsAssumption, FS_Subset DEF BilledOn
    <2>6. CASE d = Day(at)
        <3>1. BilledOn(d)' = BilledOn(d) \cup {m} /\ m \notin BilledOn(d)
            BY <1>2, <2>1, <2>2, <2>6 DEF BilledOn, Billed, TypeOK
        <3>2. accepted'[d] = accepted[d] + 1
            BY <2>1, <2>2, <2>6 DEF TypeOK
        <3> QED
            BY <2>4, <2>5, <3>1, <3>2, FS_AddElement
    <2>7. CASE d # Day(at)
        <3>1. BilledOn(d)' = BilledOn(d)
            BY <1>2, <2>1, <2>2, <2>7 DEF BilledOn, Billed, TypeOK
        <3>2. accepted'[d] = accepted[d]
            BY <2>1, <2>7 DEF TypeOK
        <3> QED
            BY <2>4, <3>1, <3>2
    <2> QED
        BY <2>6, <2>7
<1> QED
    BY <1>1, <1>2

LEMMA RecordRow ==
    ASSUME TypeOK, NEW m \in Messages, NEW at \in Times, recordAcceptedUsage(m, at)
    PROVE  /\ Billed(m)'
           /\ Billed(m) => ledger'[m] = ledger[m]
           /\ \A n \in Messages \ {m} : ledger'[n] = ledger[n]
BY DEF recordAcceptedUsage, TypeOK, Billed, Times, NoTime

(* Whoever goes on holding a message keeps it without a verdict.           *)
LEMMA HolderQuietStep ==
    ASSUME TypeOK, HolderAgrees,
           \A w \in Workers : \/ worker'[w] = worker[w]
                              \/ worker'[w] = Idle
                              \/ /\ worker[w] # Idle
                                 /\ worker'[w].msg = worker[w].msg
                                 /\ worker'[w].pc = "accepted" => handed'[worker[w].msg] > 0,
           \A w \in Workers : worker'[w] # Idle /\ worker[w] # Idle =>
                published'[worker[w].msg] = published[worker[w].msg],
           \A n \in Messages : handed[n] > 0 => handed'[n] > 0
    PROVE  HolderAgrees'
<1>1. \A w \in Workers : worker[w] # Idle => worker[w].msg \in Messages
    BY WorkerStateShape DEF TypeOK
<1> QED
    BY <1>1 DEF HolderAgrees

-----------------------------------------------------------------------------
LEMMA OutcomeInit == Init => OutcomeInvariant
<1> SUFFICES ASSUME Init PROVE OutcomeInvariant
    OBVIOUS
<1>1. ASSUME NEW m \in Messages PROVE RowAgrees(m)
    BY <1>1 DEF Init, RowAgrees, Billed, ProviderAccepted, Verdicts
<1>2. HolderAgrees
    BY DEF Init, HolderAgrees
<1>3. ASSUME NEW d \in Days PROVE accepted[d] = Cardinality(BilledOn(d))
    <2>1. BilledOn(d) = {}
        BY DEF Init, BilledOn, Billed
    <2> QED
        BY <1>3, <2>1, FS_EmptySet DEF Init
<1> QED
    BY <1>1, <1>2, <1>3 DEF OutcomeInvariant, CountersAgree

(* What an invocation holds, and what its steps leave of the others.       *)
LEMMA OutcomeWorkerStep ==
    ASSUME ~LostAcks, TypeOK, TypeOK', SendPathInvariant, OutcomeInvariant,
           NEW w \in Workers, WorkerStep(w)
    PROVE  OutcomeInvariant'
<1> USE DEF message, usage, history, provider
<1>0. PICK m \in Messages : m = worker[w].msg
    BY WorkerStateShape DEF TypeOK, WorkerStep, Evaluate, LoadContent, Transmit, CommitAccepted,
                            finalizeUnknown, finalizeTerminal, Requeue, GiveBack
<1> USE <1>0
<1>1. worker[w].pc # "idle" =>
        /\ worker[w] # Idle /\ m \in Messages
        /\ worker[w].pc = "accepted" => worker[w].at \in Times
        /\ worker[w].pc = "refuse" => worker[w].verdict \in {"failed", "suppressed"}
    BY WorkerStateShape DEF TypeOK, Idle
<1>2. ASSUME m \in Messages
      PROVE  /\ \A pc \in Pcs \ {"idle", "accepted", "refuse"} :
                  Doing(pc, m).pc = pc /\ Doing(pc, m).msg = m
             /\ \A why \in {"failed", "suppressed"} :
                  Refusal(m, why).pc = "refuse" /\ Refusal(m, why).msg = m
             /\ Accepted(m, clock).pc = "accepted" /\ Accepted(m, clock).msg = m
    BY <1>2, WorkerStateMakers DEF TypeOK
<1>3. worker[w].pc # "idle" =>
        /\ RowAgrees(m) /\ published[m] \cap Verdicts = {}
        /\ status[m] \notin {"none", "queued"}
        /\ worker[w].pc \notin {"accepted", "ambiguous"} => handed[m] = 0
        /\ worker[w].pc = "accepted" => handed[m] > 0
        /\ \A v \in Workers \ {w} : worker[v] # Idle => worker[v].msg # m
    BY <1>1 DEF SendPathInvariant, OneHolder, HeldIsClaimed, OutcomeInvariant, HolderAgrees
<1>4. ASSUME NEW s, Become(w, s)
      PROVE  worker'[w] = s /\ \A v \in Workers \ {w} : worker'[v] = worker[v]
    BY <1>4, BecomeFacts DEF TypeOK
\* A step that writes no row.
<1>5. ASSUME worker[w].pc # "idle", NEW s, Become(w, s), s = Idle \/ s.msg = m,
             s # Idle => s.pc # "accepted", UNCHANGED <<status, ledger, usageJobs, accepted, published,
                                           ingested, lastEventAt, handed>>
      PROVE  OutcomeInvariant'
    <2>1. \A n \in Messages : RowAgrees(n)'
        BY <1>5, KeptAgrees DEF OutcomeInvariant, RowKept
    <2>2. HolderAgrees'
        BY <1>1, <1>4, <1>5, HolderQuietStep DEF OutcomeInvariant
    <2>3. CountersAgree'
        BY <1>5, SameCounters DEF OutcomeInvariant
    <2> QED
        BY <2>1, <2>2, <2>3 DEF OutcomeInvariant
<1>6. CASE Evaluate(w)
    <2>1. m \in Messages /\ worker[w].pc # "idle"
        BY <1>1, <1>6 DEF Evaluate
    <2>2. PICK s : /\ Become(w, s)
                   /\ s \in {Refusal(m, "failed"), Refusal(m, "suppressed"), Doing("load", m)}
        BY <1>6 DEF Evaluate, evaluateStoredMessage
    <2>3. s.msg = m /\ s.pc # "accepted"
        BY <1>2, <2>1, <2>2 DEF Pcs
    <2> QED
        BY <1>5, <1>6, <2>1, <2>2, <2>3 DEF Evaluate
<1>7. CASE LoadContent(w)
    <2>1. m \in Messages /\ worker[w].pc # "idle"
        BY <1>1, <1>7 DEF LoadContent
    <2>2. PICK s : /\ Become(w, s)
                   /\ s \in {Refusal(m, "failed"), Doing("transmit", m), Doing("ambiguous", m)}
        BY <1>7 DEF LoadContent
    <2>3. s.msg = m /\ s.pc # "accepted"
        BY <1>2, <2>1, <2>2 DEF Pcs
    <2> QED
        BY <1>5, <1>7, <2>1, <2>2, <2>3 DEF LoadContent
\* The provider takes m, of which no event can have come and no verdict is out.
<1>8. CASE Transmit(w)
    <2>1. m \in Messages /\ worker[w].pc = "transmit" /\ worker[w].pc # "idle"
        BY <1>1, <1>8 DEF Transmit
    <2>2. /\ \E s : /\ Become(w, s) /\ s.msg = m
                    /\ s.pc = "accepted" => handed'[m] > 0
          /\ handed'[m] \in Nat
          /\ \A n \in Messages \ {m} : handed'[n] = handed[n]
        <3>1. CASE Become(w, Accepted(m, clock)) /\ handed' = [handed EXCEPT ![m] = @ + 1]
            BY <1>2, <1>3, <2>1, <3>1 DEF TypeOK
        <3>2. CASE /\ Become(w, Doing("ambiguous", m))
                   /\ \E taken \in {0, 1} : handed' = [handed EXCEPT ![m] = @ + taken]
            <4>1. Doing("ambiguous", m).msg = m /\ Doing("ambiguous", m).pc = "ambiguous"
                BY <1>2, <2>1 DEF Pcs
            <4> QED
                BY <2>1, <3>2, <4>1 DEF TypeOK
        <3>3. CASE Become(w, Doing("transient", m)) /\ UNCHANGED handed
            <4>1. Doing("transient", m).msg = m /\ Doing("transient", m).pc = "transient"
                BY <1>2, <2>1 DEF Pcs
            <4> QED
                BY <2>1, <3>3, <4>1 DEF TypeOK
        <3>4. CASE Become(w, Refusal(m, "failed")) /\ UNCHANGED handed
            <4>1. Refusal(m, "failed").msg = m /\ Refusal(m, "failed").pc = "refuse"
                BY <1>2, <2>1
            <4> QED
                BY <2>1, <3>4, <4>1 DEF TypeOK
        <3> QED
            BY <1>8, <3>1, <3>2, <3>3, <3>4 DEF Transmit
    <2>3. UNCHANGED <<status, ledger, usageJobs, accepted, published, ingested, lastEventAt>>
        BY <1>8 DEF Transmit
    <2>4. \A n \in Messages \ {m} : RowKept(n)
        BY <2>2, <2>3 DEF RowKept
    <2>5. RowAgrees(m)'
        BY <1>3, <2>1, <2>2, <2>3 DEF RowAgrees, Billed, Verdicts
    <2>6. HolderAgrees'
        <3>1. PICK s : Become(w, s) /\ s.msg = m /\ (s.pc = "accepted" => handed'[m] > 0)
            BY <2>2
        <3>2. worker[w] # Idle /\ worker'[w] = s /\ \A v \in Workers \ {w} : worker'[v] = worker[v]
            BY <1>1, <1>4, <2>1, <3>1
        <3>3. \A n \in Messages : handed[n] > 0 => handed'[n] > 0
            BY <1>3, <2>1, <2>2
        <3> QED
            BY <2>3, <3>1, <3>2, <3>3, HolderQuietStep DEF OutcomeInvariant
    <2>7. CountersAgree'
        BY <2>3, SameCounters DEF OutcomeInvariant
    <2> QED
        BY <2>1, <2>4, <2>5, <2>6, <2>7, OneRowStep
<1>9. CASE CommitAccepted(w)
    <2>1. m \in Messages /\ worker[w].pc = "accepted" /\ worker[w].pc # "idle" /\ worker[w].at \in Times
        BY <1>1, <1>9 DEF CommitAccepted
    <2>2. CASE /\ StillSending(m)
               /\ status' = [status EXCEPT ![m] = "sent"]
               /\ recordAcceptedUsage(m, worker[w].at)
               /\ published' = [published EXCEPT ![m] = @ \cup {"sent"}]
               /\ Committed(w, Idle, Doing("ambiguous", m))
        <3>1. worker'[w] = Idle /\ \A v \in Workers \ {w} : worker'[v] = worker[v]
            BY <1>4, <2>2, CommittedFacts
        <3>2. UNCHANGED <<ingested, lastEventAt, handed>>
            BY <1>9 DEF CommitAccepted
        <3>3. Billed(m)' /\ \A n \in Messages \ {m} : ledger'[n] = ledger[n]
            BY <2>1, <2>2, RecordRow
        <3>4. \A n \in Messages \ {m} : RowKept(n)
            BY <2>1, <2>2, <3>2, <3>3 DEF RowKept, TypeOK
        <3>5. RowAgrees(m)'
            <4>1. status'[m] = "sent" /\ published'[m] = published[m] \cup {"sent"}
                BY <2>1, <2>2 DEF TypeOK
            <4>2. ingested[m] = {} /\ lastEventAt[m] = NoTime
                BY <1>3, <2>1, <2>2 DEF RowAgrees, StillSending
            <4> QED
                BY <1>3, <2>1, <3>2, <3>3, <4>1, <4>2 DEF RowAgrees, Verdicts, ProviderAccepted
        <3>6. HolderAgrees'
            <4>1. \A v \in Workers \ {w} : worker[v] # Idle => published'[worker[v].msg] = published[worker[v].msg]
                BY <1>3, <2>1, <2>2, WorkerStateShape DEF TypeOK
            <4> QED
                BY <2>1, <3>1, <3>2, <4>1, HolderQuietStep DEF OutcomeInvariant
        <3>7. CountersAgree'
            BY <2>1, <2>2, RecordCounts DEF OutcomeInvariant
        <3> QED
            BY <2>1, <3>4, <3>5, <3>6, <3>7, OneRowStep
    <2>3. CASE Become(w, Doing("ambiguous", m)) /\ UNCHANGED <<status, usage, published>>
        <3>1. Doing("ambiguous", m).msg = m /\ Doing("ambiguous", m).pc = "ambiguous"
            BY <1>2, <2>1 DEF Pcs
        <3>2. UNCHANGED <<ingested, lastEventAt, handed>>
            BY <1>9 DEF CommitAccepted
        <3> QED
            BY <1>5, <2>1, <2>3, <3>1, <3>2
    <2> QED
        BY <1>9, <2>2, <2>3 DEF CommitAccepted
\* Out of the send path: to unknown, with a verdict, or back to the queue.
<1>10. ASSUME worker[w].pc # "idle", NEW to \in Statuses \ ProviderAccepted, NEW said \in SUBSET Verdicts,
              StillSending(m), worker'[w] = Idle, \A v \in Workers \ {w} : worker'[v] = worker[v],
              status' = [status EXCEPT ![m] = to],
              published' = [published EXCEPT ![m] = @ \cup said],
              \/ said = {}
              \/ said = {to} /\ handed[m] = 0,
              to \in {"failed", "suppressed"} => said = {to},
              UNCHANGED <<ledger, usageJobs, accepted, ingested, lastEventAt, handed>>
       PROVE  OutcomeInvariant'
    <2>1. m \in Messages
        BY <1>1, <1>10
    <2>2. status'[m] = to /\ published'[m] = published[m] \cup said
        BY <1>10, <2>1 DEF TypeOK
    <2>3. ingested[m] = {} /\ lastEventAt[m] = NoTime /\ ~Billed(m)
        BY <1>3, <1>10 DEF RowAgrees, StillSending, ProviderAccepted
    <2>4. RowAgrees(m)'
        BY <1>3, <1>10, <2>2, <2>3 DEF RowAgrees, Billed, Verdicts, ProviderAccepted
    <2>5. \A n \in Messages \ {m} : RowKept(n)
        BY <1>10, <2>1 DEF RowKept, TypeOK
    <2>6. HolderAgrees'
        <3>1. \A v \in Workers \ {w} : worker[v] # Idle => published'[worker[v].msg] = published[worker[v].msg]
            BY <1>3, <1>10, <2>1, WorkerStateShape DEF TypeOK
        <3> QED
            BY <1>10, <3>1, HolderQuietStep DEF OutcomeInvariant
    <2>7. CountersAgree'
        BY <1>10, SameCounters DEF OutcomeInvariant
    <2> QED
        BY <2>1, <2>4, <2>5, <2>6, <2>7, OneRowStep
<1>11. ASSUME m \in Messages
       PROVE  Doing("ambiguous", m).msg = m /\ Doing("fallback", m).msg = m
              /\ Doing("ambiguous", m).pc = "ambiguous" /\ Doing("fallback", m).pc = "fallback"
    BY <1>2, <1>11 DEF Pcs
<1>12. CASE finalizeUnknown(w)
    <2>1. m \in Messages /\ worker[w].pc # "idle"
        BY <1>1, <1>12 DEF finalizeUnknown
    <2>2. Become(w, Idle)
        BY <1>12, CommittedFacts DEF finalizeUnknown
    <2>3. CASE StillSending(m) /\ status' = [status EXCEPT ![m] = "unknown"]
        <3>1. published' = [published EXCEPT ![m] = @ \cup {}]
            BY <1>12, <2>1 DEF finalizeUnknown, TypeOK
        <3>2. UNCHANGED <<ledger, usageJobs, accepted, ingested, lastEventAt, handed>>
            BY <1>12 DEF finalizeUnknown
        <3>3. "unknown" \in Statuses \ ProviderAccepted /\ {} \in SUBSET Verdicts
            BY DEF Statuses, ProviderAccepted
        <3> QED
            BY <1>4, <1>10, <2>1, <2>2, <2>3, <3>1, <3>2, <3>3
    <2>4. CASE UNCHANGED status
        BY <1>5, <1>12, <2>1, <2>2, <2>4 DEF finalizeUnknown
    <2> QED
        BY <1>12, <2>3, <2>4 DEF finalizeUnknown
<1>13. CASE finalizeTerminal(w)
    <2>1. /\ m \in Messages /\ worker[w].pc # "idle" /\ handed[m] = 0
          /\ worker[w].verdict \in {"failed", "suppressed"}
        BY <1>1, <1>3, <1>13 DEF finalizeTerminal
    <2> DEFINE verdict == worker[w].verdict
    <2>2. CASE /\ StillSending(m) /\ status' = [status EXCEPT ![m] = verdict]
               /\ published' = [published EXCEPT ![m] = @ \cup {verdict}]
               /\ Committed(w, Idle, Doing("fallback", m))
        <3>1. worker'[w] = Idle /\ \A v \in Workers \ {w} : worker'[v] = worker[v]
            BY <1>4, <2>2, CommittedFacts
        <3>2. UNCHANGED <<ledger, usageJobs, accepted, ingested, lastEventAt, handed>>
            BY <1>13 DEF finalizeTerminal
        <3>3. verdict \in Statuses \ ProviderAccepted /\ {verdict} \in SUBSET Verdicts
            BY <2>1 DEF Statuses, ProviderAccepted, Verdicts
        <3> QED
            BY <1>10, <2>1, <2>2, <3>1, <3>2, <3>3
    <2>3. CASE UNCHANGED <<status, published>> /\ (Become(w, Idle) \/ Become(w, Doing("fallback", m)))
        BY <1>5, <1>11, <1>13, <2>1, <2>3 DEF finalizeTerminal
    <2> QED
        BY <1>13, <2>2, <2>3 DEF finalizeTerminal
<1>14. CASE Requeue(w)
    <2>1. m \in Messages /\ worker[w].pc # "idle"
        BY <1>1, <1>14 DEF Requeue
    <2>2. CASE /\ StillSending(m) /\ status' = [status EXCEPT ![m] = "queued"]
               /\ Committed(w, Idle, Doing("fallback", m))
        <3>1. worker'[w] = Idle /\ \A v \in Workers \ {w} : worker'[v] = worker[v]
            BY <1>4, <2>2, CommittedFacts
        <3>2. published' = [published EXCEPT ![m] = @ \cup {}]
            BY <1>14, <2>1 DEF Requeue, TypeOK
        <3>3. UNCHANGED <<ledger, usageJobs, accepted, ingested, lastEventAt, handed>>
            BY <1>14 DEF Requeue
        <3>4. "queued" \in Statuses \ ProviderAccepted /\ {} \in SUBSET Verdicts
            BY DEF Statuses, ProviderAccepted
        <3> QED
            BY <1>10, <2>1, <2>2, <3>1, <3>2, <3>3, <3>4
    <2>3. CASE UNCHANGED status /\ (Become(w, Idle) \/ Become(w, Doing("fallback", m)))
        BY <1>5, <1>11, <1>14, <2>1, <2>3 DEF Requeue
    <2> QED
        BY <1>14, <2>2, <2>3 DEF Requeue
<1>15. CASE GiveBack(w)
    <2>1. m \in Messages /\ worker[w].pc # "idle" /\ Become(w, Idle)
        BY <1>1, <1>15 DEF GiveBack
    <2>2. CASE StillSending(m) /\ status' = [status EXCEPT ![m] = "queued"]
        <3>1. worker'[w] = Idle /\ \A v \in Workers \ {w} : worker'[v] = worker[v]
            BY <1>4, <2>1
        <3>2. published' = [published EXCEPT ![m] = @ \cup {}]
            BY <1>15, <2>1 DEF GiveBack, TypeOK
        <3>3. UNCHANGED <<ledger, usageJobs, accepted, ingested, lastEventAt, handed>>
            BY <1>15 DEF GiveBack
        <3>4. "queued" \in Statuses \ ProviderAccepted /\ {} \in SUBSET Verdicts
            BY DEF Statuses, ProviderAccepted
        <3> QED
            BY <1>10, <2>1, <2>2, <3>1, <3>2, <3>3, <3>4
    <2>3. CASE UNCHANGED status
        BY <1>5, <1>15, <2>1, <2>3 DEF GiveBack
    <2>4. ~StillSending(m) /\ status' = [status EXCEPT ![m] = status[m]] => UNCHANGED status
        BY <2>1 DEF TypeOK
    <2> QED
        BY <1>15, <2>2, <2>3, <2>4 DEF GiveBack
<1> QED
    BY <1>6, <1>7, <1>8, <1>9, <1>12, <1>13, <1>14, <1>15 DEF WorkerStep

\* A step that touches no invocation and leaves the handovers alone.
LEMMA HolderKept ==
    ASSUME TypeOK, HolderAgrees, UNCHANGED <<worker, handed>>, NEW m \in Messages,
           published'[m] = published[m] \/ \A w \in Workers : worker[w] # Idle => worker[w].msg # m,
           \A n \in Messages \ {m} : published'[n] = published[n]
    PROVE  HolderAgrees'
<1>1. \A w \in Workers : worker[w] # Idle => worker[w].msg \in Messages
    BY WorkerStateShape DEF TypeOK
<1> QED
    BY <1>1 DEF HolderAgrees

(* A provider speaks only of what it took: the row it finds is being sent, *)
(* in doubt or accepted, and an event that accepts it creates its ledger.  *)
LEMMA OutcomeEventStep ==
    ASSUME TypeOK, SendPathInvariant, OutcomeInvariant,
           NEW m \in Messages, NEW type \in TransportEvents, NEW t \in Times,
           ingestProviderEvent(m, type, t)
    PROVE  OutcomeInvariant'
<1> DEFINE acceptedAt == IF ambiguousAt[m] # NoTime /\ ambiguousAt[m] < t
                         THEN ambiguousAt[m] ELSE t
           stale == lastEventAt[m] # NoTime /\ t < lastEventAt[m]
<1> USE DEF history, provider
<1>1. /\ type \in EventTypes /\ handed[m] > 0 /\ MayReport(m, type)
      /\ RowAgrees(m) /\ status[m] \in Statuses /\ acceptedAt \in Times
    BY EventsAssumption DEF ingestProviderEvent, MayReport, OutcomeInvariant, TypeOK
<1>2. status[m] \in {"sending", "unknown"} \cup ProviderAccepted
    BY <1>1 DEF RowAgrees, MayReport, SendPathInvariant, HandedIsClaimed, Statuses, ProviderAccepted
<1>3. /\ UNCHANGED <<published, worker, handed>>
      /\ ingested'[m] = ingested[m] \cup {type}
      /\ status'[m] = IF stale /\ type \notin safetyEvents THEN status[m]
                      ELSE monotonicMessageStatus(status[m], type)
      /\ \A n \in Messages \ {m} :
           /\ status'[n] = status[n] /\ ingested'[n] = ingested[n]
           /\ lastEventAt'[n] = lastEventAt[n]
    BY DEF ingestProviderEvent, TypeOK
<1>4. CASE ConfirmsAcceptance(m, type)
    <2>1. recordAcceptedUsage(m, acceptedAt)
        BY <1>4 DEF ingestProviderEvent
    <2>2. Billed(m)' /\ \A n \in Messages \ {m} : ledger'[n] = ledger[n]
        <3> HIDE DEF acceptedAt
        <3> QED
            BY <1>1, <2>1, RecordRow
    <2>3. CountersAgree'
        <3> HIDE DEF acceptedAt
        <3> QED
            BY <1>1, <2>1, RecordCounts DEF OutcomeInvariant
    <2>4. status'[m] = type /\ type \in ProviderAccepted
        BY <1>1, <1>3, <1>4 DEF ConfirmsAcceptance, RowAgrees, acceptanceEvents, ProviderAccepted,
                                monotonicMessageStatus, statusRank, Statuses
    <2>5. RowAgrees(m)'
        BY <1>1, <1>3, <2>2, <2>4 DEF RowAgrees, ProviderAccepted
    <2>6. \A n \in Messages \ {m} : RowKept(n)
        BY <1>3, <2>2 DEF RowKept
    <2>7. HolderAgrees'
        BY <1>3, HolderKept DEF OutcomeInvariant
    <2> QED
        BY <2>3, <2>5, <2>6, <2>7, OneRowStep
<1>5. CASE ~ConfirmsAcceptance(m, type)
    <2>1. UNCHANGED <<ledger, usageJobs, accepted>>
        BY <1>5 DEF ingestProviderEvent, usage
    <2>2. \/ status[m] \in ProviderAccepted /\ status'[m] \in ProviderAccepted \cup {"failed"}
          \/ status'[m] = "failed"
        BY <1>1, <1>2, <1>3, <1>5
           DEF ConfirmsAcceptance, RowAgrees, acceptanceEvents, ProviderAccepted, EventTypes,
               monotonicMessageStatus, statusRank, Statuses
    <2>3. status'[m] = "failed" => type = "failed"
        BY <1>2, <1>3 DEF ProviderAccepted, monotonicMessageStatus
    <2>4. RowAgrees(m)'
        BY <1>1, <1>3, <2>1, <2>2, <2>3 DEF RowAgrees, Billed, ProviderAccepted
    <2>5. \A n \in Messages \ {m} : RowKept(n)
        BY <1>3, <2>1 DEF RowKept
    <2>6. HolderAgrees'
        BY <1>3, HolderKept DEF OutcomeInvariant
    <2>7. CountersAgree'
        BY <2>1, SameCounters DEF OutcomeInvariant
    <2> QED
        BY <2>4, <2>5, <2>6, <2>7, OneRowStep
<1> QED
    BY <1>4, <1>5

LEMMA OutcomeNext ==
    ASSUME ~LostAcks, TypeOK, TypeOK', SendPathInvariant, OutcomeInvariant, [Next]_vars
    PROVE  OutcomeInvariant'
<1> USE DEF message, usage, history, provider
<1>1. \A w \in Workers : worker[w] # Idle =>
        worker[w].msg \in Messages /\ status[worker[w].msg] \notin {"none", "queued"}
    BY WorkerStateShape DEF TypeOK, SendPathInvariant, HeldIsClaimed
<1>2. ASSUME NEW m \in Messages
      PROVE  RowAgrees(m) /\ (status[m] \in {"none", "queued"} => handed[m] = 0)
    BY <1>2 DEF OutcomeInvariant, SendPathInvariant, HandedIsClaimed, TypeOK
<1>3. ASSUME NEW m \in Messages, Accept(m) PROVE OutcomeInvariant'
    <2>1. status[m] = "none" /\ status'[m] = "queued" /\ published'[m] = published[m] \cup {"queued"}
        BY <1>3 DEF Accept, TypeOK
    <2>2. UNCHANGED <<ledger, usageJobs, accepted, ingested, lastEventAt, handed, worker>>
        BY <1>3 DEF Accept
    <2>3. \A n \in Messages \ {m} : published'[n] = published[n] /\ status'[n] = status[n]
        BY <1>3 DEF Accept, TypeOK
    <2>4. RowAgrees(m)'
        BY <1>2, <2>1, <2>2 DEF RowAgrees, Billed, ProviderAccepted, Verdicts
    <2>5. HolderAgrees'
        BY <1>1, <2>1, <2>2, <2>3, HolderKept DEF OutcomeInvariant
    <2>6. CountersAgree'
        BY <2>2, SameCounters DEF OutcomeInvariant
    <2> QED
        BY <2>2, <2>3, <2>4, <2>5, <2>6, OneRowStep DEF RowKept
<1>4. ASSUME NEW m \in Messages, recoverStaleSending(m) PROVE OutcomeInvariant'
    <2>1. status[m] = "sending" /\ status'[m] = "unknown"
        BY <1>4 DEF recoverStaleSending, StaleClaim, TypeOK
    <2>2. UNCHANGED <<ledger, usageJobs, accepted, published, ingested, lastEventAt, handed, worker>>
        BY <1>4 DEF recoverStaleSending
    <2>3. \A n \in Messages \ {m} : status'[n] = status[n]
        BY <1>4 DEF recoverStaleSending, TypeOK
    <2>4. RowAgrees(m)'
        BY <1>2, <2>1, <2>2 DEF RowAgrees, Billed, ProviderAccepted
    <2>5. HolderAgrees'
        BY <2>2, HolderKept DEF OutcomeInvariant
    <2>6. CountersAgree'
        BY <2>2, SameCounters DEF OutcomeInvariant
    <2> QED
        BY <2>2, <2>3, <2>4, <2>5, <2>6, OneRowStep DEF RowKept
<1>5. ASSUME NEW m \in Messages, expireQueuedPastDeadline(m) PROVE OutcomeInvariant'
    <2>1. /\ status[m] = "queued" /\ status'[m] = "failed"
          /\ published'[m] = published[m] \cup {"failed"}
        BY <1>5 DEF expireQueuedPastDeadline, Expirable, TypeOK
    <2>2. UNCHANGED <<ledger, usageJobs, accepted, ingested, lastEventAt, handed, worker>>
        BY <1>5 DEF expireQueuedPastDeadline
    <2>3. \A n \in Messages \ {m} : published'[n] = published[n] /\ status'[n] = status[n]
        BY <1>5 DEF expireQueuedPastDeadline, TypeOK
    <2>4. RowAgrees(m)'
        BY <1>2, <2>1, <2>2 DEF RowAgrees, Billed, ProviderAccepted, Verdicts
    <2>5. HolderAgrees'
        BY <1>1, <2>1, <2>2, <2>3, HolderKept DEF OutcomeInvariant
    <2>6. CountersAgree'
        BY <2>2, SameCounters DEF OutcomeInvariant
    <2> QED
        BY <2>2, <2>3, <2>4, <2>5, <2>6, OneRowStep DEF RowKept
<1>6. ASSUME NEW w \in Workers, NEW m \in Messages, Claim(w, m) PROVE OutcomeInvariant'
    <2>1. status[m] = "queued" /\ status'[m] = "sending"
        BY <1>6 DEF Claim, Claimable, TypeOK
    <2>2. UNCHANGED <<ledger, usageJobs, accepted, published, ingested, lastEventAt, handed>>
        BY <1>6 DEF Claim
    <2>3. \A n \in Messages \ {m} : status'[n] = status[n]
        BY <1>6 DEF Claim, TypeOK
    <2>4. RowAgrees(m)' /\ published[m] \cap Verdicts = {}
        BY <1>2, <2>1, <2>2 DEF RowAgrees, Billed, ProviderAccepted
    <2>5. HolderAgrees'
        <3>1. /\ worker'[w].msg = m /\ worker'[w].pc = "check"
              /\ \A v \in Workers \ {w} : worker'[v] = worker[v]
            BY <1>6, BecomeFacts, WorkerStateMakers DEF Claim, TypeOK, Pcs
        <3> QED
            BY <2>2, <2>4, <3>1 DEF HolderAgrees, OutcomeInvariant
    <2>6. CountersAgree'
        BY <2>2, SameCounters DEF OutcomeInvariant
    <2> QED
        BY <2>2, <2>3, <2>4, <2>5, <2>6, OneRowStep DEF RowKept
<1>7. ASSUME NEW w \in Workers, Crash(w) PROVE OutcomeInvariant'
    <2>1. UNCHANGED <<status, ledger, usageJobs, accepted, published, ingested, lastEventAt, handed>>
        BY <1>7 DEF Crash
    <2>2. worker'[w] = Idle /\ \A v \in Workers \ {w} : worker'[v] = worker[v]
        BY <1>7, BecomeFacts DEF Crash, TypeOK
    <2>3. \A n \in Messages : RowAgrees(n)'
        BY <2>1, KeptAgrees DEF OutcomeInvariant, RowKept
    <2>4. HolderAgrees'
        BY <2>1, <2>2 DEF HolderAgrees, OutcomeInvariant
    <2>5. CountersAgree'
        BY <2>1, SameCounters DEF OutcomeInvariant
    <2> QED
        BY <2>3, <2>4, <2>5 DEF OutcomeInvariant
<1>8. CASE Tick \/ UNCHANGED vars
    <2>1. UNCHANGED <<status, ledger, usageJobs, accepted, published, ingested, lastEventAt, handed, worker>>
        BY <1>8 DEF Tick, vars
    <2>2. \A n \in Messages : RowAgrees(n)'
        BY <2>1, KeptAgrees DEF OutcomeInvariant, RowKept
    <2>3. HolderAgrees'
        BY <2>1 DEF HolderAgrees, OutcomeInvariant
    <2>4. CountersAgree'
        BY <2>1, SameCounters DEF OutcomeInvariant
    <2> QED
        BY <2>2, <2>3, <2>4 DEF OutcomeInvariant
<1> QED
    BY <1>3, <1>4, <1>5, <1>6, <1>7, <1>8, OutcomeEventStep, OutcomeWorkerStep DEF Next

(* The inductive invariant holds of every behaviour of the send path.      *)
THEOREM OutcomeAgrees ==
    ASSUME ~LostAcks
    PROVE  Spec => [](SendPathInvariant /\ OutcomeInvariant)
<1>1. Init => SendPathInvariant /\ OutcomeInvariant
    BY SendPathInit, OutcomeInit
<1>2. TypeOK /\ TypeOK' /\ SendPathInvariant /\ OutcomeInvariant /\ [Next]_vars
        => SendPathInvariant' /\ OutcomeInvariant'
    BY SendPathNext, OutcomeNext
<1> QED
    BY <1>1, <1>2, TypeCorrect, PTL DEF Spec

-----------------------------------------------------------------------------
(* The usage jobs.  A ledger row is dated before it is written, and its job *)
(* depends on the subscription found when it is written.                   *)
HeldDates ==
    \A w \in Workers : worker[w] # Idle /\ worker[w].pc = "accepted" => worker[w].at <= clock

LEMMA JobsKeptStep ==
    ASSUME TypeOK, JobsFollowSubscription, UNCHANGED <<ledger, usageJobs>>,
           clock' \in Times, clock <= clock'
    PROVE  JobsFollowSubscription'
<1>1. ASSUME NEW m \in Messages, NEW found \in BOOLEAN, MayHaveFound(m, found)
      PROVE  MayHaveFound(m, found)'
    <2>1. PICK t \in ledger[m]..clock : found \in Metered[t]
        BY <1>1 DEF MayHaveFound
    <2>2. ledger'[m] = ledger[m] /\ ledger[m] \in Int /\ clock \in Int /\ clock' \in Int
        BY DEF TypeOK, Times, NoTime
    <2>3. t \in ledger'[m]..clock'
        BY <2>1, <2>2
    <2> QED
        BY <2>1, <2>3 DEF MayHaveFound
<1> QED
    BY <1>1 DEF JobsFollowSubscription, Billed

LEMMA JobsRecordStep ==
    ASSUME TypeOK, JobsFollowSubscription, NEW m \in Messages, NEW at \in Times,
           at <= clock, recordAcceptedUsage(m, at), UNCHANGED clock
    PROVE  JobsFollowSubscription'
<1>0. clock \in Times /\ clock \in Int
    BY DEF TypeOK, Times
<1>1. CASE ledger[m] # NoTime
    BY <1>0, <1>1, JobsKeptStep DEF recordAcceptedUsage
<1>2. CASE ledger[m] = NoTime
    <2>1. PICK found \in Metered[clock] :
              usageJobs' = IF found THEN usageJobs \cup {m} ELSE usageJobs
        BY <1>2 DEF recordAcceptedUsage
    <2>2. ledger' = [ledger EXCEPT ![m] = at] /\ ledger'[m] = at
        BY <1>2 DEF recordAcceptedUsage, TypeOK
    <2>3. found \in BOOLEAN
        BY <1>0, <2>1, MeteredAssumption DEF Times
    <2>4. MayHaveFound(m, found)'
        <3>1. clock \in ledger'[m]..clock'
            BY <1>0, <2>2 DEF Times
        <3> QED
            BY <2>1, <3>1 DEF MayHaveFound
    <2>5. m \notin usageJobs /\ Billed(m)'
        <3>1. at # NoTime /\ ~Billed(m)
            BY <1>2 DEF Billed, Times, NoTime
        <3> QED
            BY <2>2, <3>1 DEF JobsFollowSubscription, Billed
    <2>6. ASSUME NEW n \in Messages \ {m}
          PROVE  /\ n \in usageJobs' <=> n \in usageJobs
                 /\ Billed(n)' <=> Billed(n)
                 /\ \A f : MayHaveFound(n, f)' <=> MayHaveFound(n, f)
        BY <2>1, <2>2 DEF Billed, MayHaveFound, TypeOK
    <2>7. (m \in usageJobs' <=> found = TRUE) /\ (found = TRUE \/ found = FALSE)
        BY <2>1, <2>3, <2>5
    <2> QED
        BY <2>4, <2>5, <2>6, <2>7 DEF JobsFollowSubscription
<1> QED
    BY <1>1, <1>2

(* What an invocation goes on with; only an acceptance has a date, now.    *)
LEMMA HeldDateStep ==
    ASSUME TypeOK, NEW w \in Workers, WorkerStep(w)
    PROVE  \E s : Become(w, s) /\ (s.pc = "accepted" => s.at <= clock)
<1> DEFINE m == worker[w].msg
           Fine(s) == s.pc = "accepted" => s.at <= clock
<1>1. m \in Messages /\ clock \in Times /\ clock <= clock
      /\ (worker[w].pc = "refuse" => worker[w].verdict \in {"failed", "suppressed"})
    BY WorkerStateShape DEF TypeOK, WorkerStep, Evaluate, LoadContent, Transmit, CommitAccepted,
                            finalizeUnknown, finalizeTerminal, Requeue, GiveBack, Idle, Times
<1>2. /\ Fine(Idle) /\ Fine(Accepted(m, clock))
      /\ Fine(Refusal(m, "failed")) /\ Fine(Refusal(m, "suppressed"))
    BY <1>1 DEF Idle, Accepted, Refusal
<1>3. /\ Fine(Doing("load", m)) /\ Fine(Doing("transmit", m)) /\ Fine(Doing("ambiguous", m))
      /\ Fine(Doing("transient", m)) /\ Fine(Doing("fallback", m))
    BY DEF Doing
<1> SUFFICES \E s : Become(w, s) /\ Fine(s)
    OBVIOUS
<1> HIDE DEF Fine
<1>4. CASE Evaluate(w)
    BY <1>2, <1>3, <1>4 DEF Evaluate, evaluateStoredMessage
<1>5. CASE LoadContent(w)
    BY <1>2, <1>3, <1>5 DEF LoadContent
<1>6. CASE Transmit(w)
    BY <1>2, <1>3, <1>6 DEF Transmit
<1>7. CASE CommitAccepted(w)
    BY <1>2, <1>3, <1>7 DEF CommitAccepted, Committed
<1>8. CASE finalizeUnknown(w)
    BY <1>2, <1>3, <1>8 DEF finalizeUnknown, Committed
<1>9. CASE finalizeTerminal(w)
    BY <1>2, <1>3, <1>9 DEF finalizeTerminal, Committed
<1>10. CASE Requeue(w)
    BY <1>2, <1>3, <1>10 DEF Requeue, Committed
<1>11. CASE GiveBack(w)
    BY <1>2, <1>11 DEF GiveBack
<1> QED
    BY <1>4, <1>5, <1>6, <1>7, <1>8, <1>9, <1>10, <1>11 DEF WorkerStep

LEMMA JobsNext ==
    ASSUME TypeOK, TypeOK', HeldDates, JobsFollowSubscription, [Next]_vars
    PROVE  HeldDates' /\ JobsFollowSubscription'
<1> USE DEF message, usage, history, provider
<1>0. clock \in Times /\ clock' \in Times /\ clock \in Int
    BY DEF TypeOK, Times
<1>1. ASSUME NEW w \in Workers, WorkerStep(w) PROVE HeldDates' /\ JobsFollowSubscription'
    <2>1. UNCHANGED clock
        BY <1>1 DEF WorkerStep, Evaluate, LoadContent, Transmit, CommitAccepted, finalizeUnknown,
                    finalizeTerminal, Requeue, GiveBack
    <2>2. PICK s : Become(w, s) /\ (s.pc = "accepted" => s.at <= clock)
        BY <1>1, HeldDateStep
    <2>3. worker'[w] = s /\ \A v \in Workers \ {w} : worker'[v] = worker[v]
        BY <2>2, BecomeFacts DEF TypeOK
    <2>4. HeldDates'
        BY <2>1, <2>2, <2>3 DEF HeldDates
    <2>5. JobsFollowSubscription'
        <3>1. CASE UNCHANGED <<ledger, usageJobs>>
            BY <1>0, <2>1, <3>1, JobsKeptStep
        <3>2. CASE ~UNCHANGED <<ledger, usageJobs>>
            <4>1. CommitAccepted(w)
                BY <1>1, <3>2 DEF WorkerStep, Evaluate, LoadContent, Transmit, finalizeUnknown,
                                  finalizeTerminal, Requeue, GiveBack
            <4>2. recordAcceptedUsage(worker[w].msg, worker[w].at) /\ worker[w].pc = "accepted"
                BY <3>2, <4>1 DEF CommitAccepted
            <4>3. worker[w].msg \in Messages /\ worker[w].at \in Times /\ worker[w].at <= clock
                BY <4>2, WorkerStateShape DEF TypeOK, HeldDates, Idle
            <4> QED
                BY <2>1, <4>2, <4>3, JobsRecordStep
        <3> QED
            BY <3>1, <3>2
    <2> QED
        BY <2>4, <2>5
<1>2. ASSUME NEW m \in Messages, NEW type \in TransportEvents, NEW t \in Times,
             ingestProviderEvent(m, type, t)
      PROVE  HeldDates' /\ JobsFollowSubscription'
    <2> DEFINE acceptedAt == IF ambiguousAt[m] # NoTime /\ ambiguousAt[m] < t
                             THEN ambiguousAt[m] ELSE t
    <2>1. UNCHANGED <<clock, worker>> /\ t <= clock
        BY <1>2 DEF ingestProviderEvent
    <2>2. acceptedAt \in Times /\ acceptedAt <= clock
        BY <1>0, <2>1 DEF TypeOK, Times, NoTime
    <2>3. recordAcceptedUsage(m, acceptedAt) \/ UNCHANGED <<ledger, usageJobs>>
        BY <1>2 DEF ingestProviderEvent
    <2> HIDE DEF acceptedAt
    <2>4. JobsFollowSubscription'
        BY <1>0, <2>1, <2>2, <2>3, JobsRecordStep, JobsKeptStep
    <2> QED
        BY <2>1, <2>4 DEF HeldDates
<1>3. ASSUME NEW m \in Messages,
             Accept(m) \/ recoverStaleSending(m) \/ expireQueuedPastDeadline(m)
      PROVE  HeldDates' /\ JobsFollowSubscription'
    <2>1. UNCHANGED <<clock, worker, ledger, usageJobs>>
        BY <1>3 DEF Accept, recoverStaleSending, expireQueuedPastDeadline
    <2> QED
        BY <1>0, <2>1, JobsKeptStep DEF HeldDates
<1>4. ASSUME NEW w \in Workers, (\E m \in Messages : Claim(w, m)) \/ Crash(w)
      PROVE  HeldDates' /\ JobsFollowSubscription'
    <2>1. UNCHANGED <<clock, ledger, usageJobs>>
        BY <1>4 DEF Claim, Crash
    <2>2. /\ worker'[w] = Idle \/ worker'[w].pc = "check"
          /\ \A v \in Workers \ {w} : worker'[v] = worker[v]
        BY <1>4, BecomeFacts, WorkerStateMakers DEF Claim, Crash, TypeOK, Pcs
    <2> QED
        BY <1>0, <2>1, <2>2, JobsKeptStep DEF HeldDates
<1>5. CASE Tick
    <2>1. UNCHANGED <<worker, ledger, usageJobs>> /\ clock' = clock + 1
        BY <1>5 DEF Tick
    <2>2. JobsFollowSubscription'
        BY <1>0, <2>1, JobsKeptStep
    <2>3. \A w \in Workers : worker[w] # Idle /\ worker[w].pc = "accepted" => worker[w].at \in Int
        BY WorkerStateShape DEF TypeOK, Times, Idle
    <2> QED
        BY <1>0, <2>1, <2>2, <2>3 DEF HeldDates
<1>6. CASE UNCHANGED vars
    BY <1>0, <1>6, JobsKeptStep DEF vars, HeldDates
<1> QED
    BY <1>1, <1>2, <1>3, <1>4, <1>5, <1>6 DEF Next

(* A message has a usage job only if its ledger row was written when the   *)
(* workspace may have had a meterable subscription, and a row lacks one    *)
(* only if it may have had none, whatever is lost, crashes or comes late.  *)
THEOREM JobsAreFound == Spec => []JobsFollowSubscription
<1>1. Init => HeldDates /\ JobsFollowSubscription
    BY DEF Init, HeldDates, JobsFollowSubscription, Billed
<1>2. TypeOK /\ TypeOK' /\ HeldDates /\ JobsFollowSubscription /\ [Next]_vars
        => HeldDates' /\ JobsFollowSubscription'
    BY JobsNext
<1> QED
    BY <1>1, <1>2, TypeCorrect, PTL DEF Spec

(* Billing follows the outcome whoever wins the race between the worker's  *)
(* commit, the provider's event and the recovery (BillingMatchesOutcome).  *)
THEOREM BilledAsAccepted ==
    ASSUME ~LostAcks
    PROVE  Spec => []BillingMatchesOutcome
<1>1. SendPathInvariant /\ OutcomeInvariant /\ JobsFollowSubscription => BillingMatchesOutcome
    BY DEF OutcomeInvariant, RowAgrees, CountersAgree, BillingMatchesOutcome
<1> QED
    BY <1>1, OutcomeAgrees, JobsAreFound, PTL

(* What the worker or the expiry tells the customer of a refusal is final: *)
(* no provider took the message, before or after (VerdictIsFinal).         *)
THEOREM RefusalIsFinal ==
    ASSUME ~LostAcks
    PROVE  Spec => []VerdictIsFinal
<1>1. ASSUME SendPathInvariant, OutcomeInvariant PROVE VerdictIsFinal
    <2>1. SUFFICES ASSUME NEW m \in Messages
                   PROVE  /\ published[m] \cap {"failed", "suppressed"} # {} =>
                               handed[m] = 0 /\ ~Billed(m) /\ status[m] \in {"failed", "suppressed"}
                          /\ Cardinality(published[m] \cap {"sent", "failed", "suppressed"}) <= 1
        BY Zenon DEF VerdictIsFinal
    <2>2. RowAgrees(m)
        BY <1>1 DEF OutcomeInvariant
    <2> DEFINE said == published[m] \cap Verdicts
    <2>3. CASE said = {}
        BY <2>2, <2>3, FS_EmptySet DEF RowAgrees, Verdicts
    <2>4. CASE said # {}
        <3>1. PICK a : said = {a}
            BY <2>2, <2>4 DEF RowAgrees
        <3> HIDE DEF said
        <3>2. Cardinality(said) = 1
            BY <3>1, FS_Singleton
        <3> USE DEF said
        <3> QED
            BY <2>2, <3>2 DEF RowAgrees, Verdicts
    <2> QED
        BY <2>3, <2>4
<1> QED
    BY <1>1, OutcomeAgrees, PTL

-----------------------------------------------------------------------------
(***************************************************************************)
(* Delivery keeps the contract of MessageContract, and its outcomes only   *)
(* advance, for every value of the constants, as long as no                *)
(* acknowledgement of a COMMIT is lost.                                    *)
(*                                                                         *)
(* The argument: a step writes the status and the ledger of one message at *)
(* most, and moves them as RowMoves allows (the steps below); and a row    *)
(* that agrees with itself (OutcomeInvariant) can only be moved along the  *)
(* contract (the two lemmas after them).                                   *)
(***************************************************************************)
(* From where to where a status may go while the ledger is left alone.     *)
QuietMove(from, to) ==
    \/ to = from
    \/ from = "none"    /\ to = "queued"
    \/ from = "queued"  /\ to \in {"sending", "failed"}
    \/ from = "sending" /\ to \in {"queued", "unknown", "failed", "suppressed"}
    \/ from = "unknown" /\ to = "failed"
    \/ from \in ProviderAccepted /\ to \in ProviderAccepted \cup {"failed"}
         /\ statusRank[to] >= statusRank[from]

RowMoves(m) ==
    /\ \A n \in Messages \ {m} : status'[n] = status[n] /\ ledger'[n] = ledger[n]
    /\ \/ QuietMove(status[m], status'[m]) /\ ledger'[m] = ledger[m] /\ accepted' = accepted
       \/ /\ status[m] \in {"sending", "unknown"} /\ status'[m] \in ProviderAccepted
          /\ ledger[m] = NoTime /\ ledger'[m] # NoTime
          /\ \E d \in Days : accepted' = [accepted EXCEPT ![d] = @ + 1]

RowsMove == UNCHANGED <<status, ledger, accepted>> \/ \E m \in Messages : RowMoves(m)

-----------------------------------------------------------------------------
LEMMA RecordMoves ==
    ASSUME TypeOK, NEW m \in Messages, NEW at \in Times, ledger[m] = NoTime,
           recordAcceptedUsage(m, at)
    PROVE  /\ ledger'[m] # NoTime
           /\ \A n \in Messages \ {m} : ledger'[n] = ledger[n]
           /\ \E d \in Days : accepted' = [accepted EXCEPT ![d] = @ + 1]
BY DayOfTime DEF recordAcceptedUsage, TypeOK, Times, NoTime

LEMMA QuietRow ==
    ASSUME TypeOK, NEW m \in Messages, NEW to, QuietMove(status[m], to),
           status' = [status EXCEPT ![m] = to], UNCHANGED <<ledger, accepted>>
    PROVE  RowsMove
BY DEF RowsMove, RowMoves, TypeOK

LEMMA EventMoves ==
    ASSUME TypeOK, SendPathInvariant, OutcomeInvariant,
           NEW m \in Messages, NEW type \in TransportEvents, NEW t \in Times,
           ingestProviderEvent(m, type, t)
    PROVE  RowsMove
<1> DEFINE acceptedAt == IF ambiguousAt[m] # NoTime /\ ambiguousAt[m] < t
                         THEN ambiguousAt[m] ELSE t
           stale == lastEventAt[m] # NoTime /\ t < lastEventAt[m]
<1>1. /\ type \in EventTypes /\ handed[m] > 0 /\ MayReport(m, type)
      /\ RowAgrees(m) /\ status[m] \in Statuses /\ acceptedAt \in Times
    BY EventsAssumption DEF ingestProviderEvent, MayReport, OutcomeInvariant, TypeOK
<1>2. status[m] \in {"sending", "unknown"} \cup ProviderAccepted
    BY <1>1 DEF RowAgrees, MayReport, SendPathInvariant, HandedIsClaimed, Statuses, ProviderAccepted
<1>3. /\ status'[m] = IF stale /\ type \notin safetyEvents THEN status[m]
                      ELSE monotonicMessageStatus(status[m], type)
      /\ \A n \in Messages \ {m} : status'[n] = status[n]
    BY DEF ingestProviderEvent, TypeOK
<1>4. status[m] \in {"sending", "unknown"} =>
        /\ ledger[m] = NoTime
        /\ status'[m] = type
    BY <1>1, <1>3 DEF RowAgrees, Billed, ProviderAccepted, monotonicMessageStatus, statusRank,
                      Statuses, EventTypes
<1>5. CASE ConfirmsAcceptance(m, type)
    <2>1. recordAcceptedUsage(m, acceptedAt)
        BY <1>5 DEF ingestProviderEvent
    <2>2. ledger[m] = NoTime /\ status'[m] = type /\ type \in ProviderAccepted
          /\ status[m] \in {"sending", "unknown"}
        BY <1>4, <1>5 DEF ConfirmsAcceptance, acceptanceEvents, ProviderAccepted
    <2> HIDE DEF acceptedAt
    <2> QED
        BY <1>1, <1>3, <2>1, <2>2, RecordMoves DEF RowsMove, RowMoves
<1>6. CASE ~ConfirmsAcceptance(m, type)
    <2>1. UNCHANGED <<ledger, accepted>>
        BY <1>6 DEF ingestProviderEvent, usage
    <2>2. QuietMove(status[m], status'[m])
        <3>1. CASE status[m] \in {"sending", "unknown"}
            BY <1>1, <1>4, <1>6, <3>1
               DEF ConfirmsAcceptance, acceptanceEvents, EventTypes, QuietMove
        <3>2. CASE status[m] \in ProviderAccepted
            BY <1>1, <1>3, <3>2 DEF QuietMove, monotonicMessageStatus, EventTypes, ProviderAccepted
        <3> QED
            BY <1>2, <3>1, <3>2
    <2> QED
        BY <1>3, <2>1, <2>2 DEF RowsMove, RowMoves
<1> QED
    BY <1>5, <1>6

LEMMA WorkerMoves ==
    ASSUME TypeOK, OutcomeInvariant, NEW w \in Workers, WorkerStep(w)
    PROVE  RowsMove
<1> USE DEF message, usage, history, provider
<1>0. PICK m \in Messages : m = worker[w].msg
    BY WorkerStateShape DEF TypeOK, WorkerStep, Evaluate, LoadContent, Transmit, CommitAccepted,
                            finalizeUnknown, finalizeTerminal, Requeue, GiveBack
<1> USE <1>0
<1>1. RowAgrees(m)
    BY DEF OutcomeInvariant
<1>2. CASE Evaluate(w) \/ LoadContent(w) \/ Transmit(w)
    BY <1>2 DEF Evaluate, LoadContent, Transmit, RowsMove
<1>3. CASE CommitAccepted(w)
    <2>1. CASE /\ StillSending(m)
               /\ status' = [status EXCEPT ![m] = "sent"]
               /\ recordAcceptedUsage(m, worker[w].at)
        <3>1. worker[w].at \in Times
            BY <1>3, WorkerStateShape DEF CommitAccepted, TypeOK
        <3>2. ledger[m] = NoTime /\ status[m] = "sending"
            BY <1>1, <2>1 DEF RowAgrees, Billed, StillSending, ProviderAccepted
        <3>3. status'[m] = "sent" /\ \A n \in Messages \ {m} : status'[n] = status[n]
            BY <2>1 DEF TypeOK
        <3> QED
            BY <2>1, <3>1, <3>2, <3>3, RecordMoves DEF RowsMove, RowMoves, ProviderAccepted
    <2>2. CASE UNCHANGED <<status, usage>>
        BY <2>2 DEF RowsMove
    <2> QED
        BY <1>3, <2>1, <2>2 DEF CommitAccepted
<1>4. CASE finalizeUnknown(w)
    BY <1>4, QuietRow DEF finalizeUnknown, StillSending, QuietMove, RowsMove
<1>5. CASE finalizeTerminal(w)
    <2>1. worker[w].verdict \in {"failed", "suppressed"}
        BY <1>5, WorkerStateShape DEF finalizeTerminal, TypeOK
    <2> QED
        BY <1>5, <2>1, QuietRow DEF finalizeTerminal, StillSending, QuietMove, RowsMove
<1>6. CASE Requeue(w)
    BY <1>6, QuietRow DEF Requeue, StillSending, QuietMove, RowsMove
<1>7. CASE GiveBack(w)
    <2>1. CASE status' = [status EXCEPT ![m] = IF StillSending(m) THEN "queued" ELSE @]
        <3>1. CASE StillSending(m)
            BY <1>7, <2>1, <3>1, QuietRow DEF GiveBack, StillSending, QuietMove
        <3>2. CASE ~StillSending(m)
            BY <1>7, <2>1, <3>2, QuietRow DEF GiveBack, QuietMove
        <3> QED
            BY <3>1, <3>2
    <2>2. CASE UNCHANGED status
        BY <1>7, <2>2 DEF GiveBack, RowsMove
    <2> QED
        BY <1>7, <2>1, <2>2 DEF GiveBack
<1> QED
    BY <1>2, <1>3, <1>4, <1>5, <1>6, <1>7 DEF WorkerStep

LEMMA EveryStepMoves ==
    ASSUME TypeOK, SendPathInvariant, OutcomeInvariant, [Next]_vars
    PROVE  RowsMove
<1> USE DEF message, usage, history, provider
<1>1. ASSUME NEW m \in Messages, Accept(m) PROVE RowsMove
    BY <1>1, QuietRow DEF Accept, QuietMove
<1>2. ASSUME NEW m \in Messages, recoverStaleSending(m) PROVE RowsMove
    BY <1>2, QuietRow DEF recoverStaleSending, StaleClaim, QuietMove
<1>3. ASSUME NEW m \in Messages, expireQueuedPastDeadline(m) PROVE RowsMove
    BY <1>3, QuietRow DEF expireQueuedPastDeadline, Expirable, QuietMove
<1>4. ASSUME NEW w \in Workers, NEW m \in Messages, Claim(w, m) PROVE RowsMove
    BY <1>4, QuietRow DEF Claim, Claimable, QuietMove
<1>5. ASSUME NEW w \in Workers, Crash(w) PROVE RowsMove
    BY <1>5 DEF Crash, RowsMove
<1>6. CASE Tick \/ UNCHANGED vars
    BY <1>6 DEF Tick, vars, RowsMove
<1> QED
    BY <1>1, <1>2, <1>3, <1>4, <1>5, <1>6, EventMoves, WorkerMoves DEF Next

-----------------------------------------------------------------------------
(* A row that agrees with itself moves along the contract, and advances.   *)
Advances(m) ==
    /\ Billed(m) => ledger'[m] = ledger[m]
    /\ Billed(m) => statusRank[status'[m]] >= statusRank[status[m]]
    /\ status[m] \notin InFlight \cup {"none"} => status'[m] \notin InFlight

LEMMA MovesAdvance ==
    ASSUME TypeOK, OutcomeInvariant, RowsMove
    PROVE  \A m \in Messages : Advances(m)
<1>1. SUFFICES ASSUME NEW m \in Messages PROVE Advances(m)
    OBVIOUS
<1>2. RowAgrees(m) /\ status[m] \in Statuses
    BY DEF OutcomeInvariant, TypeOK
<1>3. statusRank[status[m]] \in Nat
    BY <1>2 DEF statusRank, Statuses
<1>4. CASE status'[m] = status[m] /\ ledger'[m] = ledger[m]
    BY <1>3, <1>4 DEF Advances
<1>5. CASE RowMoves(m)
    BY <1>2, <1>3, <1>5
       DEF Advances, RowMoves, QuietMove, RowAgrees, Billed, ProviderAccepted, InFlight, Statuses
<1> QED
    BY <1>4, <1>5 DEF RowsMove, RowMoves

Phases == [m \in Messages |-> PhaseOf(m)]

LEMMA OthersKeepPhase ==
    ASSUME NEW n, status'[n] = status[n], ledger'[n] = ledger[n]
    PROVE  PhaseOf(n)' = PhaseOf(n)
BY DEF PhaseOf, Billed, HoldsReservation

LEMMA CountedOnce ==
    ASSUME TypeOK, NEW d \in Days, accepted' = [accepted EXCEPT ![d] = @ + 1]
    PROVE  accepted' # accepted
BY DEF TypeOK

LEMMA MovesKeepContract ==
    ASSUME TypeOK, OutcomeInvariant, RowsMove
    PROVE  [Contract!Next]_(Contract!cvars)
<1>1. CASE UNCHANGED <<status, ledger, accepted>>
    BY <1>1, OthersKeepPhase DEF Contract!cvars
<1>2. ASSUME NEW m \in Messages, RowMoves(m) PROVE [Contract!Next]_(Contract!cvars)
    <2>1. RowAgrees(m) /\ status[m] \in Statuses
        BY DEF OutcomeInvariant, TypeOK
    <2>2. \A n \in Messages \ {m} : PhaseOf(n)' = PhaseOf(n)
        BY <1>2, OthersKeepPhase DEF RowMoves
    <2>3. \A p : PhaseOf(m)' = p => Phases' = [Phases EXCEPT ![m] = p]
        BY <2>2 DEF Phases
    <2>4. CASE accepted' = accepted /\ PhaseOf(m)' = PhaseOf(m)
        BY <2>2, <2>4 DEF Contract!cvars
    <2>5. CASE accepted' = accepted /\ PhaseOf(m)' # PhaseOf(m)
        <3>1. QuietMove(status[m], status'[m]) /\ ledger'[m] = ledger[m]
            BY <1>2, <2>1, <2>5, CountedOnce DEF RowMoves, PhaseOf, TypeOK
        <3>2. Phases' = [Phases EXCEPT ![m] = PhaseOf(m)']
            BY <2>3
        <3>3. \/ PhaseOf(m) = "absent" /\ PhaseOf(m)' = "pending"
              \/ PhaseOf(m) = "pending" /\ PhaseOf(m)' = "inDoubt"
              \/ PhaseOf(m) \in {"pending", "inDoubt"} /\ PhaseOf(m)' = "refused"
            BY <2>1, <2>5, <3>1
               DEF PhaseOf, RowAgrees, Billed, HoldsReservation, InFlight, QuietMove, Statuses,
                   ProviderAccepted
        <3> QED
            BY <2>5, <3>2, <3>3
               DEF Phases, Contract!Next, Contract!Admit, Contract!Settle, Contract!Doubt, Contract!Refuse
    <2>6. CASE accepted' # accepted
        <3>1. /\ status[m] \in {"sending", "unknown"} /\ status'[m] \in ProviderAccepted
              /\ ledger[m] = NoTime /\ ledger'[m] # NoTime
            BY <1>2, <2>6 DEF RowMoves
        <3>2. PICK d \in Days : accepted' = [accepted EXCEPT ![d] = @ + 1]
            BY <1>2, <2>6 DEF RowMoves
        <3>3. PhaseOf(m) \in {"pending", "inDoubt"} /\ PhaseOf(m)' = "accepted"
            BY <3>1 DEF PhaseOf, Billed, HoldsReservation, InFlight, ProviderAccepted
        <3>4. Phases' = [Phases EXCEPT ![m] = "accepted"]
            BY <2>3, <3>3
        <3> QED
            BY <3>2, <3>3, <3>4
               DEF Phases, Contract!Next, Contract!Settle, Contract!Bill
    <2> QED
        BY <2>4, <2>5, <2>6
<1> QED
    BY <1>1, <1>2 DEF RowsMove

(* Delivery keeps the contract: each of its steps is one step of the       *)
(* contract or none, and outcomes only advance (KeepsContract).            *)
THEOREM ContractKept ==
    ASSUME ~LostAcks
    PROVE  Spec => KeepsContract
<1>1. ASSUME Init PROVE Contract!Init
    <2>1. ASSUME NEW m \in Messages PROVE PhaseOf(m) = "absent"
        <3>1. status[m] = "none" /\ ~Billed(m)
            BY <1>1 DEF Init, Billed
        <3> QED
            BY <3>1 DEF PhaseOf, HoldsReservation, InFlight
    <2>2. accepted = [d \in Days |-> 0]
        BY <1>1 DEF Init
    <2> QED
        BY <2>1, <2>2 DEF Contract!Init
<1>2. ASSUME TypeOK, SendPathInvariant, OutcomeInvariant, [Next]_vars
      PROVE  [Contract!Next]_(Contract!cvars)
    BY <1>2, EveryStepMoves, MovesKeepContract
<1>3. ASSUME TypeOK, SendPathInvariant, OutcomeInvariant, [Next]_vars
      PROVE  [\A m \in Messages : Advances(m)]_vars
    BY <1>3, EveryStepMoves, MovesAdvance
<1> QED
    BY <1>1, <1>2, <1>3, TypeCorrect, OutcomeAgrees, PTL
       DEF Spec, KeepsContract, Contract!Spec, OutcomesOnlyAdvance, Advances

-----------------------------------------------------------------------------
(***************************************************************************)
(* The daily counters, for every value of the constants: lost              *)
(* acknowledgements, crashes and expired leases included.                  *)
(*                                                                         *)
(* The argument: a reservation is given back by the very step that takes a *)
(* message out of the send path, so the counter of a day covers those that *)
(* are still in it; and what a day reserves and what it accepted for sure  *)
(* (Sure, below) never add up to more than the limit, because a message    *)
(* goes from the one to the other in one step.                             *)
(***************************************************************************)
(* Accepted on the day of its reservation, and never in doubt.             *)
Sure(d) == {m \in BilledOn(d) : Day(queuedAt[m]) = d /\ ambiguousAt[m] = NoTime}

RowHolds(m) ==
    /\ status[m] = "none" => ~Billed(m) /\ handed[m] = 0
    /\ status[m] = "unknown" => ambiguousAt[m] # NoTime
    /\ status[m] \in InFlight => queuedAt[m] \in Times
    /\ status[m] \in InFlight \cup {"none"} => lastEventAt[m] = NoTime
RowsHold ==
    /\ \A m \in Messages : RowHolds(m)
    /\ \A w \in Workers : worker[w] # Idle => status[worker[w].msg] # "none"
QuotaHolds ==
    \A d \in Days :
        /\ reserved[d] >= Cardinality(ReservedOn(d))
        /\ reserved[d] + Cardinality(Sure(d)) <= DailyLimit
QuotaInvariant == RowsHold /\ CountersAgree /\ QuotaHolds

-----------------------------------------------------------------------------
LEMMA Counted ==
    /\ \A d : IsFiniteSet(ReservedOn(d)) /\ IsFiniteSet(BilledOn(d)) /\ IsFiniteSet(Sure(d))
    /\ \A d : /\ Cardinality(ReservedOn(d)) \in Nat
              /\ Cardinality(BilledOn(d)) \in Nat
              /\ Cardinality(Sure(d)) \in Nat
              /\ Cardinality(Sure(d)) <= Cardinality(BilledOn(d))
<1>1. \A d : IsFiniteSet(ReservedOn(d)) /\ IsFiniteSet(BilledOn(d))
    BY SetsAssumption, FS_Subset DEF ReservedOn, BilledOn
<1>2. \A d : IsFiniteSet(Sure(d)) /\ Cardinality(Sure(d)) <= Cardinality(BilledOn(d))
    BY <1>1, FS_Subset DEF Sure
<1> QED
    BY <1>1, <1>2, FS_CardinalityType

LEMMA OneMore ==
    ASSUME NEW S, NEW x, IsFiniteSet(S)
    PROVE  /\ IsFiniteSet(S \cup {x})
           /\ Cardinality(S \cup {x}) \in Nat
           /\ Cardinality(S \cup {x}) <= Cardinality(S) + 1
<1>1. Cardinality(S) \in Nat
    BY FS_CardinalityType
<1>2. CASE x \in S
    <2>1. PICK T : T = S \cup {x}
        OBVIOUS
    <2>2. T = S
        BY <1>2, <2>1
    <2>3. IsFiniteSet(T) /\ Cardinality(T) = Cardinality(S)
        BY <2>2, Zenon
    <2>4. IsFiniteSet(T) /\ Cardinality(T) \in Nat /\ Cardinality(T) <= Cardinality(S) + 1
        BY <1>1, <2>3
    <2> QED
        BY <2>1, <2>4, Zenon
<1>3. CASE x \notin S
    BY <1>1, <1>3, FS_AddElement
<1> QED
    BY <1>2, <1>3

LEMMA FewerNow ==
    ASSUME NEW S, NEW T, IsFiniteSet(S), T \subseteq S
    PROVE  Cardinality(T) <= Cardinality(S)
BY FS_Subset

\* Nothing is reserved or given back.
LEMMA QuietCounts ==
    ASSUME TypeOK, QuotaHolds, UNCHANGED reserved,
           \A d \in Days : ReservedOn(d)' \subseteq ReservedOn(d) /\ Sure(d)' \subseteq Sure(d)
    PROVE  QuotaHolds'
<1>1. SUFFICES ASSUME NEW d \in Days
               PROVE  /\ reserved'[d] >= Cardinality(ReservedOn(d)')
                      /\ reserved'[d] + Cardinality(Sure(d)') <= DailyLimit
    BY DEF QuotaHolds
<1>2. Cardinality(ReservedOn(d)') <= Cardinality(ReservedOn(d))
      /\ Cardinality(Sure(d)') <= Cardinality(Sure(d))
    BY Counted, FewerNow
<1>3. /\ Cardinality(ReservedOn(d)') \in Nat /\ Cardinality(ReservedOn(d)) \in Nat
      /\ Cardinality(Sure(d)') \in Nat /\ Cardinality(Sure(d)) \in Nat
    <2>1. IsFiniteSet(ReservedOn(d)') /\ IsFiniteSet(Sure(d)')
        BY Counted, FS_Subset
    <2> QED
        BY <2>1, Counted, FS_CardinalityType
<1>4. reserved[d] \in Nat /\ reserved'[d] = reserved[d]
    BY DEF TypeOK
<1> QED
    BY <1>2, <1>3, <1>4, LimitAssumption DEF QuotaHolds

\* The reservation of m is given back as m leaves the send path.
LEMMA ReleaseCounts ==
    ASSUME TypeOK, QuotaHolds, NEW m \in Messages, NEW q \in Days, q = Day(queuedAt[m]),
           releaseReservation(m), m \in ReservedOn(q),
           \A d \in Days : ReservedOn(d)' \subseteq ReservedOn(d) \ {m},
           \A d \in Days \ {q} : Sure(d)' \subseteq Sure(d),
           Sure(q)' \subseteq Sure(q) \cup {m}
    PROVE  QuotaHolds'
<1>1. SUFFICES ASSUME NEW d \in Days
               PROVE  /\ reserved'[d] >= Cardinality(ReservedOn(d)')
                      /\ reserved'[d] + Cardinality(Sure(d)') <= DailyLimit
    BY DEF QuotaHolds
<1>2. /\ Cardinality(ReservedOn(d)) \in Nat /\ Cardinality(Sure(d)) \in Nat
      /\ IsFiniteSet(ReservedOn(d)) /\ IsFiniteSet(Sure(d))
      /\ reserved[d] \in Nat /\ reserved[d] >= Cardinality(ReservedOn(d))
      /\ reserved[d] + Cardinality(Sure(d)) <= DailyLimit
    BY Counted DEF TypeOK, QuotaHolds
<1>3. CASE d # q
    <2>1. reserved'[d] = reserved[d]
        BY <1>3 DEF releaseReservation, TypeOK
    <2>2. /\ IsFiniteSet(ReservedOn(d)') /\ Cardinality(ReservedOn(d)') <= Cardinality(ReservedOn(d))
          /\ IsFiniteSet(Sure(d)') /\ Cardinality(Sure(d)') <= Cardinality(Sure(d))
        BY <1>2, <1>3, FS_Subset
    <2>3. Cardinality(ReservedOn(d)') \in Nat /\ Cardinality(Sure(d)') \in Nat
        BY <2>2, FS_CardinalityType
    <2> QED
        BY <1>2, <2>1, <2>2, <2>3, LimitAssumption
<1>4. CASE d = q
    <2>1. /\ IsFiniteSet(ReservedOn(d) \ {m})
          /\ Cardinality(ReservedOn(d) \ {m}) = Cardinality(ReservedOn(d)) - 1
        BY <1>2, <1>4, FS_RemoveElement
    <2>2. /\ IsFiniteSet(Sure(d) \cup {m})
          /\ Cardinality(Sure(d) \cup {m}) \in Nat
          /\ Cardinality(Sure(d) \cup {m}) <= Cardinality(Sure(d)) + 1
        BY <1>2, OneMore
    <2>3. /\ IsFiniteSet(ReservedOn(d)') /\ Cardinality(ReservedOn(d)') <= Cardinality(ReservedOn(d)) - 1
          /\ IsFiniteSet(Sure(d)') /\ Cardinality(Sure(d)') <= Cardinality(Sure(d) \cup {m})
        BY <1>4, <2>1, <2>2, FS_Subset
    <2>4. Cardinality(ReservedOn(d)') \in Nat /\ Cardinality(Sure(d)') \in Nat
        BY <2>3, FS_CardinalityType
    <2>5. reserved[d] > 0
        BY <1>2, <2>3, <2>4
    <2>6. reserved'[d] = reserved[d] - 1
        BY <1>4, <2>5 DEF releaseReservation, TypeOK
    <2> QED
        BY <1>2, <2>2, <2>3, <2>4, <2>6, LimitAssumption
<1> QED
    BY <1>3, <1>4

LEMMA AcceptCounts ==
    ASSUME TypeOK, QuotaInvariant, NEW m \in Messages, Accept(m)
    PROVE  QuotaHolds'
<1> DEFINE today == Day(clock)
<1> USE DEF message, usage, history, provider
<1>1. /\ today \in Days /\ status[m] = "none" /\ clock # NoTime
      /\ reserved' = [reserved EXCEPT ![today] = @ + 1]
      /\ status' = [status EXCEPT ![m] = "queued"]
      /\ queuedAt' = [queuedAt EXCEPT ![m] = clock]
      /\ UNCHANGED <<ledger, accepted, ambiguousAt>>
      /\ accepted[today] + reserved[today] < DailyLimit
    BY DayOfTime DEF Accept, QuotaLeft, TypeOK, Times, NoTime
<1> HIDE DEF today
<1>2. SUFFICES ASSUME NEW d \in Days
               PROVE  /\ reserved'[d] >= Cardinality(ReservedOn(d)')
                      /\ reserved'[d] + Cardinality(Sure(d)') <= DailyLimit
    BY DEF QuotaHolds
<1>3. /\ Cardinality(ReservedOn(d)) \in Nat /\ Cardinality(Sure(d)) \in Nat
      /\ IsFiniteSet(ReservedOn(d)) /\ IsFiniteSet(Sure(d))
      /\ reserved[d] \in Nat /\ reserved[d] >= Cardinality(ReservedOn(d))
      /\ reserved[d] + Cardinality(Sure(d)) <= DailyLimit
      /\ Cardinality(Sure(d)) <= accepted[d] /\ accepted[d] \in Nat
    BY Counted DEF TypeOK, QuotaInvariant, QuotaHolds, CountersAgree
<1>4. Sure(d)' = Sure(d)
    BY <1>1 DEF Sure, BilledOn, Billed, QuotaInvariant, RowsHold, RowHolds, TypeOK
<1>5. m \notin ReservedOn(d)
    BY <1>1 DEF ReservedOn, HoldsReservation, InFlight
<1>6. CASE d = today
    <2>1. ReservedOn(d)' \subseteq ReservedOn(d) \cup {m}
        BY <1>1 DEF ReservedOn, HoldsReservation, InFlight, TypeOK
    <2>2. /\ IsFiniteSet(ReservedOn(d) \cup {m})
          /\ Cardinality(ReservedOn(d) \cup {m}) = Cardinality(ReservedOn(d)) + 1
        BY <1>3, <1>5, FS_AddElement
    <2>3. IsFiniteSet(ReservedOn(d)') /\ Cardinality(ReservedOn(d)') <= Cardinality(ReservedOn(d)) + 1
        BY <2>1, <2>2, FS_Subset
    <2>4. Cardinality(ReservedOn(d)') \in Nat
        BY <2>3, FS_CardinalityType
    <2>5. reserved'[d] = reserved[d] + 1
        BY <1>1, <1>6 DEF TypeOK
    <2> QED
        BY <1>1, <1>3, <1>4, <1>6, <2>3, <2>4, <2>5, LimitAssumption
<1>7. CASE d # today
    <2>1. ReservedOn(d)' = ReservedOn(d)
        BY <1>1, <1>7 DEF ReservedOn, HoldsReservation, InFlight, TypeOK, today
    <2>2. reserved'[d] = reserved[d]
        BY <1>1, <1>7 DEF TypeOK
    <2> QED
        BY <1>3, <1>4, <2>1, <2>2
<1> QED
    BY <1>6, <1>7

-----------------------------------------------------------------------------
(* The three ways a step moves the counters.                               *)
\* A message stays where it is, or leaves without giving anything back; if
\* it is billed, its outcome was in doubt or it was billed already.
LEMMA StayStep ==
    ASSUME TypeOK, QuotaHolds, NEW m \in Messages, UNCHANGED <<reserved, queuedAt, ambiguousAt>>,
           status'[m] \in InFlight => status[m] \in InFlight,
           \A n \in Messages \ {m} : status'[n] = status[n] /\ ledger'[n] = ledger[n],
           ledger'[m] = ledger[m] \/ ambiguousAt[m] # NoTime
    PROVE  QuotaHolds'
<1>1. \A d \in Days : ReservedOn(d)' \subseteq ReservedOn(d)
    BY DEF ReservedOn, HoldsReservation
<1>2. \A d \in Days : Sure(d)' \subseteq Sure(d)
    BY DEF Sure, BilledOn, Billed
<1> QED
    BY <1>1, <1>2, QuietCounts

\* A message leaves the send path unbilled and gives its reservation back.
LEMMA LeaveStep ==
    ASSUME TypeOK, RowsHold, QuotaHolds, NEW m \in Messages, status[m] \in InFlight,
           NEW to \in Statuses \ InFlight, status' = [status EXCEPT ![m] = to],
           UNCHANGED <<queuedAt, ledger>>, releaseReservation(m),
           \/ UNCHANGED ambiguousAt
           \/ ambiguousAt' = [ambiguousAt EXCEPT ![m] = clock]
    PROVE  QuotaHolds'
<1>1. queuedAt[m] \in Times /\ Day(queuedAt[m]) \in Days
    BY DayOfTime DEF RowsHold, RowHolds
<1>2. m \in ReservedOn(Day(queuedAt[m]))
    BY DEF ReservedOn, HoldsReservation
<1>3. \A d \in Days : ReservedOn(d)' \subseteq ReservedOn(d) \ {m}
    BY DEF ReservedOn, HoldsReservation, TypeOK
<1>4. \A n \in Messages : ambiguousAt'[n] = NoTime => ambiguousAt[n] = NoTime
    <2>1. clock # NoTime
        BY DEF TypeOK, Times, NoTime
    <2> QED
        BY <2>1 DEF TypeOK
<1>5. \A d \in Days : Sure(d)' \subseteq Sure(d)
    BY <1>4 DEF Sure, BilledOn, Billed
<1> QED
    BY <1>1, <1>2, <1>3, <1>5, ReleaseCounts

\* A message leaves the send path billed, and gives its reservation back.
LEMMA BillStep ==
    ASSUME TypeOK, RowsHold, QuotaHolds, NEW m \in Messages, status[m] \in InFlight,
           status'[m] \notin InFlight,
           \A n \in Messages \ {m} : status'[n] = status[n] /\ ledger'[n] = ledger[n],
           UNCHANGED <<queuedAt, ambiguousAt>>, releaseReservation(m)
    PROVE  QuotaHolds'
<1>1. queuedAt[m] \in Times /\ Day(queuedAt[m]) \in Days
    BY DayOfTime DEF RowsHold, RowHolds
<1>2. m \in ReservedOn(Day(queuedAt[m]))
    BY DEF ReservedOn, HoldsReservation
<1>3. \A d \in Days : ReservedOn(d)' \subseteq ReservedOn(d) \ {m}
    BY DEF ReservedOn, HoldsReservation
<1>4. /\ \A d \in Days \ {Day(queuedAt[m])} : Sure(d)' \subseteq Sure(d)
      /\ Sure(Day(queuedAt[m]))' \subseteq Sure(Day(queuedAt[m])) \cup {m}
    <2>1. ASSUME NEW d \in Days, NEW n \in Sure(d)', n # m PROVE n \in Sure(d)
        BY <2>1 DEF Sure, BilledOn, Billed
    <2>2. ASSUME NEW d \in Days, m \in Sure(d)' PROVE d = Day(queuedAt[m])
        BY <2>2 DEF Sure
    <2>3. PICK q \in Days : q = Day(queuedAt[m])
        BY <1>1
    <2>4. \A n \in Sure(q)' : n \in Sure(q) \cup {m}
        BY <2>1
    <2>5. \A d \in Days \ {q} : \A n \in Sure(d)' : n \in Sure(d)
        BY <2>1, <2>2, <2>3
    <2>6. Sure(Day(queuedAt[m]))' = Sure(q)'
        BY <2>3 DEF Sure
    <2> QED
        BY <2>3, <2>4, <2>5, <2>6
<1> QED
    BY <1>1, <1>2, <1>3, <1>4, ReleaseCounts

-----------------------------------------------------------------------------
(* The rows: what is not accepted yet is with nobody and in no ledger.     *)
LEMMA HoldersOfAccepted ==
    ASSUME TypeOK, RowsHold,
           \A n \in Messages : status[n] # "none" => status'[n] # "none",
           \A v \in Workers : \/ worker'[v] = worker[v]
                              \/ worker'[v] = Idle
                              \/ worker[v] # Idle /\ worker'[v].msg = worker[v].msg
                              \/ status'[worker'[v].msg] # "none"
    PROVE  \A v \in Workers : worker'[v] # Idle => status'[worker'[v].msg] # "none"
<1>1. \A v \in Workers : worker[v] # Idle => worker[v].msg \in Messages
    BY WorkerStateShape DEF TypeOK
<1> QED
    BY <1>1 DEF RowsHold

LEMMA RowsWorkerStep ==
    ASSUME TypeOK, TypeOK', RowsHold, NEW w \in Workers, WorkerStep(w)
    PROVE  RowsHold'
<1> USE DEF message, usage, history, provider
<1>0. PICK m \in Messages : m = worker[w].msg /\ worker[w] # Idle
    BY WorkerStateShape DEF TypeOK, WorkerStep, Evaluate, LoadContent, Transmit, CommitAccepted,
                            finalizeUnknown, finalizeTerminal, Requeue, GiveBack
<1> USE <1>0
<1>1. status[m] # "none" /\ \A n \in Messages : RowHolds(n)
    BY DEF RowsHold
<1>2. /\ worker'[w] = Idle \/ worker'[w].msg = m
      /\ \A v \in Workers \ {w} : worker'[v] = worker[v]
    <2>1. ASSUME NEW s, s \in {Idle, Accepted(m, clock)}
                 \/ (\E pc \in Pcs \ {"idle", "accepted", "refuse"} : s = Doing(pc, m))
                 \/ (\E why \in {"failed", "suppressed"} : s = Refusal(m, why)),
                 Become(w, s)
          PROVE  /\ worker'[w] = Idle \/ worker'[w].msg = m
                 /\ \A v \in Workers \ {w} : worker'[v] = worker[v]
        BY <2>1, BecomeFacts, WorkerStateMakers DEF TypeOK
    <2>2. CASE Evaluate(w)
        BY <2>1, <2>2 DEF Evaluate, evaluateStoredMessage, Pcs
    <2>3. CASE LoadContent(w) \/ Transmit(w)
        BY <2>1, <2>3 DEF LoadContent, Transmit, Pcs
    <2>4. CASE CommitAccepted(w) \/ finalizeUnknown(w) \/ finalizeTerminal(w)
        BY <2>1, <2>4 DEF CommitAccepted, finalizeUnknown, finalizeTerminal, Committed, Pcs
    <2>5. CASE Requeue(w) \/ GiveBack(w)
        BY <2>1, <2>5 DEF Requeue, GiveBack, Committed, Pcs
    <2> QED
        BY <2>2, <2>3, <2>4, <2>5 DEF WorkerStep
<1>3. /\ \A n \in Messages \ {m} : /\ status'[n] = status[n] /\ ledger'[n] = ledger[n]
                                   /\ handed'[n] = handed[n] /\ ambiguousAt'[n] = ambiguousAt[n]
      /\ UNCHANGED <<queuedAt, lastEventAt>>
    BY DEF WorkerStep, Evaluate, LoadContent, Transmit, CommitAccepted, finalizeUnknown,
           finalizeTerminal, Requeue, GiveBack, recordAcceptedUsage, TypeOK
<1>4. /\ status'[m] # "none"
      /\ status'[m] \in InFlight => status[m] \in InFlight
      /\ status'[m] = "unknown" => ambiguousAt'[m] # NoTime
    <2>1. CASE Evaluate(w) \/ LoadContent(w) \/ Transmit(w)
        BY <1>1, <2>1 DEF Evaluate, LoadContent, Transmit, RowHolds
    <2>2. CASE CommitAccepted(w)
        BY <1>1, <2>2 DEF CommitAccepted, RowHolds, InFlight, TypeOK
    <2>3. CASE finalizeUnknown(w)
        BY <1>1, <2>3 DEF finalizeUnknown, RowHolds, InFlight, TypeOK, Times, NoTime
    <2>4. CASE finalizeTerminal(w)
        <3>1. worker[w].verdict \in {"failed", "suppressed"}
            BY <2>4, WorkerStateShape DEF finalizeTerminal, TypeOK
        <3> QED
            BY <1>1, <2>4, <3>1 DEF finalizeTerminal, RowHolds, InFlight, TypeOK
    <2>5. CASE Requeue(w) \/ GiveBack(w)
        BY <1>1, <2>5 DEF Requeue, GiveBack, StillSending, RowHolds, InFlight, TypeOK
    <2> QED
        BY <2>1, <2>2, <2>3, <2>4, <2>5 DEF WorkerStep
<1>5. \A n \in Messages : RowHolds(n)'
    BY <1>1, <1>3, <1>4 DEF RowHolds, Billed
<1>6. \A v \in Workers : worker'[v] # Idle => status'[worker'[v].msg] # "none"
    BY <1>1, <1>2, <1>3, <1>4, HoldersOfAccepted
<1> QED
    BY <1>5, <1>6 DEF RowsHold

LEMMA QuotaWorkerStep ==
    ASSUME TypeOK, QuotaInvariant, NEW w \in Workers, WorkerStep(w)
    PROVE  CountersAgree' /\ QuotaHolds'
<1> USE DEF message, usage, history, provider
<1>0. PICK m \in Messages : m = worker[w].msg
    BY WorkerStateShape DEF TypeOK, WorkerStep, Evaluate, LoadContent, Transmit, CommitAccepted,
                            finalizeUnknown, finalizeTerminal, Requeue, GiveBack
<1> USE <1>0
<1>1. RowsHold /\ QuotaHolds /\ CountersAgree
    BY DEF QuotaInvariant
<1>2. ASSUME UNCHANGED <<status, usage, queuedAt, ambiguousAt>> PROVE CountersAgree' /\ QuotaHolds'
    BY <1>1, <1>2, SameCounters, StayStep
<1>3. CASE Evaluate(w) \/ LoadContent(w) \/ Transmit(w)
    BY <1>2, <1>3 DEF Evaluate, LoadContent, Transmit
<1>4. CASE CommitAccepted(w)
    <2>1. UNCHANGED <<queuedAt, ambiguousAt>> /\ worker[w].at \in Times
        BY <1>4, WorkerStateShape DEF CommitAccepted, TypeOK
    <2>2. CASE /\ StillSending(m)
               /\ status' = [status EXCEPT ![m] = "sent"]
               /\ recordAcceptedUsage(m, worker[w].at)
               /\ IF ledger[m] = NoTime THEN releaseReservation(m) ELSE UNCHANGED reserved
        <3>1. CountersAgree'
            BY <1>1, <2>1, <2>2, RecordCounts
        <3>2. /\ status[m] \in InFlight /\ status'[m] \notin InFlight
              /\ \A n \in Messages \ {m} : status'[n] = status[n] /\ ledger'[n] = ledger[n]
            BY <2>2 DEF StillSending, InFlight, TypeOK, recordAcceptedUsage
        <3>3. CASE ledger[m] = NoTime
            BY <1>1, <2>1, <2>2, <3>1, <3>2, <3>3, BillStep
        <3>4. CASE ledger[m] # NoTime
            <4>1. ledger' = ledger
                BY <2>2, <3>4 DEF recordAcceptedUsage
            <4> QED
                BY <1>1, <2>1, <2>2, <3>1, <3>2, <3>4, <4>1, StayStep
        <3> QED
            BY <3>3, <3>4
    <2>3. CASE UNCHANGED <<status, usage>>
        BY <1>2, <2>1, <2>3
    <2> QED
        BY <1>4, <2>2, <2>3 DEF CommitAccepted
<1>5. CASE finalizeUnknown(w)
    <2>1. UNCHANGED <<queuedAt, ledger, accepted>>
        BY <1>5 DEF finalizeUnknown
    <2>2. CASE StillSending(m) /\ status' = [status EXCEPT ![m] = "unknown"] /\ releaseReservation(m)
               /\ ambiguousAt' = [ambiguousAt EXCEPT ![m] = clock]
        BY <1>1, <2>1, <2>2, SameCounters, LeaveStep DEF StillSending, InFlight, Statuses
    <2>3. CASE UNCHANGED <<status, reserved, ambiguousAt>>
        BY <1>1, <2>1, <2>3, SameCounters, StayStep
    <2> QED
        BY <1>5, <2>2, <2>3 DEF finalizeUnknown
<1>6. CASE finalizeTerminal(w)
    <2>1. UNCHANGED <<queuedAt, ambiguousAt, ledger, accepted>>
          /\ worker[w].verdict \in {"failed", "suppressed"}
        BY <1>6, WorkerStateShape DEF finalizeTerminal, TypeOK
    <2>2. CASE StillSending(m) /\ status' = [status EXCEPT ![m] = worker[w].verdict]
               /\ releaseReservation(m)
        BY <1>1, <2>1, <2>2, SameCounters, LeaveStep DEF StillSending, InFlight, Statuses
    <2>3. CASE UNCHANGED <<status, reserved>>
        BY <1>1, <2>1, <2>3, SameCounters, StayStep
    <2> QED
        BY <1>6, <2>2, <2>3 DEF finalizeTerminal
<1>7. CASE Requeue(w) \/ GiveBack(w)
    <2>1. UNCHANGED <<queuedAt, ambiguousAt, usage>>
        BY <1>7 DEF Requeue, GiveBack
    <2>2. /\ status'[m] \in InFlight => status[m] \in InFlight
          /\ \A n \in Messages \ {m} : status'[n] = status[n]
        BY <1>7 DEF Requeue, GiveBack, StillSending, InFlight, TypeOK
    <2> QED
        BY <1>1, <2>1, <2>2, SameCounters, StayStep
<1> QED
    BY <1>3, <1>4, <1>5, <1>6, <1>7 DEF WorkerStep

LEMMA QuotaEventStep ==
    ASSUME TypeOK, QuotaInvariant, NEW m \in Messages, NEW type \in TransportEvents, NEW t \in Times,
           ingestProviderEvent(m, type, t)
    PROVE  QuotaInvariant'
<1> DEFINE acceptedAt == IF ambiguousAt[m] # NoTime /\ ambiguousAt[m] < t
                         THEN ambiguousAt[m] ELSE t
           stale == lastEventAt[m] # NoTime /\ t < lastEventAt[m]
<1> USE DEF history, provider
<1>1. /\ type \in EventTypes /\ handed[m] > 0 /\ status[m] \in Statuses
      /\ RowsHold /\ QuotaHolds /\ CountersAgree /\ acceptedAt \in Times
      /\ \A n \in Messages : RowHolds(n)
    BY EventsAssumption DEF ingestProviderEvent, MayReport, QuotaInvariant, RowsHold, TypeOK
<1>2. /\ UNCHANGED <<queuedAt, ambiguousAt, worker, handed>>
      /\ status'[m] = IF stale /\ type \notin safetyEvents THEN status[m]
                      ELSE monotonicMessageStatus(status[m], type)
      /\ \A n \in Messages \ {m} : status'[n] = status[n] /\ lastEventAt'[n] = lastEventAt[n]
    BY DEF ingestProviderEvent, TypeOK
<1>3. \A n \in Messages \ {m} : ledger'[n] = ledger[n]
    BY DEF ingestProviderEvent, usage, recordAcceptedUsage, TypeOK
<1>4. status[m] # "none" /\ (status[m] \in InFlight => status'[m] = type)
    BY <1>1, <1>2 DEF RowHolds, InFlight, monotonicMessageStatus, statusRank, EventTypes, Statuses
<1>5. /\ status'[m] \in {status[m], type}
      /\ type \notin InFlight \cup {"none", "unknown"}
    BY <1>1, <1>2 DEF monotonicMessageStatus, EventTypes, InFlight
<1>6. RowsHold'
    <2>1. \A n \in Messages : RowHolds(n)'
        BY <1>1, <1>2, <1>3, <1>4, <1>5 DEF RowHolds, Billed
    <2>2. \A v \in Workers : worker'[v] # Idle => status'[worker'[v].msg] # "none"
        BY <1>1, <1>2, <1>4, <1>5, HoldersOfAccepted
    <2> QED
        BY <2>1, <2>2 DEF RowsHold
<1>7. CASE ~ConfirmsAcceptance(m, type)
    <2>1. UNCHANGED <<ledger, usageJobs, reserved, accepted>>
        BY <1>7 DEF ingestProviderEvent, usage
    <2> QED
        BY <1>1, <1>2, <1>4, <1>5, <1>6, <2>1, SameCounters, StayStep DEF QuotaInvariant
<1>8. CASE ConfirmsAcceptance(m, type)
    <2>1. /\ recordAcceptedUsage(m, acceptedAt)
          /\ IF ledger[m] = NoTime /\ StillReserved(m)
             THEN releaseReservation(m) ELSE UNCHANGED reserved
          /\ status[m] \in {"unknown", "sending"}
        BY <1>8 DEF ingestProviderEvent, ConfirmsAcceptance
    <2> HIDE DEF acceptedAt
    <2>2. CountersAgree'
        BY <1>1, <2>1, RecordCounts
    <2>3. CASE ledger[m] = NoTime /\ StillReserved(m)
        BY <1>1, <1>2, <1>3, <1>4, <1>5, <1>6, <2>1, <2>2, <2>3, BillStep
           DEF QuotaInvariant, StillReserved, InFlight
    <2>4. CASE ledger[m] # NoTime
        <3>1. ledger' = ledger
            BY <2>1, <2>4 DEF recordAcceptedUsage
        <3> QED
            BY <1>1, <1>2, <1>3, <1>4, <1>5, <1>6, <2>1, <2>2, <2>4, <3>1, StayStep DEF QuotaInvariant
    <2>5. CASE ~StillReserved(m)
        <3>1. ambiguousAt[m] # NoTime
            BY <1>1, <2>1, <2>5 DEF StillReserved, RowHolds
        <3> QED
            BY <1>1, <1>2, <1>3, <1>4, <1>5, <1>6, <2>1, <2>2, <2>5, <3>1, StayStep DEF QuotaInvariant
    <2> QED
        BY <2>3, <2>4, <2>5
<1> QED
    BY <1>7, <1>8

LEMMA QuotaNext ==
    ASSUME TypeOK, TypeOK', QuotaInvariant, [Next]_vars
    PROVE  QuotaInvariant'
<1> USE DEF message, usage, history, provider
<1>1. RowsHold /\ QuotaHolds /\ CountersAgree /\ \A n \in Messages : RowHolds(n)
    BY DEF QuotaInvariant, RowsHold
<1>2. ASSUME NEW m \in Messages, Accept(m) PROVE QuotaInvariant'
    <2>1. UNCHANGED <<ledger, accepted, lastEventAt, handed, ambiguousAt, worker>>
        BY <1>2 DEF Accept
    <2>2. /\ status[m] = "none" /\ status'[m] = "queued" /\ queuedAt'[m] = clock
          /\ \A n \in Messages \ {m} : status'[n] = status[n] /\ queuedAt'[n] = queuedAt[n]
        BY <1>2 DEF Accept, TypeOK
    <2>3. \A n \in Messages : RowHolds(n)'
        BY <1>1, <2>1, <2>2 DEF RowHolds, Billed, InFlight, TypeOK
    <2>4. \A v \in Workers : worker'[v] # Idle => status'[worker'[v].msg] # "none"
        BY <1>1, <2>1, <2>2, HoldersOfAccepted
    <2> QED
        BY <1>1, <1>2, <2>1, <2>3, <2>4, SameCounters, AcceptCounts DEF QuotaInvariant, RowsHold
<1>3. ASSUME NEW m \in Messages, recoverStaleSending(m) PROVE QuotaInvariant'
    <2>1. UNCHANGED <<queuedAt, ledger, accepted, lastEventAt, handed, worker>>
        BY <1>3 DEF recoverStaleSending
    <2>2. /\ status[m] = "sending" /\ status' = [status EXCEPT ![m] = "unknown"]
          /\ ambiguousAt' = [ambiguousAt EXCEPT ![m] = clock] /\ releaseReservation(m)
        BY <1>3 DEF recoverStaleSending, StaleClaim
    <2>3. \A n \in Messages : RowHolds(n)'
        BY <1>1, <2>1, <2>2 DEF RowHolds, Billed, InFlight, TypeOK, Times, NoTime
    <2>4. \A v \in Workers : worker'[v] # Idle => status'[worker'[v].msg] # "none"
        BY <1>1, <2>1, <2>2, HoldersOfAccepted DEF TypeOK
    <2>5. QuotaHolds'
        BY <1>1, <2>1, <2>2, LeaveStep DEF InFlight, Statuses
    <2> QED
        BY <1>1, <2>1, <2>3, <2>4, <2>5, SameCounters DEF QuotaInvariant, RowsHold
<1>4. ASSUME NEW m \in Messages, expireQueuedPastDeadline(m) PROVE QuotaInvariant'
    <2>1. UNCHANGED <<queuedAt, ambiguousAt, ledger, accepted, lastEventAt, handed, worker>>
        BY <1>4 DEF expireQueuedPastDeadline
    <2>2. /\ status[m] = "queued" /\ status' = [status EXCEPT ![m] = "failed"]
          /\ releaseReservation(m)
        BY <1>4 DEF expireQueuedPastDeadline, Expirable
    <2>3. \A n \in Messages : RowHolds(n)'
        BY <1>1, <2>1, <2>2 DEF RowHolds, Billed, InFlight, TypeOK
    <2>4. \A v \in Workers : worker'[v] # Idle => status'[worker'[v].msg] # "none"
        BY <1>1, <2>1, <2>2, HoldersOfAccepted DEF TypeOK
    <2>5. QuotaHolds'
        BY <1>1, <2>1, <2>2, LeaveStep DEF InFlight, Statuses
    <2> QED
        BY <1>1, <2>1, <2>3, <2>4, <2>5, SameCounters DEF QuotaInvariant, RowsHold
<1>5. ASSUME NEW w \in Workers, NEW m \in Messages, Claim(w, m) PROVE QuotaInvariant'
    <2>1. UNCHANGED <<queuedAt, ambiguousAt, usage, lastEventAt, handed>>
        BY <1>5 DEF Claim
    <2>2. /\ status[m] = "queued" /\ status'[m] = "sending"
          /\ \A n \in Messages \ {m} : status'[n] = status[n]
        BY <1>5 DEF Claim, Claimable, TypeOK
    <2>3. \A n \in Messages : RowHolds(n)'
        BY <1>1, <2>1, <2>2 DEF RowHolds, Billed, InFlight
    <2>4. worker'[w].msg = m /\ \A v \in Workers \ {w} : worker'[v] = worker[v]
        BY <1>5, BecomeFacts, WorkerStateMakers DEF Claim, TypeOK, Pcs
    <2>5. \A v \in Workers : worker'[v] # Idle => status'[worker'[v].msg] # "none"
        BY <1>1, <2>2, <2>4, HoldersOfAccepted
    <2>6. QuotaHolds'
        BY <1>1, <2>1, <2>2, StayStep DEF InFlight
    <2> QED
        BY <1>1, <2>1, <2>3, <2>5, <2>6, SameCounters DEF QuotaInvariant, RowsHold
<1>6. ASSUME UNCHANGED <<message, usage, provider>>,
             \A v \in Workers : worker'[v] = worker[v] \/ worker'[v] = Idle
      PROVE  QuotaInvariant'
    <2>1. \A n \in Messages : RowHolds(n)'
        BY <1>1, <1>6 DEF RowHolds, Billed
    <2>2. \A v \in Workers : worker'[v] # Idle => status'[worker'[v].msg] # "none"
        BY <1>1, <1>6, HoldersOfAccepted
    <2>3. QuotaHolds'
        <3>1. \A d \in Days : ReservedOn(d)' = ReservedOn(d) /\ Sure(d)' = Sure(d)
            BY <1>6 DEF ReservedOn, HoldsReservation, Sure, BilledOn, Billed
        <3> QED
            BY <1>1, <1>6, <3>1, QuietCounts
    <2> QED
        BY <1>1, <1>6, <2>1, <2>2, <2>3, SameCounters DEF QuotaInvariant, RowsHold
<1>7. ASSUME NEW w \in Workers, Crash(w) PROVE QuotaInvariant'
    BY <1>6, <1>7, BecomeFacts DEF Crash, TypeOK
<1>8. CASE Tick \/ UNCHANGED vars
    BY <1>6, <1>8 DEF Tick, vars
<1>9. ASSUME NEW w \in Workers, WorkerStep(w) PROVE QuotaInvariant'
    BY <1>1, <1>9, RowsWorkerStep, QuotaWorkerStep DEF QuotaInvariant
<1> QED
    BY <1>2, <1>3, <1>4, <1>5, <1>7, <1>8, <1>9, QuotaEventStep DEF Next

LEMMA QuotaInit == Init => QuotaInvariant
<1> SUFFICES ASSUME Init PROVE QuotaInvariant
    OBVIOUS
<1>1. \A m \in Messages : RowHolds(m)
    BY DEF Init, RowHolds, Billed, InFlight
<1>2. \A w \in Workers : worker[w] # Idle => status[worker[w].msg] # "none"
    BY DEF Init
<1>3. CountersAgree
    BY OutcomeInit DEF OutcomeInvariant
<1>4. QuotaHolds
    <2>1. SUFFICES ASSUME NEW d \in Days
                   PROVE  /\ reserved[d] >= Cardinality(ReservedOn(d))
                          /\ reserved[d] + Cardinality(Sure(d)) <= DailyLimit
        BY DEF QuotaHolds
    <2>2. ReservedOn(d) = {} /\ Sure(d) = {} /\ reserved[d] = 0
        BY DEF Init, ReservedOn, HoldsReservation, InFlight, Sure, BilledOn, Billed
    <2>3. Cardinality(ReservedOn(d)) = 0 /\ Cardinality(Sure(d)) = 0
        BY <2>2, FS_EmptySet, Zenon
    <2> QED
        BY <2>2, <2>3, LimitAssumption
<1> QED
    BY <1>1, <1>2, <1>3, <1>4 DEF QuotaInvariant, RowsHold

THEOREM QuotaKept == Spec => []QuotaInvariant
<1>1. TypeOK /\ TypeOK' /\ QuotaInvariant /\ [Next]_vars => QuotaInvariant'
    BY QuotaNext
<1> QED
    BY <1>1, QuotaInit, TypeCorrect, PTL DEF Spec

(* However commit, event, expiry and recovery interleave, the day's        *)
(* counter covers every message that holds a reservation.                  *)
THEOREM ReservationsCover == Spec => []ReservationsCoverInFlight
<1>1. QuotaInvariant => ReservationsCoverInFlight
    BY DEF QuotaInvariant, QuotaHolds, ReservationsCoverInFlight
<1> QED
    BY <1>1, QuotaKept, PTL

(* The messages of a day that hold a reservation, or were accepted that    *)
(* day without losing it first, are never more than the daily limit.       *)
THEOREM LimitKept == Spec => []WithinDailyLimit
<1>1. ASSUME TypeOK, QuotaInvariant PROVE WithinDailyLimit
    <2>1. SUFFICES ASSUME NEW d \in Days
                   PROVE  Cardinality(ReservedOn(d) \cup Sure(d)) <= DailyLimit
        BY Zenon DEF WithinDailyLimit, Sure
    <2>2. /\ IsFiniteSet(ReservedOn(d)) /\ IsFiniteSet(Sure(d))
          /\ Cardinality(ReservedOn(d)) \in Nat /\ Cardinality(Sure(d)) \in Nat
        BY Counted
    <2>3. IsFiniteSet(ReservedOn(d) \cap Sure(d))
        BY <2>2, FS_Subset
    <2>4. Cardinality(ReservedOn(d) \cup Sure(d)) = Cardinality(ReservedOn(d)) + Cardinality(Sure(d))
                                                     - Cardinality(ReservedOn(d) \cap Sure(d))
        BY <2>2, FS_Union
    <2>5. Cardinality(ReservedOn(d) \cap Sure(d)) \in Nat
        BY <2>3, FS_CardinalityType
    <2>6. reserved[d] \in Nat /\ reserved[d] >= Cardinality(ReservedOn(d))
          /\ reserved[d] + Cardinality(Sure(d)) <= DailyLimit
        BY <1>1 DEF TypeOK, QuotaInvariant, QuotaHolds
    <2> QED
        BY <2>2, <2>4, <2>5, <2>6, LimitAssumption
<1> QED
    BY <1>1, TypeCorrect, QuotaKept, PTL

-----------------------------------------------------------------------------
(***************************************************************************)
(* The attempts of a message.  A conclusion is written by the step that    *)
(* takes the message out of the send path, together with what it concludes *)
(* of: the ledger row of an acceptance, the event of a refusal.            *)
(***************************************************************************)
Early == InFlight \cup {"none"}
Conclusive(m) == attempts[m] \ {"transient_failure"}
Refused == {"failed", "suppressed"}

AttemptAgrees(m) ==
    /\ status[m] \in Early => Conclusive(m) = {}
    /\ \A a, b \in Conclusive(m) : a = b
    /\ "accepted" \in attempts[m] => Billed(m)
    /\ "definitive_failure" \in attempts[m] => published[m] \cap Refused # {}
AttemptsAgree == \A m \in Messages : AttemptAgrees(m)

(* What a step may write of the attempts of m.                             *)
AttemptMove(m) ==
    /\ published[m] \subseteq published'[m]
    /\ \/ attempts'[m] = attempts[m]
       \/ attempts'[m] = attempts[m] \cup {"transient_failure"}
       \/ /\ status[m] \in Early /\ status'[m] \notin Early
          /\ \/ attempts'[m] = attempts[m] \cup {"ambiguous"}
             \/ attempts'[m] = attempts[m] \cup {"accepted"} /\ Billed(m)'
             \/ /\ attempts'[m] = attempts[m] \cup {"definitive_failure"}
                /\ published'[m] \cap Refused # {}

LEMMA LateStays ==
    ASSUME TypeOK, RowsMove, NEW m \in Messages, status'[m] \in Early
    PROVE  status[m] \in Early
BY DEF RowsMove, RowMoves, QuietMove, Early, InFlight, ProviderAccepted

LEMMA MoveKeepsAttempts ==
    ASSUME AttemptsAgree, NEW m \in Messages, AttemptMove(m),
           status'[m] \in Early => status[m] \in Early, Billed(m) => Billed(m)'
    PROVE  AttemptAgrees(m)'
<1>1. AttemptAgrees(m)
    BY DEF AttemptsAgree
<1>2. CASE attempts'[m] \ {"transient_failure"} = Conclusive(m)
    BY <1>1, <1>2 DEF AttemptAgrees, AttemptMove, Conclusive
<1>3. CASE status[m] \in Early /\ status'[m] \notin Early
    BY <1>1, <1>3 DEF AttemptAgrees, AttemptMove, Conclusive
<1> QED
    BY <1>2, <1>3 DEF AttemptMove, Conclusive

LEMMA WorkerAttempts ==
    ASSUME TypeOK, TypeOK', NEW w \in Workers, WorkerStep(w)
    PROVE  \A n \in Messages : AttemptMove(n)
<1> USE DEF message, usage, history, provider
<1>0. PICK m \in Messages : m = worker[w].msg
    BY WorkerStateShape DEF TypeOK, WorkerStep, Evaluate, LoadContent, Transmit, CommitAccepted,
                            finalizeUnknown, finalizeTerminal, Requeue, GiveBack
<1>1. ASSUME UNCHANGED <<attempts, published>> PROVE \A n \in Messages : AttemptMove(n)
    BY <1>1 DEF AttemptMove
<1>2. CASE Evaluate(w) \/ LoadContent(w) \/ Transmit(w) \/ GiveBack(w)
    BY <1>1, <1>2 DEF Evaluate, LoadContent, Transmit, GiveBack
<1>3. CASE CommitAccepted(w)
    <2>1. CASE /\ StillSending(m) /\ status' = [status EXCEPT ![m] = "sent"]
               /\ recordAcceptedUsage(m, worker[w].at)
               /\ attempts' = [attempts EXCEPT ![m] = @ \cup {"accepted"}]
               /\ published' = [published EXCEPT ![m] = @ \cup {"sent"}]
        <3>1. worker[w].at \in Times /\ worker[w].at # NoTime
            BY <1>3, WorkerStateShape DEF CommitAccepted, TypeOK, Times, NoTime
        <3>2. Billed(m)'
            BY <2>1, <3>1 DEF recordAcceptedUsage, Billed, TypeOK
        <3>3. AttemptMove(m)
            BY <2>1, <3>2 DEF AttemptMove, StillSending, Early, InFlight, TypeOK
        <3>4. \A n \in Messages \ {m} : attempts'[n] = attempts[n] /\ published'[n] = published[n]
            BY <2>1 DEF TypeOK
        <3> QED
            BY <3>3, <3>4 DEF AttemptMove
    <2> QED
        BY <1>0, <1>1, <1>3, <2>1 DEF CommitAccepted
<1>4. CASE finalizeUnknown(w)
    BY <1>0, <1>1, <1>4 DEF finalizeUnknown, StillSending, AttemptMove, Early, InFlight, TypeOK
<1>5. CASE finalizeTerminal(w)
    <2>1. worker[w].verdict \in Refused
        BY <1>5, WorkerStateShape DEF finalizeTerminal, TypeOK, Refused
    <2>2. CASE /\ StillSending(m) /\ status' = [status EXCEPT ![m] = worker[w].verdict]
               /\ attempts' = [attempts EXCEPT ![m] = @ \cup {"definitive_failure"}]
               /\ published' = [published EXCEPT ![m] = @ \cup {worker[w].verdict}]
        <3>1. AttemptMove(m)
            BY <2>1, <2>2 DEF StillSending, AttemptMove, Early, InFlight, Refused, TypeOK
        <3>2. \A n \in Messages \ {m} : attempts'[n] = attempts[n] /\ published'[n] = published[n]
            BY <2>2 DEF TypeOK
        <3> QED
            BY <3>1, <3>2 DEF AttemptMove
    <2> QED
        BY <1>0, <1>1, <1>5, <2>2 DEF finalizeTerminal
<1>6. CASE Requeue(w)
    BY <1>0, <1>1, <1>6 DEF Requeue, AttemptMove, TypeOK
<1> QED
    BY <1>2, <1>3, <1>4, <1>5, <1>6 DEF WorkerStep

LEMMA EveryAttemptMove ==
    ASSUME TypeOK, TypeOK', [Next]_vars
    PROVE  \A n \in Messages : AttemptMove(n)
<1> USE DEF message, usage, history, provider
<1>1. ASSUME UNCHANGED <<attempts, published>> PROVE \A n \in Messages : AttemptMove(n)
    BY <1>1 DEF AttemptMove
<1>2. ASSUME NEW m \in Messages, Accept(m) PROVE \A n \in Messages : AttemptMove(n)
    BY <1>2 DEF Accept, AttemptMove, TypeOK
<1>3. ASSUME NEW m \in Messages, expireQueuedPastDeadline(m) PROVE \A n \in Messages : AttemptMove(n)
    BY <1>3 DEF expireQueuedPastDeadline, Expirable, AttemptMove, Early, InFlight, Refused, TypeOK
<1>4. ASSUME NEW m \in Messages,
             \/ recoverStaleSending(m)
             \/ \E type \in TransportEvents, t \in Times : ingestProviderEvent(m, type, t)
             \/ \E w \in Workers : Claim(w, m)
      PROVE  \A n \in Messages : AttemptMove(n)
    BY <1>1, <1>4 DEF recoverStaleSending, ingestProviderEvent, Claim
<1>5. ASSUME NEW w \in Workers, Crash(w) PROVE \A n \in Messages : AttemptMove(n)
    BY <1>1, <1>5 DEF Crash
<1>6. CASE Tick \/ UNCHANGED vars
    BY <1>1, <1>6 DEF Tick, vars
<1> QED
    BY <1>2, <1>3, <1>4, <1>5, <1>6, WorkerAttempts DEF Next

LEMMA AttemptsInit == Init => AttemptsAgree
BY DEF Init, AttemptsAgree, AttemptAgrees, Conclusive

LEMMA AttemptsNext ==
    ASSUME TypeOK, TypeOK', SendPathInvariant, OutcomeInvariant, AttemptsAgree, [Next]_vars
    PROVE  AttemptsAgree'
<1>1. RowsMove /\ \A m \in Messages : Advances(m)
    BY EveryStepMoves, MovesAdvance
<1>2. SUFFICES ASSUME NEW m \in Messages PROVE AttemptAgrees(m)'
    BY DEF AttemptsAgree
<1>3. Billed(m) => Billed(m)'
    BY <1>1 DEF Advances, Billed
<1> QED
    BY <1>1, <1>3, LateStays, EveryAttemptMove, MoveKeepsAttempts

(* What rests on the claim of sendOne: one holder for a message, columns   *)
(* that agree with the ledger, one conclusive attempt that agrees with it, *)
(* and a reservation for all that is in flight (ClaimsHold).               *)
THEOREM ClaimsAlwaysHold ==
    ASSUME ~LostAcks
    PROVE  Spec => []ClaimsHold
<1>1. ASSUME SendPathInvariant, OutcomeInvariant, AttemptsAgree PROVE OneConclusiveAttempt
    <2>1. SUFFICES ASSUME NEW m \in Messages
                   PROVE  /\ Cardinality(Conclusive(m)) <= 1
                          /\ "accepted" \in attempts[m] => Billed(m)
                          /\ "definitive_failure" \in attempts[m] => ~Billed(m)
        BY Zenon DEF OneConclusiveAttempt, Conclusive
    <2>2. RowAgrees(m) /\ AttemptAgrees(m)
        BY <1>1 DEF OutcomeInvariant, AttemptsAgree
    <2>3. CASE Conclusive(m) = {}
        BY <2>2, <2>3, FS_EmptySet DEF RowAgrees, AttemptAgrees, Refused
    <2>4. CASE Conclusive(m) # {}
        <3>1. PICK a : Conclusive(m) = {a}
            BY <2>2, <2>4 DEF AttemptAgrees
        <3>2. Cardinality(Conclusive(m)) = 1
            BY <3>1, FS_Singleton
        <3> QED
            BY <2>2, <3>2 DEF RowAgrees, AttemptAgrees, Refused
    <2> QED
        BY <2>3, <2>4
<1>2. TypeOK /\ TypeOK' /\ SendPathInvariant /\ OutcomeInvariant /\ AttemptsAgree /\ [Next]_vars
        => AttemptsAgree'
    BY AttemptsNext
<1>3. Spec => []AttemptsAgree
    BY <1>2, AttemptsInit, TypeCorrect, OutcomeAgrees, PTL DEF Spec
<1>4. SendPathInvariant /\ OutcomeInvariant /\ AttemptsAgree /\ ReservationsCoverInFlight => ClaimsHold
    BY <1>1 DEF ClaimsHold
<1> QED
    BY <1>3, <1>4, OutcomeAgrees, ReservationsCover, PTL

-----------------------------------------------------------------------------
(***************************************************************************)
(* No reservation leaks: whatever takes a message out of the send path     *)
(* gives its reservation back, if no acknowledgement of a COMMIT is lost   *)
(* and the transport has no event that rejects what it took (SES Reject).  *)
(***************************************************************************)
NothingLeaks == \A d \in Days : reserved[d] <= Cardinality(ReservedOn(d))

\* The counter and the messages in flight both stay.
LEMMA KeptExact ==
    ASSUME TypeOK, NothingLeaks, UNCHANGED <<reserved, queuedAt>>,
           \A n \in Messages : status[n] \in InFlight <=> status'[n] \in InFlight
    PROVE  NothingLeaks'
<1>1. \A d \in Days : ReservedOn(d)' = ReservedOn(d)
    BY DEF ReservedOn, HoldsReservation
<1> QED
    BY <1>1 DEF NothingLeaks

\* m leaves the send path, and its reservation is given back.
LEMMA ReleaseExact ==
    ASSUME TypeOK, RowsHold, QuotaHolds, NothingLeaks, NEW m \in Messages, status[m] \in InFlight,
           status'[m] \notin InFlight, \A n \in Messages \ {m} : status'[n] = status[n],
           UNCHANGED queuedAt, releaseReservation(m)
    PROVE  NothingLeaks'
<1>1. Day(queuedAt[m]) \in Days
    BY DayOfTime DEF RowsHold, RowHolds
<1>2. SUFFICES ASSUME NEW d \in Days PROVE reserved'[d] <= Cardinality(ReservedOn(d)')
    BY DEF NothingLeaks
<1>3. /\ IsFiniteSet(ReservedOn(d)) /\ Cardinality(ReservedOn(d)) \in Nat
      /\ reserved[d] \in Nat /\ reserved[d] = Cardinality(ReservedOn(d))
    BY Counted DEF TypeOK, NothingLeaks, QuotaHolds
<1>4. CASE d = Day(queuedAt[m])
    <2>1. m \in ReservedOn(d) /\ ReservedOn(d)' = ReservedOn(d) \ {m}
        BY <1>4 DEF ReservedOn, HoldsReservation
    <2>2. Cardinality(ReservedOn(d)') = Cardinality(ReservedOn(d)) - 1
        BY <1>3, <2>1, FS_RemoveElement
    <2>3. reserved[d] > 0
        BY <1>3, <2>1, FS_EmptySet
    <2>4. reserved'[d] = reserved[d] - 1
        BY <1>4, <2>3 DEF releaseReservation, TypeOK
    <2> QED
        BY <1>3, <2>2, <2>4
<1>5. CASE d # Day(queuedAt[m])
    <2>1. ReservedOn(d)' = ReservedOn(d)
        BY <1>5 DEF ReservedOn, HoldsReservation
    <2>2. reserved'[d] = reserved[d]
        BY <1>5 DEF releaseReservation, TypeOK
    <2> QED
        BY <1>3, <2>1, <2>2
<1> QED
    BY <1>4, <1>5

LEMMA AcceptExact ==
    ASSUME TypeOK, NothingLeaks, NEW m \in Messages, Accept(m)
    PROVE  NothingLeaks'
<1> DEFINE today == Day(clock)
<1>1. /\ today \in Days /\ status[m] = "none"
      /\ reserved' = [reserved EXCEPT ![today] = @ + 1]
      /\ status' = [status EXCEPT ![m] = "queued"]
      /\ queuedAt' = [queuedAt EXCEPT ![m] = clock]
    BY DayOfTime DEF Accept, TypeOK
<1> SUFFICES ASSUME NEW d \in Days PROVE reserved'[d] <= Cardinality(ReservedOn(d)')
    BY DEF NothingLeaks
<1>2. /\ IsFiniteSet(ReservedOn(d)) /\ Cardinality(ReservedOn(d)) \in Nat
      /\ reserved[d] \in Nat /\ reserved[d] <= Cardinality(ReservedOn(d))
    BY Counted DEF TypeOK, NothingLeaks
<1>3. m \notin ReservedOn(d)
    BY <1>1 DEF ReservedOn, HoldsReservation, InFlight
<1>4. CASE d = today
    <2>1. ReservedOn(d)' = ReservedOn(d) \cup {m}
        BY <1>1, <1>4 DEF ReservedOn, HoldsReservation, InFlight, TypeOK
    <2>2. Cardinality(ReservedOn(d)') = Cardinality(ReservedOn(d)) + 1
        BY <1>2, <1>3, <2>1, FS_AddElement
    <2>3. reserved'[d] = reserved[d] + 1
        BY <1>1, <1>4 DEF TypeOK
    <2> QED
        BY <1>2, <2>2, <2>3
<1>5. CASE d # today
    <2>1. ReservedOn(d)' = ReservedOn(d)
        BY <1>1, <1>5 DEF ReservedOn, HoldsReservation, InFlight, TypeOK
    <2>2. reserved'[d] = reserved[d]
        BY <1>1, <1>5 DEF TypeOK
    <2> QED
        BY <1>2, <2>1, <2>2
<1> QED
    BY <1>4, <1>5

LEMMA ExactWorkerStep ==
    ASSUME TypeOK, OutcomeInvariant, QuotaInvariant, NothingLeaks, NEW w \in Workers, WorkerStep(w)
    PROVE  NothingLeaks'
<1> USE DEF message, usage, history, provider
<1>0. PICK m \in Messages : m = worker[w].msg
    BY WorkerStateShape DEF TypeOK, WorkerStep, Evaluate, LoadContent, Transmit, CommitAccepted,
                            finalizeUnknown, finalizeTerminal, Requeue, GiveBack
<1> USE <1>0
<1>1. RowsHold /\ QuotaHolds /\ RowAgrees(m)
    BY DEF QuotaInvariant, OutcomeInvariant
<1>2. ASSUME StillSending(m), NEW to \in Statuses \ InFlight, status' = [status EXCEPT ![m] = to],
             UNCHANGED queuedAt, releaseReservation(m)
      PROVE  NothingLeaks'
    BY <1>1, <1>2, ReleaseExact DEF StillSending, InFlight, TypeOK
<1>3. CASE Evaluate(w) \/ LoadContent(w) \/ Transmit(w)
    BY <1>3, KeptExact DEF Evaluate, LoadContent, Transmit
<1>4. CASE CommitAccepted(w)
    <2>1. StillSending(m) => ledger[m] = NoTime
        BY <1>1 DEF RowAgrees, Billed, StillSending, ProviderAccepted
    <2> QED
        BY <1>2, <1>4, <2>1, KeptExact DEF CommitAccepted, InFlight, Statuses
<1>5. CASE finalizeUnknown(w)
    BY <1>2, <1>5, KeptExact DEF finalizeUnknown, InFlight, Statuses
<1>6. CASE finalizeTerminal(w)
    <2>1. worker[w].verdict \in {"failed", "suppressed"}
        BY <1>6, WorkerStateShape DEF finalizeTerminal, TypeOK
    <2> QED
        BY <1>2, <1>6, <2>1, KeptExact DEF finalizeTerminal, InFlight, Statuses
<1>7. CASE Requeue(w) \/ GiveBack(w)
    <2>1. \A n \in Messages : status[n] \in InFlight <=> status'[n] \in InFlight
        BY <1>7 DEF Requeue, GiveBack, StillSending, InFlight, TypeOK
    <2> QED
        BY <1>7, <2>1, KeptExact DEF Requeue, GiveBack
<1> QED
    BY <1>3, <1>4, <1>5, <1>6, <1>7 DEF WorkerStep

(* An event that finds a message in the send path accepts it, and gives    *)
(* its reservation back; one that comes later finds nothing to give back.  *)
LEMMA ExactEventStep ==
    ASSUME "failed" \notin TransportEvents, TypeOK, SendPathInvariant, OutcomeInvariant,
           QuotaInvariant, NothingLeaks,
           NEW m \in Messages, NEW type \in TransportEvents, NEW t \in Times,
           ingestProviderEvent(m, type, t)
    PROVE  NothingLeaks'
<1> DEFINE stale == lastEventAt[m] # NoTime /\ t < lastEventAt[m]
<1> USE DEF history, provider
<1>1. /\ type \in acceptanceEvents /\ handed[m] > 0 /\ status[m] \in Statuses
      /\ RowsHold /\ QuotaHolds /\ RowAgrees(m) /\ UNCHANGED queuedAt
    BY EventsAssumption DEF ingestProviderEvent, MayReport, QuotaInvariant, OutcomeInvariant,
                            TypeOK, EventTypes, acceptanceEvents
<1>2. status[m] \in {"sending", "unknown"} \cup ProviderAccepted \cup {"failed", "suppressed"}
    BY <1>1 DEF SendPathInvariant, HandedIsClaimed, Statuses, ProviderAccepted
<1>3. /\ status'[m] = IF stale /\ type \notin safetyEvents THEN status[m]
                      ELSE monotonicMessageStatus(status[m], type)
      /\ \A n \in Messages \ {m} : status'[n] = status[n]
    BY DEF ingestProviderEvent, TypeOK
<1>4. type \notin InFlight
    BY <1>1 DEF acceptanceEvents, InFlight
<1>5. CASE status[m] = "sending"
    <2>1. ConfirmsAcceptance(m, type) /\ ledger[m] = NoTime
        BY <1>1, <1>5 DEF ConfirmsAcceptance, RowAgrees, Billed, ProviderAccepted
    <2>2. releaseReservation(m)
        BY <1>5, <2>1 DEF ingestProviderEvent, StillReserved
    <2>3. status'[m] = type
        BY <1>1, <1>3, <1>5 DEF RowAgrees, monotonicMessageStatus, statusRank, acceptanceEvents, Statuses
    <2> QED
        BY <1>1, <1>3, <1>4, <1>5, <2>2, <2>3, ReleaseExact DEF InFlight
<1>6. CASE status[m] # "sending"
    <2>1. UNCHANGED reserved
        BY <1>6 DEF ingestProviderEvent, usage, StillReserved
    <2>2. status[m] \notin InFlight /\ status'[m] \notin InFlight
        BY <1>2, <1>3, <1>4, <1>6 DEF monotonicMessageStatus, InFlight, ProviderAccepted
    <2> QED
        BY <1>1, <1>3, <2>1, <2>2, KeptExact
<1> QED
    BY <1>5, <1>6

LEMMA ExactNext ==
    ASSUME "failed" \notin TransportEvents, TypeOK, SendPathInvariant, OutcomeInvariant,
           QuotaInvariant, NothingLeaks, [Next]_vars
    PROVE  NothingLeaks'
<1> USE DEF message, usage, history, provider
<1>1. RowsHold /\ QuotaHolds
    BY DEF QuotaInvariant
<1>2. ASSUME NEW m \in Messages, recoverStaleSending(m) \/ expireQueuedPastDeadline(m)
      PROVE  NothingLeaks'
    <2>1. /\ status[m] \in InFlight /\ status'[m] \notin InFlight
          /\ \A n \in Messages \ {m} : status'[n] = status[n]
        BY <1>2 DEF recoverStaleSending, expireQueuedPastDeadline, StaleClaim, Expirable, InFlight, TypeOK
    <2>2. UNCHANGED queuedAt /\ releaseReservation(m)
        BY <1>2 DEF recoverStaleSending, expireQueuedPastDeadline
    <2> QED
        BY <1>1, <2>1, <2>2, ReleaseExact
<1>3. ASSUME NEW w \in Workers, NEW m \in Messages, Claim(w, m) PROVE NothingLeaks'
    <2>1. \A n \in Messages : status[n] \in InFlight <=> status'[n] \in InFlight
        BY <1>3 DEF Claim, Claimable, InFlight, TypeOK
    <2> QED
        BY <1>3, <2>1, KeptExact DEF Claim
<1>4. ASSUME NEW w \in Workers, Crash(w) PROVE NothingLeaks'
    BY <1>4, KeptExact DEF Crash
<1>5. CASE Tick \/ UNCHANGED vars
    BY <1>5, KeptExact DEF Tick, vars
<1> QED
    BY <1>2, <1>3, <1>4, <1>5, AcceptExact, ExactWorkerStep, ExactEventStep DEF Next

(* The counter acceptEmail tests is the number of reservations held, and   *)
(* never lets the day beyond its limit (CountersHold).  Both premises are  *)
(* needed: a COMMIT whose acknowledgement is lost, or a rejection that     *)
(* overtakes the worker, leaves a reservation that nobody gives back.      *)
THEOREM CountersAlwaysHold ==
    ASSUME ~LostAcks, "failed" \notin TransportEvents
    PROVE  Spec => []CountersHold
<1>1. Init => NothingLeaks
    <2> SUFFICES ASSUME Init, NEW d \in Days PROVE reserved[d] <= Cardinality(ReservedOn(d))
        BY DEF NothingLeaks
    <2>1. reserved[d] = 0 /\ Cardinality(ReservedOn(d)) \in Nat
        BY Counted DEF Init
    <2> QED
        BY <2>1
<1>2. TypeOK /\ SendPathInvariant /\ OutcomeInvariant /\ QuotaInvariant /\ NothingLeaks /\ [Next]_vars
        => NothingLeaks'
    BY ExactNext
<1>3. Spec => []NothingLeaks
    BY <1>1, <1>2, TypeCorrect, OutcomeAgrees, QuotaKept, PTL DEF Spec
<1>4. ASSUME TypeOK, NothingLeaks, ReservationsCoverInFlight, WithinDailyLimit PROVE CountersHold
    <2> SUFFICES ASSUME NEW d \in Days PROVE reserved[d] = Cardinality(ReservedOn(d))
        BY <1>4 DEF CountersHold, ReservationsExact
    <2>1. Cardinality(ReservedOn(d)) \in Nat /\ reserved[d] \in Nat
        BY <1>4, Counted DEF TypeOK
    <2> QED
        BY <1>4, <2>1 DEF NothingLeaks, ReservationsCoverInFlight
<1> QED
    BY <1>3, <1>4, TypeCorrect, ReservationsCover, LimitKept, PTL
=============================================================================
