----------------------------- MODULE OutboxProofs -----------------------------
(***************************************************************************)
(* Theorems about Outbox for every set of rows and invocations, every page *)
(* size, and every lease that is no shorter than the timeout.              *)
(***************************************************************************)
EXTENDS Outbox, TLAPS

(* The part of TypeOK that the arguments below need, and that whoever is   *)
(* between claim and mark has a row.                                       *)
Types ==
    /\ status \in [Jobs -> Statuses]
    /\ attempts \in [Jobs -> 0..MaxAttempts]
    /\ age \in [Jobs -> 0..OldAge]
    /\ sent \in [Jobs -> Nat]
    /\ run \in [Dispatchers -> Runs]
    /\ faults \in Nat
    /\ \A d \in Dispatchers : run[d].pc \in {"send", "mark", "retry"} => run[d].job \in Jobs

(* What the table and the queue know of a row that an invocation holds.    *)
MarkIsSent ==
    \A d \in Dispatchers : run[d].pc = "mark" => sent[run[d].job] > 0

(* A message beyond the number of faults is the one that was sent without  *)
(* any: it is about to be marked, or was, and nobody is about to retry it. *)
SentWithin(j) ==
    \/ sent[j] <= faults
    \/ /\ sent[j] <= 1 + faults
       /\ \/ status[j] = "delivered" /\ \A d \in Dispatchers : ~Holds(d, j)
          \/ \E d \in Dispatchers : Holds(d, j) /\ run[d].pc = "mark"

SentNoMore == \A j \in Jobs : SentWithin(j)

OutboxInvariant ==
    /\ Types
    /\ OneDispatcher
    /\ HeldIsProcessing
    /\ MarkIsSent
    /\ DeliveredWasSent
    /\ SentNoMore

-----------------------------------------------------------------------------
LEMMA RunShape ==
    ASSUME NEW s \in Runs
    PROVE  /\ s.pc \in {"idle", "next", "send", "mark", "retry"}
           /\ s.elapsed \in 0..Timeout
           /\ s.todo \in SUBSET Jobs
           /\ s.job \in Jobs \cup {NoJob}
           /\ s.tries \in 0..MaxAttempts
BY DEF Runs

LEMMA IdleRun == Idle \in Runs /\ Idle.pc = "idle" /\ Idle.elapsed = 0
BY LeaseAssumption, BoundAssumption DEF Idle, Runs

LEMMA BecomeFacts ==
    ASSUME run \in [Dispatchers -> Runs], NEW d \in Dispatchers, NEW s, Become(d, s)
    PROVE  /\ run'[d] = s
           /\ \A e \in Dispatchers \ {d} : run'[e] = run[e]
           /\ s \in Runs => run' \in [Dispatchers -> Runs]
BY DEF Become

(* A record of Runs stays one when it moves on to its other candidates.    *)
LEMMA NextRun ==
    ASSUME NEW s \in Runs, NEW x \in 0..Timeout, NEW y \in SUBSET Jobs
    PROVE  LET n == [s EXCEPT !.pc = "next", !.elapsed = x, !.todo = y] IN
           n \in Runs /\ n.pc = "next"
BY DEF Runs

(* Proceeding to the next row lets go of this one.                         *)
LEMMA ProceedFacts ==
    ASSUME run \in [Dispatchers -> Runs], NEW d \in Dispatchers, Proceed(d)
    PROVE  \E s \in Runs : Become(d, s) /\ s.pc \in {"idle", "next"}
<1> DEFINE rest == run[d].todo \ {run[d].job}
           next == [Idle EXCEPT !.pc = "next", !.elapsed = run[d].elapsed, !.todo = rest]
<1>1. run[d].elapsed \in 0..Timeout /\ rest \in SUBSET Jobs
    BY RunShape
<1>2. next \in Runs /\ next.pc = "next"
    <2> HIDE DEF rest
    <2> QED
        BY <1>1, IdleRun, NextRun
<1>3. Become(d, IF rest = {} THEN Idle ELSE next)
    BY DEF Proceed
<1> QED
    BY <1>2, <1>3, IdleRun

(* A row that an invocation holds cannot be claimed by another one: the    *)
(* holder is younger than its timeout, so its claim is younger than the    *)
(* lease.                                                                  *)
LEMMA HeldIsNotClaimable ==
    ASSUME Types, HeldIsProcessing,
           NEW d \in Dispatchers, NEW e \in Dispatchers, NEW j \in Jobs, Holds(e, j)
    PROVE  ~Claimable(j, run[d].elapsed)
<1>1. run[d].elapsed \in 0..Timeout /\ run[e].elapsed \in 0..Timeout
    BY RunShape DEF Types
<1>2. \/ status[j] = "processing" /\ age[j] = run[e].elapsed
      \/ status[j] = "delivered"
    BY DEF HeldIsProcessing
<1>3. age[j] = run[e].elapsed => ~StaleFor(j, run[d].elapsed)
    BY <1>1, LeaseAssumption DEF StaleFor
<1> QED
    BY <1>2, <1>3 DEF Claimable

(* While j is held by e, its message count leaves room for one message or  *)
(* e is about to mark it.                                                  *)
LEMMA HeldIsNotSent ==
    ASSUME OutboxInvariant,
           NEW e \in Dispatchers, NEW j \in Jobs, Holds(e, j), run[e].pc # "mark"
    PROVE  sent[j] <= faults
<1>1. \A d \in Dispatchers : Holds(d, j) => d = e
    BY DEF OutboxInvariant, OneDispatcher
<1> QED
    BY <1>1 DEF OutboxInvariant, SentNoMore, SentWithin

-----------------------------------------------------------------------------
LEMMA OutboxInit == Init => OutboxInvariant
<1> SUFFICES ASSUME Init PROVE OutboxInvariant
    OBVIOUS
<1>1. \A d \in Dispatchers : run[d].pc = "idle"
    BY IdleRun DEF Init
<1>2. Types
    BY <1>1, IdleRun, LeaseAssumption, BoundAssumption DEF Init, Types, Statuses, OldAge
<1>3. MarkIsSent
    BY <1>1 DEF MarkIsSent
<1>4. DeliveredWasSent
    BY DEF Init, DeliveredWasSent
<1>5. SentNoMore
    BY DEF Init, SentNoMore, SentWithin
<1>6. OneDispatcher /\ HeldIsProcessing
    BY <1>1 DEF OneDispatcher, HeldIsProcessing, Holds
<1> QED
    BY <1>2, <1>3, <1>4, <1>5, <1>6 DEF OutboxInvariant

LEMMA InsertPreserves ==
    ASSUME OutboxInvariant, NEW i \in Jobs, Insert(i)
    PROVE  OutboxInvariant'
<1>1. /\ status[i] = "none"
      /\ status' = [status EXCEPT ![i] = "pending"]
      /\ UNCHANGED <<attempts, age, sent, run, faults>>
    BY DEF Insert
<1>2. \A d \in Dispatchers : ~Holds(d, i)
    BY <1>1 DEF OutboxInvariant, HeldIsProcessing
<1>3. Types'
    BY <1>1 DEF OutboxInvariant, Types, Statuses
<1>4. OneDispatcher' /\ HeldIsProcessing'
    BY <1>1, <1>2 DEF OutboxInvariant, Types, OneDispatcher, HeldIsProcessing, Holds
<1>5. MarkIsSent' /\ DeliveredWasSent'
    BY <1>1 DEF OutboxInvariant, Types, MarkIsSent, DeliveredWasSent
<1>6. SentNoMore'
    <2> SUFFICES ASSUME NEW j \in Jobs
                 PROVE  SentWithin(j)'
        BY DEF SentNoMore
    <2>1. status[j] = "delivered" => status'[j] = "delivered"
        BY <1>1 DEF OutboxInvariant, Types
    <2> QED
        BY <1>1, <2>1 DEF OutboxInvariant, SentNoMore, SentWithin, Holds
<1> QED
    BY <1>3, <1>4, <1>5, <1>6 DEF OutboxInvariant

(* An invocation d that holds nothing afterwards, in a step that leaves    *)
(* the rows and the queue alone: a message just sent but not marked may be *)
(* sent again, so letting go of it takes a fault.                          *)
LEMMA LetGoPreserves ==
    ASSUME OutboxInvariant, NEW d \in Dispatchers, NEW s \in Runs, Become(d, s),
           s.pc \in {"idle", "next"}, UNCHANGED <<status, attempts, age, sent>>,
           \/ run[d].pc # "mark" /\ faults' = faults
           \/ faults' = faults + 1
    PROVE  OutboxInvariant'
<1>1. /\ run' \in [Dispatchers -> Runs]
      /\ run'[d] = s
      /\ \A e \in Dispatchers \ {d} : run'[e] = run[e]
    BY BecomeFacts DEF OutboxInvariant, Types
<1>2. \A e \in Dispatchers, j \in Jobs : Holds(e, j)' => e # d /\ Holds(e, j)
    BY <1>1 DEF Holds
<1>3. \A e \in Dispatchers, j \in Jobs : Holds(e, j) /\ e # d => Holds(e, j)' /\ run'[e] = run[e]
    BY <1>1 DEF Holds
<1>4. Types'
    BY <1>1 DEF OutboxInvariant, Types
<1>5. OneDispatcher' /\ HeldIsProcessing'
    BY <1>1, <1>2 DEF OutboxInvariant, OneDispatcher, HeldIsProcessing
<1>6. MarkIsSent' /\ DeliveredWasSent'
    BY <1>1 DEF OutboxInvariant, MarkIsSent, DeliveredWasSent
<1>7. SentNoMore'
    <2> SUFFICES ASSUME NEW j \in Jobs
                 PROVE  SentWithin(j)'
        BY DEF SentNoMore
    <2>1. faults \in Nat /\ sent[j] \in Nat
        BY DEF OutboxInvariant, Types
    <2>2. SentWithin(j)
        BY DEF OutboxInvariant, SentNoMore
    <2>3. CASE faults' = faults + 1
        BY <2>1, <2>2, <2>3 DEF SentWithin
    <2>4. CASE run[d].pc # "mark" /\ faults' = faults
        BY <2>2, <2>4, <1>2, <1>3 DEF SentWithin
    <2> QED
        BY <2>3, <2>4
<1> QED
    BY <1>4, <1>5, <1>6, <1>7 DEF OutboxInvariant

LEMMA ScanPreserves ==
    ASSUME OutboxInvariant, NEW d \in Dispatchers, Scan(d)
    PROVE  OutboxInvariant'
<1>1. PICK todo \in SUBSET Jobs : Become(d, [Idle EXCEPT !.pc = "next", !.todo = todo])
    BY DEF Scan
<1> DEFINE s == [Idle EXCEPT !.pc = "next", !.todo = todo]
<1>2. s \in Runs /\ s.pc = "next"
    BY IdleRun DEF Runs
<1>3. run[d].pc # "mark" /\ UNCHANGED <<status, attempts, age, sent, faults>>
    BY IdleRun DEF Scan
<1> HIDE DEF s
<1> QED
    BY <1>1, <1>2, <1>3, LetGoPreserves DEF s

LEMMA CrashPreserves ==
    ASSUME OutboxInvariant, NEW d \in Dispatchers, Crash(d)
    PROVE  OutboxInvariant'
<1>1. Become(d, Idle) /\ faults' = faults + 1 /\ UNCHANGED <<status, attempts, age, sent>>
    BY DEF Crash, Fault
<1> QED
    BY <1>1, IdleRun, LetGoPreserves

(* A row that is claimed has no holder, so no message beyond the faults    *)
(* either: it would be delivered.                                          *)
LEMMA ClaimPreserves ==
    ASSUME OutboxInvariant, NEW d \in Dispatchers, Claim(d)
    PROVE  OutboxInvariant'
<1>1. run[d] \in Runs /\ run[d].pc = "next" /\ run[d].todo \in SUBSET Jobs
    BY RunShape DEF Claim, OutboxInvariant, Types
<1>2. UNCHANGED <<attempts, sent, faults>>
    BY DEF Claim
<1>3. ASSUME NEW j \in run[d].todo, Claimable(j, run[d].elapsed),
             status' = [status EXCEPT ![j] = "processing"],
             age' = [age EXCEPT ![j] = run[d].elapsed],
             Become(d, [run[d] EXCEPT !.pc = "send", !.job = j, !.tries = attempts[j]])
      PROVE  OutboxInvariant'
    <2> DEFINE s == [run[d] EXCEPT !.pc = "send", !.job = j, !.tries = attempts[j]]
    <2>1. s \in Runs /\ s.pc = "send" /\ s.job = j /\ s.elapsed = run[d].elapsed
        <3>1. attempts[j] \in 0..MaxAttempts
            BY <1>1 DEF OutboxInvariant, Types
        <3> QED
            BY <1>1, <1>3, <3>1 DEF Runs
    <2>2. /\ run' \in [Dispatchers -> Runs]
          /\ run'[d] = s
          /\ \A e \in Dispatchers \ {d} : run'[e] = run[e]
        <3> HIDE DEF s
        <3> QED
            BY <2>1, <1>3, BecomeFacts DEF OutboxInvariant, Types, s
    <2> HIDE DEF s
    <2>3. \A e \in Dispatchers : ~Holds(e, j)
        BY <1>1, <1>3, HeldIsNotClaimable DEF OutboxInvariant
    <2>4. \A e \in Dispatchers, i \in Jobs :
             Holds(e, i)' <=> (e = d /\ i = j) \/ (e # d /\ Holds(e, i))
        BY <2>1, <2>2 DEF Holds
    <2>5. j \in Jobs /\ s.elapsed \in 0..Timeout
        BY <1>1, <2>1, RunShape
    <2>6. Types'
        BY <1>2, <1>3, <2>1, <2>2, <2>5, LeaseAssumption DEF OutboxInvariant, Types, Statuses, OldAge
    <2>7. OneDispatcher'
        BY <2>3, <2>4 DEF OutboxInvariant, OneDispatcher
    <2>8. HeldIsProcessing'
        BY <1>3, <2>1, <2>2, <2>3, <2>4, <2>5 DEF OutboxInvariant, HeldIsProcessing, Types
    <2>9. MarkIsSent' /\ DeliveredWasSent'
        BY <1>2, <1>3, <2>1, <2>2, <2>5 DEF OutboxInvariant, MarkIsSent, DeliveredWasSent, Types
    <2>10. status[j] # "delivered"
        BY <1>3 DEF Claimable
    <2>11. SentNoMore'
        <3> SUFFICES ASSUME NEW i \in Jobs
                     PROVE  SentWithin(i)'
            BY DEF SentNoMore
        <3>1. SentWithin(i)
            BY DEF OutboxInvariant, SentNoMore
        <3>2. CASE i = j
            BY <1>2, <2>4, <3>1, <3>2, <2>3, <2>10 DEF SentWithin
        <3>3. CASE i # j
            <4>1. status'[i] = status[i]
                BY <1>3, <3>3 DEF OutboxInvariant, Types
            <4>2. \A e \in Dispatchers : Holds(e, i)' <=> e # d /\ Holds(e, i)
                BY <2>4, <3>3
            <4>3. ~Holds(d, i)
                BY <1>1 DEF Holds
            <4> QED
                BY <1>2, <3>1, <4>1, <4>2, <4>3, <2>2 DEF SentWithin
        <3> QED
            BY <3>2, <3>3
    <2> QED
        BY <2>6, <2>7, <2>8, <2>9, <2>11 DEF OutboxInvariant
<1>4. ASSUME NEW j \in run[d].todo, UNCHANGED <<status, age>>,
             LET rest == run[d].todo \ {j} IN
             Become(d, IF rest = {} THEN Idle ELSE [run[d] EXCEPT !.todo = rest])
      PROVE  OutboxInvariant'
    <2> DEFINE rest == run[d].todo \ {j}
               s == [run[d] EXCEPT !.todo = rest]
    <2>1. s \in Runs /\ s.pc = "next"
        BY <1>1 DEF Runs
    <2>2. Become(d, IF rest = {} THEN Idle ELSE s)
        BY <1>4
    <2> HIDE DEF rest, s
    <2> DEFINE n == IF rest = {} THEN Idle ELSE s
    <2>3. n \in Runs /\ n.pc \in {"idle", "next"} /\ Become(d, n)
        BY <2>1, <2>2, IdleRun
    <2> HIDE DEF n
    <2> QED
        BY <1>1, <1>2, <1>4, <2>3, LetGoPreserves
<1> QED
    BY <1>3, <1>4 DEF Claim

(* An invocation that goes on holding its row: what it knows of the row    *)
(* does not change, and neither does what the others hold.                 *)
LEMMA KeepFacts ==
    ASSUME run \in [Dispatchers -> Runs], NEW d \in Dispatchers,
           run[d].pc \in {"send", "mark", "retry"}, NEW pc \in {"mark", "retry"},
           Become(d, [run[d] EXCEPT !.pc = pc])
    PROVE  /\ run' \in [Dispatchers -> Runs]
           /\ run'[d].pc = pc
           /\ \A e \in Dispatchers : run'[e].job = run[e].job /\ run'[e].elapsed = run[e].elapsed
           /\ \A e \in Dispatchers \ {d} : run'[e] = run[e]
           /\ \A e \in Dispatchers, j \in Jobs : Holds(e, j)' <=> Holds(e, j)
<1> DEFINE s == [run[d] EXCEPT !.pc = pc]
<1>1. s \in Runs /\ s.pc = pc /\ s.job = run[d].job /\ s.elapsed = run[d].elapsed
    BY DEF Runs
<1> HIDE DEF s
<1>2. /\ run' \in [Dispatchers -> Runs]
      /\ run'[d] = s
      /\ \A e \in Dispatchers \ {d} : run'[e] = run[e]
    BY <1>1, BecomeFacts DEF s
<1>3. \A e \in Dispatchers, j \in Jobs : Holds(e, j)' <=> Holds(e, j)
    BY <1>1, <1>2 DEF Holds
<1> QED
    BY <1>1, <1>2, <1>3

LEMMA SendPreserves ==
    ASSUME OutboxInvariant, NEW d \in Dispatchers, Send(d)
    PROVE  OutboxInvariant'
<1> DEFINE i == run[d].job
<1>1. run[d].pc = "send" /\ UNCHANGED <<status, attempts, age>>
    BY DEF Send
<1>2. i \in Jobs /\ Holds(d, i)
    BY <1>1 DEF OutboxInvariant, Types, Holds
<1>3. sent[i] <= faults
    BY <1>1, <1>2, HeldIsNotSent
<1>4. PICK pc \in {"mark", "retry"}, kept \in {0, 1} :
         /\ Become(d, [run[d] EXCEPT !.pc = pc])
         /\ sent' = [sent EXCEPT ![i] = @ + kept]
         /\ \/ pc = "mark" /\ kept = 1 /\ faults' = faults
            \/ pc = "retry" /\ faults' = faults + 1
    BY DEF Send, SendFailed, Fault, NoFault
<1>5. /\ run' \in [Dispatchers -> Runs]
      /\ run'[d].pc = pc
      /\ \A e \in Dispatchers : run'[e].job = run[e].job /\ run'[e].elapsed = run[e].elapsed
      /\ \A e \in Dispatchers \ {d} : run'[e] = run[e]
      /\ \A e \in Dispatchers, j \in Jobs : Holds(e, j)' <=> Holds(e, j)
    BY <1>1, <1>4, KeepFacts DEF OutboxInvariant, Types
<1> HIDE DEF i
<1>6. Types'
    BY <1>1, <1>2, <1>4, <1>5 DEF OutboxInvariant, Types, i
<1>7. OneDispatcher'
    BY <1>5 DEF OutboxInvariant, OneDispatcher
<1>8. HeldIsProcessing'
    <2>1. \A j \in Jobs, e \in Dispatchers :
             Holds(e, j) /\ status[j] = "delivered" /\ run[e].pc = "retry" => run'[e].pc = "retry"
        BY <1>1, <1>5
    <2> QED
        BY <1>1, <1>5, <2>1 DEF OutboxInvariant, HeldIsProcessing
<1>9. sent \in [Jobs -> Nat] /\ \A j \in Jobs : sent'[j] >= sent[j]
    BY <1>2, <1>4 DEF OutboxInvariant, Types
<1>10. DeliveredWasSent'
    BY <1>1, <1>4, <1>9 DEF OutboxInvariant, Types, DeliveredWasSent
<1>11. MarkIsSent'
    <2> SUFFICES ASSUME NEW e \in Dispatchers, run'[e].pc = "mark"
                 PROVE  sent'[run[e].job] > 0
        BY <1>5 DEF MarkIsSent
    <2>1. CASE e = d
        BY <1>2, <1>4, <1>5, <1>9, <2>1 DEF i
    <2>2. CASE e # d
        <3>1. run[e].pc = "mark" /\ run[e].job \in Jobs /\ sent[run[e].job] > 0
            BY <1>5, <2>2 DEF OutboxInvariant, Types, MarkIsSent
        <3> QED
            BY <1>4, <1>9, <3>1
    <2> QED
        BY <2>1, <2>2
<1>12. SentNoMore'
    <2> SUFFICES ASSUME NEW j \in Jobs
                 PROVE  SentWithin(j)'
        BY DEF SentNoMore
    <2>1. faults \in Nat /\ sent[j] \in Nat
        BY DEF OutboxInvariant, Types
    <2>2. CASE j = i
        <3>1. sent'[j] = sent[j] + kept
            BY <1>4, <1>9, <2>2
        <3> QED
            BY <1>2, <1>3, <1>4, <1>5, <2>1, <2>2, <3>1 DEF SentWithin
    <2>3. CASE j # i
        <3>1. sent'[j] = sent[j] /\ faults' >= faults
            BY <1>4, <1>9, <2>1, <2>3
        <3>2. SentWithin(j)
            BY DEF OutboxInvariant, SentNoMore
        <3>3. ~Holds(d, j)
            BY <2>3 DEF Holds, i
        <3>4. faults' \in Nat
            BY <1>4, <2>1
        <3> QED
            BY <1>1, <1>5, <2>1, <3>1, <3>2, <3>3, <3>4 DEF SentWithin
    <2> QED
        BY <2>2, <2>3
<1> QED
    BY <1>6, <1>7, <1>8, <1>10, <1>11, <1>12 DEF OutboxInvariant

(* The last update of a held row, after which d holds nothing: the row is  *)
(* delivered, or it is pending again and has not used up its faults.       *)
LEMMA ClosePreserves ==
    ASSUME OutboxInvariant, NEW d \in Dispatchers, NEW i \in Jobs, Holds(d, i),
           NEW s \in Runs, Become(d, s), s.pc \in {"idle", "next"},
           NEW x \in {"pending", "delivered"},
           status' = [status EXCEPT ![i] = x],
           attempts' \in [Jobs -> 0..MaxAttempts],
           UNCHANGED <<age, sent>>,
           faults' \in Nat, faults' >= faults,
           x = "delivered" => sent[i] > 0,
           x = "pending" => sent[i] <= faults
    PROVE  OutboxInvariant'
<1>1. /\ run' \in [Dispatchers -> Runs]
      /\ run'[d] = s
      /\ \A e \in Dispatchers \ {d} : run'[e] = run[e]
    BY BecomeFacts DEF OutboxInvariant, Types
<1>2. \A e \in Dispatchers : Holds(e, i) => e = d
    BY DEF OutboxInvariant, OneDispatcher
<1>3. \A e \in Dispatchers, j \in Jobs : Holds(e, j)' <=> j # i /\ Holds(e, j)
    <2> TAKE e \in Dispatchers, j \in Jobs
    <2>1. CASE e = d
        BY <1>1, <2>1 DEF Holds
    <2>2. CASE e # d
        BY <1>1, <1>2, <2>2 DEF Holds
    <2> QED
        BY <2>1, <2>2
<1>4. status'[i] = x /\ \A j \in Jobs \ {i} : status'[j] = status[j]
    BY DEF OutboxInvariant, Types
<1>5. Types'
    BY <1>1 DEF OutboxInvariant, Types, Statuses
<1>6. OneDispatcher'
    BY <1>3 DEF OutboxInvariant, OneDispatcher
<1>7. HeldIsProcessing'
    <2>1. \A e \in Dispatchers, j \in Jobs : Holds(e, j)' => run'[e] = run[e]
        BY <1>1 DEF Holds
    <2> QED
        BY <1>3, <1>4, <2>1 DEF OutboxInvariant, HeldIsProcessing
<1>8. MarkIsSent'
    BY <1>1 DEF OutboxInvariant, MarkIsSent
<1>9. DeliveredWasSent'
    BY <1>4 DEF OutboxInvariant, DeliveredWasSent
<1>10. SentNoMore'
    <2> SUFFICES ASSUME NEW j \in Jobs
                 PROVE  SentWithin(j)'
        BY DEF SentNoMore
    <2>1. faults \in Nat /\ sent[j] \in Nat
        BY DEF OutboxInvariant, Types
    <2>2. SentWithin(j)
        BY DEF OutboxInvariant, SentNoMore
    <2>3. CASE j = i
        <3>1. \A e \in Dispatchers : ~Holds(e, i)'
            BY <1>3
        <3> QED
            BY <1>4, <2>1, <2>2, <2>3, <3>1 DEF SentWithin
    <2>4. CASE j # i
        <3>1. \A e \in Dispatchers : Holds(e, j) => Holds(e, j)' /\ run'[e] = run[e]
            BY <1>1, <1>3, <2>4 DEF Holds
        <3>2. \A e \in Dispatchers : Holds(e, j)' => Holds(e, j)
            BY <1>3
        <3> QED
            BY <1>4, <2>1, <2>2, <2>4, <3>1, <3>2 DEF SentWithin
    <2> QED
        BY <2>3, <2>4
<1> QED
    BY <1>5, <1>6, <1>7, <1>8, <1>9, <1>10 DEF OutboxInvariant

LEMMA TriedFacts ==
    ASSUME Types, NEW d \in Dispatchers
    PROVE  Tried(d) \in 0..MaxAttempts
<1>1. run[d].tries \in 0..MaxAttempts
    BY RunShape DEF Types
<1> QED
    BY <1>1, BoundAssumption DEF Tried, Least

LEMMA MarkFailedPreserves ==
    ASSUME OutboxInvariant, NEW d \in Dispatchers, MarkFailed(d)
    PROVE  OutboxInvariant'
<1> DEFINE i == run[d].job
<1>1. run[d].pc = "retry" /\ UNCHANGED <<age, sent>> /\ faults \in Nat
    BY DEF MarkFailed, OutboxInvariant, Types
<1>2. i \in Jobs /\ Holds(d, i) /\ sent[i] <= faults
    BY <1>1, HeldIsNotSent DEF OutboxInvariant, Types, Holds
<1>3. CASE /\ status' = [status EXCEPT ![i] = AfterFailure]
           /\ attempts' = [attempts EXCEPT ![i] = Tried(d)]
           /\ \/ NoFault /\ Proceed(d)
              \/ Fault /\ Become(d, Idle)
    <2>1. attempts' \in [Jobs -> 0..MaxAttempts]
        BY <1>2, <1>3, TriedFacts DEF OutboxInvariant, Types
    <2>2. faults' \in Nat /\ faults' >= faults
        BY <1>1, <1>3 DEF NoFault, Fault
    <2>3. PICK s \in Runs : Become(d, s) /\ s.pc \in {"idle", "next"}
        BY <1>3, ProceedFacts, IdleRun DEF OutboxInvariant, Types
    <2> QED
        BY <1>1, <1>2, <1>3, <2>1, <2>2, <2>3, ClosePreserves DEF AfterFailure
<1>4. CASE Fault /\ Become(d, Idle) /\ UNCHANGED <<status, attempts, wait>>
    BY <1>1, <1>4, IdleRun, LetGoPreserves DEF Fault
<1> QED
    BY <1>3, <1>4 DEF MarkFailed

LEMMA MarkDeliveredPreserves ==
    ASSUME OutboxInvariant, NEW d \in Dispatchers, MarkDelivered(d)
    PROVE  OutboxInvariant'
<1> DEFINE i == run[d].job
<1>1. run[d].pc = "mark" /\ UNCHANGED <<age, sent>> /\ faults \in Nat
    BY DEF MarkDelivered, OutboxInvariant, Types
<1>2. i \in Jobs /\ Holds(d, i) /\ sent[i] > 0
    BY <1>1 DEF OutboxInvariant, Types, Holds, MarkIsSent
<1>3. CASE /\ status' = [status EXCEPT ![i] = "delivered"]
           /\ attempts' = [attempts EXCEPT ![i] = Tried(d)]
           /\ NoFault /\ Proceed(d)
    <2>1. attempts' \in [Jobs -> 0..MaxAttempts]
        BY <1>2, <1>3, TriedFacts DEF OutboxInvariant, Types
    <2>2. PICK s \in Runs : Become(d, s) /\ s.pc \in {"idle", "next"}
        BY <1>3, ProceedFacts DEF OutboxInvariant, Types
    <2>3. faults' \in Nat /\ faults' >= faults
        BY <1>1, <1>3 DEF NoFault
    <2>4. status' = [status EXCEPT ![i] = "delivered"] /\ UNCHANGED <<age, sent>>
        BY <1>1, <1>3
    <2> HIDE DEF i
    <2> QED
        BY <1>2, <2>1, <2>2, <2>3, <2>4, ClosePreserves
<1>4. ASSUME Fault, Become(d, [run[d] EXCEPT !.pc = "retry"]),
             \/ /\ status' = [status EXCEPT ![i] = "delivered"]
                /\ attempts' = [attempts EXCEPT ![i] = Tried(d)]
             \/ UNCHANGED <<status, attempts>>
      PROVE  OutboxInvariant'
    <2>1. /\ run' \in [Dispatchers -> Runs]
          /\ run'[d].pc = "retry"
          /\ \A e \in Dispatchers : run'[e].job = run[e].job /\ run'[e].elapsed = run[e].elapsed
          /\ \A e \in Dispatchers \ {d} : run'[e] = run[e]
          /\ \A e \in Dispatchers, j \in Jobs : Holds(e, j)' <=> Holds(e, j)
        BY <1>1, <1>4, KeepFacts DEF OutboxInvariant, Types
    <2>2. /\ status'[i] = "delivered" \/ status'[i] = status[i]
          /\ \A j \in Jobs \ {i} : status'[j] = status[j]
          /\ status' \in [Jobs -> Statuses]
        BY <1>2, <1>4 DEF OutboxInvariant, Types, Statuses
    <2>3. attempts' \in [Jobs -> 0..MaxAttempts]
        BY <1>2, <1>4, TriedFacts DEF OutboxInvariant, Types
    <2>4. faults' = faults + 1
        BY <1>4 DEF Fault
    <2> HIDE DEF i
    <2>5. Types'
        BY <1>1, <2>1, <2>2, <2>3, <2>4 DEF OutboxInvariant, Types
    <2>6. OneDispatcher'
        BY <2>1 DEF OutboxInvariant, OneDispatcher
    <2>7. HeldIsProcessing'
        <3> SUFFICES ASSUME NEW j \in Jobs, NEW e \in Dispatchers, Holds(e, j)
                     PROVE  \/ status'[j] = "processing" /\ age[j] = run[e].elapsed
                            \/ status'[j] = "delivered" /\ run'[e].pc = "retry"
            BY <1>1, <2>1 DEF HeldIsProcessing
        <3>1. CASE j = i
            <4>1. e = d
                BY <1>2, <3>1 DEF OutboxInvariant, OneDispatcher
            <4> QED
                BY <1>1, <2>1, <2>2, <3>1, <4>1 DEF OutboxInvariant, HeldIsProcessing
        <3>2. CASE j # i
            <4>1. e # d
                BY <3>2 DEF Holds, i
            <4> QED
                BY <2>1, <2>2, <3>2, <4>1 DEF OutboxInvariant, HeldIsProcessing
        <3> QED
            BY <3>1, <3>2
    <2>8. MarkIsSent'
        BY <1>1, <2>1 DEF OutboxInvariant, MarkIsSent
    <2>9. DeliveredWasSent'
        BY <1>1, <1>2, <2>2 DEF OutboxInvariant, DeliveredWasSent
    <2>10. SentNoMore'
        <3>1. \A j \in Jobs : sent[j] <= faults'
            BY <1>1, <2>4 DEF OutboxInvariant, Types, SentNoMore, SentWithin
        <3> QED
            BY <1>1, <3>1 DEF SentNoMore, SentWithin
    <2> QED
        BY <2>5, <2>6, <2>7, <2>8, <2>9, <2>10 DEF OutboxInvariant
<1> QED
    BY <1>3, <1>4 DEF MarkDelivered

LEMMA TickPreserves ==
    ASSUME OutboxInvariant, Tick
    PROVE  OutboxInvariant'
<1>1. UNCHANGED <<status, attempts, sent, faults>>
    BY DEF Tick
<1>2. \A d \in Dispatchers :
         /\ run'[d] \in Runs
         /\ run'[d].pc = run[d].pc
         /\ run'[d].job = run[d].job
         /\ run[d] # Idle => run'[d].elapsed = run[d].elapsed + 1 /\ run[d].elapsed < Timeout
    <2> TAKE d \in Dispatchers
    <2>1. run[d] \in Runs /\ run[d].elapsed \in 0..Timeout
        BY RunShape DEF OutboxInvariant, Types
    <2>2. CASE run[d] = Idle
        <3>1. run'[d] = Idle
            BY <2>2 DEF Tick
        <3> QED
            BY <2>1, <2>2, <3>1
    <2>3. CASE run[d] # Idle
        <3>1. run'[d] = [run[d] EXCEPT !.elapsed = @ + 1] /\ run[d].elapsed < Timeout
            BY <2>3 DEF Tick
        <3>2. run[d].elapsed + 1 \in 0..Timeout
            BY <2>1, <3>1, LeaseAssumption
        <3> QED
            BY <2>1, <3>1, <3>2 DEF Runs
    <2> QED
        BY <2>2, <2>3
<1>3. run' \in [Dispatchers -> Runs]
    <2>1. DOMAIN run' = Dispatchers /\ run' = [d \in Dispatchers |-> run'[d]]
        BY DEF Tick
    <2> QED
        BY <1>2, <2>1
<1>4. \A d \in Dispatchers, j \in Jobs :
         /\ Holds(d, j)' <=> Holds(d, j)
         /\ Holds(d, j) => run'[d].elapsed = run[d].elapsed + 1 /\ run[d].elapsed < Timeout
    BY <1>2, IdleRun DEF Holds
<1>5. /\ age' \in [Jobs -> 0..OldAge]
      /\ \A j \in Jobs : age[j] < Timeout => age'[j] = age[j] + 1
    BY LeaseAssumption DEF Tick, Least, OldAge, OutboxInvariant, Types
<1>6. Types'
    BY <1>1, <1>2, <1>3, <1>5 DEF OutboxInvariant, Types
<1>7. OneDispatcher'
    BY <1>4 DEF OutboxInvariant, OneDispatcher
<1>8. HeldIsProcessing'
    BY <1>1, <1>2, <1>4, <1>5 DEF OutboxInvariant, HeldIsProcessing
<1>9. MarkIsSent' /\ DeliveredWasSent'
    BY <1>1, <1>2 DEF OutboxInvariant, MarkIsSent, DeliveredWasSent
<1>10. SentNoMore'
    BY <1>1, <1>2, <1>4 DEF OutboxInvariant, SentNoMore, SentWithin
<1> QED
    BY <1>6, <1>7, <1>8, <1>9, <1>10 DEF OutboxInvariant

-----------------------------------------------------------------------------
LEMMA OutboxStep == OutboxInvariant /\ [Next]_vars => OutboxInvariant'
<1> SUFFICES ASSUME OutboxInvariant, [Next]_vars PROVE OutboxInvariant'
    OBVIOUS
<1>1. ASSUME NEW j \in Jobs, Insert(j) PROVE OutboxInvariant'
    BY <1>1, InsertPreserves
<1>2. ASSUME NEW d \in Dispatchers, Scan(d) PROVE OutboxInvariant'
    BY <1>2, ScanPreserves
<1>3. ASSUME NEW d \in Dispatchers, Claim(d) PROVE OutboxInvariant'
    BY <1>3, ClaimPreserves
<1>4. ASSUME NEW d \in Dispatchers, Send(d) PROVE OutboxInvariant'
    BY <1>4, SendPreserves
<1>5. ASSUME NEW d \in Dispatchers, MarkDelivered(d) PROVE OutboxInvariant'
    BY <1>5, MarkDeliveredPreserves
<1>6. ASSUME NEW d \in Dispatchers, MarkFailed(d) PROVE OutboxInvariant'
    BY <1>6, MarkFailedPreserves
<1>7. ASSUME NEW d \in Dispatchers, Crash(d) PROVE OutboxInvariant'
    BY <1>7, CrashPreserves
<1>8. ASSUME Tick PROVE OutboxInvariant'
    BY <1>8, TickPreserves
<1>9. CASE UNCHANGED vars
    BY <1>9 DEF vars, OutboxInvariant, Types, OneDispatcher, HeldIsProcessing, MarkIsSent,
        DeliveredWasSent, SentNoMore, SentWithin, Holds
<1> QED
    BY <1>1, <1>2, <1>3, <1>4, <1>5, <1>6, <1>7, <1>8, <1>9 DEF Next, Step

LEMMA OutboxAlways == Spec => []OutboxInvariant
BY OutboxInit, OutboxStep, PTL DEF Spec

(* Whatever invocations overlap, crash or fail: between its claim and its  *)
(* mark a row is in the hands of one of them, although neither mark checks *)
(* the claim.  It takes Timeout <= Lease and nothing else.                 *)
THEOREM RowHasOneDispatcher == Spec => []OneDispatcher
<1>1. OutboxInvariant => OneDispatcher
    BY DEF OutboxInvariant
<1> QED
    BY OutboxAlways, <1>1, PTL

(* What a live invocation holds, the table says is claimed, since the      *)
(* invocation's own "now"; the exception is an error of its own mark.      *)
THEOREM ClaimsAreInTheTable == Spec => []HeldIsProcessing
<1>1. OutboxInvariant => HeldIsProcessing
    BY DEF OutboxInvariant
<1> QED
    BY OutboxAlways, <1>1, PTL

(* The queue holds one message for a row, and at most one more for every   *)
(* crash or error there was: overlapping invocations add none.             *)
THEOREM OneMessageAndTheFaults == Spec => []DuplicatesNeedFaults
<1>1. OutboxInvariant => DuplicatesNeedFaults
    BY DEF OutboxInvariant, Types, SentNoMore, SentWithin, DuplicatesNeedFaults
<1> QED
    BY OutboxAlways, <1>1, PTL

(* A row is marked as delivered only when the queue has its message.       *)
THEOREM NothingIsMarkedUnsent == Spec => []DeliveredWasSent
<1>1. OutboxInvariant => DeliveredWasSent
    BY DEF OutboxInvariant
<1> QED
    BY OutboxAlways, <1>1, PTL

-----------------------------------------------------------------------------
(* The rest of the types: a retry is due at a time that is a number, and   *)
(* the faults stay within their bound.                                     *)
LEMMA PowerType ==
    ASSUME NEW n \in 0..9
    PROVE  2 ^ n \in Nat
<1>1. /\ 2 ^ 0 \in Nat /\ 2 ^ 1 \in Nat /\ 2 ^ 2 \in Nat /\ 2 ^ 3 \in Nat /\ 2 ^ 4 \in Nat
      /\ 2 ^ 5 \in Nat /\ 2 ^ 6 \in Nat /\ 2 ^ 7 \in Nat /\ 2 ^ 8 \in Nat /\ 2 ^ 9 \in Nat
    OBVIOUS
<1>2. n \in {0, 1, 2, 3, 4, 5, 6, 7, 8, 9}
    OBVIOUS
<1> QED
    BY <1>1, <1>2, Zenon

LEMMA BackoffType ==
    ASSUME NEW n \in Nat
    PROVE  backoff(n) \in Nat
<1>1. Least(n, 9) \in 0..9
    BY DEF Least
<1>2. PICK p \in Nat : p = 2 ^ Least(n, 9)
    BY <1>1, PowerType
<1>3. PICK s \in Nat : s = Least(900, p)
    BY DEF Least
<1>4. (s + TickSeconds - 1) \div TickSeconds \in Nat
    BY BoundAssumption
<1> QED
    BY <1>2, <1>3, <1>4 DEF backoff

WaitsAreTyped == wait \in [Jobs -> Nat] /\ faults \in 0..MaxFaults

LEMMA WaitStep ==
    ASSUME OutboxInvariant, WaitsAreTyped, [Next]_vars
    PROVE  WaitsAreTyped'
<1> USE DEF WaitsAreTyped, Fault, NoFault
<1>1. ASSUME NEW j \in Jobs, Insert(j) PROVE WaitsAreTyped'
    BY <1>1 DEF Insert
<1>2. ASSUME NEW d \in Dispatchers, Scan(d) \/ Claim(d) \/ Crash(d) PROVE WaitsAreTyped'
    <2>1. UNCHANGED wait /\ (NoFault \/ Fault)
        <3>1. CASE Scan(d)
            BY <3>1 DEF Scan
        <3>2. CASE Claim(d)
            BY <3>2 DEF Claim
        <3>3. CASE Crash(d)
            BY <3>3 DEF Crash
        <3> QED
            BY <1>2, <3>1, <3>2, <3>3
    <2> QED
        BY <2>1, BoundAssumption
<1>3. ASSUME NEW d \in Dispatchers, Send(d) \/ MarkDelivered(d) PROVE WaitsAreTyped'
    BY <1>3, BoundAssumption DEF Send, MarkDelivered
<1>4. ASSUME NEW d \in Dispatchers, MarkFailed(d) PROVE WaitsAreTyped'
    <2>1. Tried(d) \in Nat
        BY RunShape, BoundAssumption DEF OutboxInvariant, Types, Tried, Least
    <2>2. backoff(Tried(d)) \in Nat
        BY <2>1, BackoffType
    <2> QED
        BY <1>4, <2>2, BoundAssumption DEF MarkFailed
<1>5. CASE Tick
    <2>1. \A n \in Nat : (IF n > 0 THEN n - 1 ELSE 0) \in Nat
        OBVIOUS
    <2> QED
        BY <1>5, <2>1 DEF Tick
<1>6. CASE UNCHANGED vars
    BY <1>6 DEF vars
<1> QED
    BY <1>1, <1>2, <1>3, <1>4, <1>5, <1>6 DEF Next, Step

(* Every column keeps its domain: the delays of backoff are numbers of     *)
(* ticks, and an invocation is always in a state the dispatcher has.       *)
THEOREM TypeCorrect == Spec => []TypeOK
<1>1. Init => WaitsAreTyped
    BY BoundAssumption DEF Init, WaitsAreTyped
<1>2. OutboxInvariant /\ WaitsAreTyped /\ [Next]_vars => WaitsAreTyped'
    BY WaitStep
<1>3. OutboxInvariant /\ WaitsAreTyped => TypeOK
    BY DEF OutboxInvariant, WaitsAreTyped, Types, TypeOK
<1> QED
    BY <1>1, <1>2, <1>3, OutboxAlways, PTL DEF Spec
=============================================================================
