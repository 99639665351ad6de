------------------------ MODULE UsageReportingProofs ------------------------
(***************************************************************************)
(* The reporting of usage is safe for every set of messages, aggregates    *)
(* and invocations, every number of faults, and every timeout and window   *)
(* that fit together as WindowAssumption says.                             *)
(***************************************************************************)
EXTENDS UsageReporting, TLAPS

\* An invocation that is on, and what its steps make of it.
LEMMA RunShape ==
    ASSUME NEW s \in Runs, s.pc # "idle"
    PROVE  /\ s # Idle
           /\ s \in [pc : Pcs, elapsed : Elapsed, todo : SUBSET Reports, seen : SUBSET Reports,
                     tries : 0..(InRun - 1), rep : Reports \cup {NoReport},
                     verdict : {"failed"} \cup Closed]
           /\ s.elapsed \in Elapsed /\ s.todo \subseteq Reports /\ s.seen \subseteq Reports
           /\ s.tries \in 0..(InRun - 1) /\ s.rep \in Reports \cup {NoReport}
           /\ s.verdict \in {"failed"} \cup Closed
BY DEF Runs, Idle

LEMMA RunChanges ==
    ASSUME NEW s \in Runs, s.pc # "idle"
    PROVE  /\ \A pc \in Pcs : [s EXCEPT !.pc = pc] \in Runs
           /\ \A pc \in Pcs, todo \in SUBSET Reports : [s EXCEPT !.pc = pc, !.todo = todo] \in Runs
           /\ \A pc \in Pcs, todo \in SUBSET Reports, seen \in SUBSET Reports :
                [s EXCEPT !.seen = seen, !.todo = todo, !.pc = pc] \in Runs
           /\ \A pc \in Pcs, todo \in SUBSET Reports :
                [s EXCEPT !.pc = pc, !.todo = todo, !.rep = NoReport] \in Runs
           /\ \A pc \in Pcs, seen \in SUBSET Reports, r \in Reports, v \in {"failed"} \cup Closed :
                [s EXCEPT !.pc = pc, !.seen = seen, !.rep = r, !.verdict = v] \in Runs
           /\ \A pc \in Pcs, seen \in SUBSET Reports, r \in Reports, n \in 0..(InRun - 1) :
                [s EXCEPT !.pc = pc, !.seen = seen, !.rep = r, !.tries = n] \in Runs
           /\ \A n \in 0..(InRun - 1) : [s EXCEPT !.tries = n] \in Runs
           /\ \A pc \in Pcs, v \in {"failed"} \cup Closed :
                [s EXCEPT !.pc = pc, !.verdict = v] \in Runs
           /\ \A e \in Elapsed : [s EXCEPT !.elapsed = e] \in Runs
BY RunShape DEF Runs

LEMMA BecomeType ==
    ASSUME run \in [Reporters -> Runs], NEW w, NEW s \in Runs, Become(w, s)
    PROVE  run' \in [Reporters -> Runs]
BY DEF Become

LEMMA ProceedType ==
    ASSUME run \in [Reporters -> Runs], NEW w \in Reporters, run[w].pc # "idle", Proceed(w)
    PROVE  run' \in [Reporters -> Runs]
<1> DEFINE rest == run[w].todo \ {run[w].rep}
           pc   == IF rest = {} THEN "select" ELSE "claim"
<1>1. rest \in SUBSET Reports /\ pc \in Pcs
    BY RunShape DEF Pcs
<1>2. [run[w] EXCEPT !.pc = pc, !.todo = rest, !.rep = NoReport] \in Runs
    <2> HIDE DEF rest, pc
    <2> QED
        BY <1>1, RunChanges
<1> QED
    BY <1>2, BecomeType DEF Proceed

LEMMA FaultType ==
    ASSUME faults \in 0..MaxFaults, Fault \/ NoFault
    PROVE  faults' \in 0..MaxFaults
BY BoundAssumption DEF Fault, NoFault

LEMMA ReceivedType ==
    ASSUME TypeOK, NEW r, StripeReceives(r)
    PROVE  counted' \in [Reports -> Nat] /\ seenAge' \in [Reports -> {Never} \cup 0..Memory]
BY WindowAssumption DEF TypeOK, StripeReceives, provider

LEMMA InitTypeOK == Init => TypeOK
BY WindowAssumption, BoundAssumption DEF Init, TypeOK, Statuses, Runs, Never

LEMMA StepTypeOK ==
    ASSUME TypeOK, NEW w \in Reporters, Step(w)
    PROVE  TypeOK'
<1> USE DEF jobs, report, provider
<1>0. run[w].pc # "idle" /\ run[w] \in Runs
    BY DEF Step, reclassifyLegacyJobs, recoverStaleReports, expireReports, settleExpired,
           assignUsageJobsToReports, SelectDue, ClaimReport, Call, finalizeReport, markReport,
           settleReportJobs, TypeOK
<1>1. ASSUME NEW pc \in Pcs, Goto(w, pc) PROVE run' \in [Reporters -> Runs]
    BY <1>0, <1>1, RunChanges, BecomeType DEF Goto, TypeOK
<1>2. CASE reclassifyLegacyJobs(w)
    BY <1>1, <1>2 DEF reclassifyLegacyJobs, TypeOK, Statuses, Closed, Pcs
<1>3. CASE recoverStaleReports(w)
    BY <1>1, <1>3 DEF recoverStaleReports, TypeOK, Statuses, Open, Pcs
<1>4. CASE expireReports(w)
    <2> DEFINE expired == {r \in Reports : GivenUp(r, run[w].elapsed)}
               pc == IF expired = {} THEN "assign" ELSE "settleExpired"
    <2>1. expired \in SUBSET Reports /\ pc \in Pcs
        BY DEF Pcs
    <2>2. [run[w] EXCEPT !.pc = pc, !.todo = expired] \in Runs
        <3> HIDE DEF expired, pc
        <3> QED
            BY <1>0, <2>1, RunChanges
    <2>3. run' \in [Reporters -> Runs]
        BY <1>4, <2>2, BecomeType DEF expireReports, TypeOK
    <2> QED
        BY <1>4, <2>3 DEF expireReports, TypeOK, Statuses, Closed
<1>5. CASE settleExpired(w)
    <2>1. PICK r \in run[w].todo :
            /\ Settled(r, "unknown")
            /\ LET rest == run[w].todo \ {r} IN
               Become(w, [run[w] EXCEPT !.todo = rest, !.pc = IF rest = {} THEN "assign" ELSE @])
        BY <1>5 DEF settleExpired
    <2> DEFINE rest == run[w].todo \ {r}
               pc   == IF rest = {} THEN "assign" ELSE run[w].pc
    <2>2. rest \in SUBSET Reports /\ pc \in Pcs
        BY <1>0, <1>5, RunShape DEF settleExpired, Pcs
    <2>3. [run[w] EXCEPT !.todo = rest, !.pc = pc] \in Runs
        <3>1. [run[w] EXCEPT !.pc = pc, !.todo = rest] \in Runs
            <4> HIDE DEF rest, pc
            <4> QED
                BY <1>0, <2>2, RunChanges
        <3>2. [run[w] EXCEPT !.pc = pc, !.todo = rest] = [run[w] EXCEPT !.todo = rest, !.pc = pc]
            BY <1>0, RunShape
        <3> QED
            BY <3>1, <3>2
    <2>4. run' \in [Reporters -> Runs]
        BY <2>1, <2>3, BecomeType DEF TypeOK
    <2> QED
        BY <1>5, <2>1, <2>4 DEF settleExpired, Settled, TypeOK, Statuses, Closed
<1>6. CASE assignUsageJobsToReports(w)
    <2> DEFINE open == {m \in Messages : Unassigned(m) /\ jobAge[m] - run[w].elapsed <= MeterAge}
               free == {r \in Reports : status[r] = "none"}
    <2>1. PICK taken \in SUBSET open : \E id \in [{Group[m] : m \in taken} -> free] :
            /\ reportOf' = [m \in Messages |-> IF m \in taken THEN id[Group[m]] ELSE reportOf[m]]
            /\ job' = [m \in Messages |-> IF m \in taken THEN "processing" ELSE job[m]]
            /\ status' = [r \in Reports |->
                             IF \E g \in {Group[m] : m \in taken} : id[g] = r THEN "pending" ELSE status[r]]
        BY <1>6 DEF assignUsageJobsToReports
    <2>2. PICK id \in [{Group[m] : m \in taken} -> free] :
            /\ reportOf' = [m \in Messages |-> IF m \in taken THEN id[Group[m]] ELSE reportOf[m]]
            /\ job' = [m \in Messages |-> IF m \in taken THEN "processing" ELSE job[m]]
            /\ status' = [r \in Reports |->
                             IF \E g \in {Group[m] : m \in taken} : id[g] = r THEN "pending" ELSE status[r]]
        BY <2>1
    <2>3. \A m \in taken : id[Group[m]] \in Reports
        BY <2>2
    <2>4. reportOf' \in [Messages -> Reports \cup {NoReport}]
        BY <2>2, <2>3 DEF TypeOK
    <2>5. job' \in [Messages -> Statuses] /\ status' \in [Reports -> Statuses]
        BY <2>2 DEF TypeOK, Statuses, Open
    <2> QED
        BY <1>1, <1>6, <2>4, <2>5 DEF assignUsageJobsToReports, TypeOK, Pcs
<1>7. CASE SelectDue(w)
    <2> DEFINE fresh == {r \in Reports : status[r] \in Open /\ wait[r] = 0} \ run[w].seen
    <2>1. fresh \in SUBSET Reports /\ "claim" \in Pcs
        BY DEF Pcs
    <2>2. Idle \in Runs /\ [run[w] EXCEPT !.pc = "claim", !.todo = fresh] \in Runs
        <3> HIDE DEF fresh
        <3> QED
            BY <1>0, <2>1, RunChanges DEF Runs
    <2>3. run' \in [Reporters -> Runs]
        BY <1>7, <2>2, BecomeType DEF SelectDue, TypeOK
    <2> QED
        BY <1>7, <2>3 DEF SelectDue, TypeOK
<1>8. CASE ClaimReport(w)
    <2>1. PICK r \in run[w].todo :
         LET seen == run[w].seen \cup {r}
             rest == run[w].todo \ {r}
         IN
         IF status[r] \notin Open
         THEN /\ Become(w, [run[w] EXCEPT !.seen = seen, !.todo = rest,
                                          !.pc = IF rest = {} THEN "select" ELSE @])
              /\ UNCHANGED <<status, claim, claimAge, firstAge>>
         ELSE IF EventAge(r) > MeterAge
         THEN /\ status' = [status EXCEPT ![r] = "unreportable"]
              /\ Become(w, [run[w] EXCEPT !.pc = "settle", !.seen = seen, !.rep = r,
                                          !.verdict = "unreportable"])
              /\ UNCHANGED <<claim, claimAge, firstAge>>
         ELSE /\ status'   = [status EXCEPT ![r] = "processing"]
              /\ claim'    = [claim EXCEPT ![r] = w]
              /\ claimAge' = [claimAge EXCEPT ![r] = 0]
              /\ firstAge' = [firstAge EXCEPT ![r] = IF @ = Never THEN 0 ELSE @]
              /\ Become(w, [run[w] EXCEPT !.pc = "call", !.seen = seen, !.rep = r,
                                          !.tries = 0])
        BY <1>8 DEF ClaimReport
    <2> DEFINE seen == run[w].seen \cup {r}
               rest == run[w].todo \ {r}
               pc   == IF rest = {} THEN "select" ELSE run[w].pc
    <2>2. /\ r \in Reports /\ seen \in SUBSET Reports /\ rest \in SUBSET Reports /\ pc \in Pcs
          /\ 0 \in 0..(InRun - 1)
        BY <1>0, <1>8, RunShape, BoundAssumption DEF ClaimReport, Pcs
    <2>3. /\ [run[w] EXCEPT !.seen = seen, !.todo = rest, !.pc = pc] \in Runs
          /\ [run[w] EXCEPT !.pc = "settle", !.seen = seen, !.rep = r,
                            !.verdict = "unreportable"] \in Runs
          /\ [run[w] EXCEPT !.pc = "call", !.seen = seen, !.rep = r, !.tries = 0] \in Runs
        <3> HIDE DEF seen, rest, pc
        <3>1. "settle" \in Pcs /\ "call" \in Pcs /\ "unreportable" \in {"failed"} \cup Closed
            BY DEF Pcs, Closed
        <3> QED
            BY <1>0, <2>2, <3>1, RunChanges
    <2>4. run' \in [Reporters -> Runs]
        BY <2>1, <2>3, BecomeType DEF TypeOK
    <2>5. /\ status' \in [Reports -> Statuses]
          /\ claim' \in [Reports -> Reporters \cup {Nobody, Dead}]
          /\ claimAge' \in [Reports -> 0..(StaleClaim + Timeout)]
          /\ firstAge' \in [Reports -> {Never} \cup 0..(SafeRetry + Timeout)]
        <3>1. /\ 0 \in 0..(StaleClaim + Timeout)
              /\ \A n \in {Never} \cup 0..(SafeRetry + Timeout) :
                   (IF n = Never THEN 0 ELSE n) \in {Never} \cup 0..(SafeRetry + Timeout)
            BY WindowAssumption
        <3>2. CASE status[r] \notin Open
            BY <2>1, <3>2 DEF TypeOK
        <3>3. CASE status[r] \in Open /\ EventAge(r) > MeterAge
            BY <2>1, <3>3 DEF TypeOK, Statuses, Closed
        <3>4. CASE status[r] \in Open /\ ~(EventAge(r) > MeterAge)
            BY <2>1, <3>1, <3>4 DEF TypeOK, Statuses
        <3> QED
            BY <3>2, <3>3, <3>4
    <2> QED
        BY <1>8, <2>4, <2>5 DEF ClaimReport, TypeOK
<1>9. CASE Call(w)
    <2>1. /\ "submitted" \in Pcs /\ "mark" \in Pcs
          /\ {"failed", "unknown", "unreportable"} \subseteq {"failed"} \cup Closed
        BY DEF Pcs, Closed
    <2>2. \A v \in {"failed", "unknown", "unreportable"} :
            [run[w] EXCEPT !.pc = "mark", !.verdict = v] \in Runs
        BY <1>0, <2>1, RunChanges
    <2>3. MoreTries(w) => [run[w] EXCEPT !.tries = @ + 1] \in Runs
        <3>1. MoreTries(w) => run[w].tries + 1 \in 0..(InRun - 1)
            BY <1>0, RunShape, BoundAssumption DEF MoreTries
        <3> QED
            BY <1>0, <3>1, RunChanges
    <2>4. run' \in [Reporters -> Runs]
        BY <1>1, <1>9, <2>1, <2>2, <2>3, BecomeType DEF Call, TypeOK
    <2>5. counted' \in [Reports -> Nat] /\ seenAge' \in [Reports -> {Never} \cup 0..Memory]
        BY <1>9, ReceivedType DEF Call, TypeOK
    <2>6. faults' = faults
        BY <1>9 DEF Call, NoFault
    <2> QED
        BY <1>9, <2>4, <2>5, <2>6 DEF Call, TypeOK
<1>10. CASE finalizeReport(w)
    <2>1. [run[w] EXCEPT !.pc = "mark", !.verdict = "unknown"] \in Runs
        BY <1>0, RunChanges DEF Pcs, Closed
    <2>2. run' \in [Reporters -> Runs]
        BY <1>0, <1>10, <2>1, BecomeType, ProceedType DEF finalizeReport, TypeOK
    <2>3. faults' \in 0..MaxFaults
        BY <1>10, FaultType DEF finalizeReport, TypeOK
    <2>4. /\ status' \in [Reports -> Statuses] /\ job' \in [Messages -> Statuses]
          /\ claim' \in [Reports -> Reporters \cup {Nobody, Dead}]
        BY <1>10 DEF finalizeReport, Settled, TypeOK, Statuses, Closed
    <2> QED
        BY <1>10, <2>2, <2>3, <2>4 DEF finalizeReport, TypeOK
<1>11. CASE markReport(w)
    <2>1. run' \in [Reporters -> Runs]
        BY <1>0, <1>1, <1>11, ProceedType DEF markReport, TypeOK, Pcs
    <2>2. run[w].verdict \in Statuses
        BY <1>0, RunShape DEF Statuses, Open
    <2> QED
        BY <1>11, <2>1, <2>2 DEF markReport, TypeOK
<1>12. CASE settleReportJobs(w)
    <2>1. run' \in [Reporters -> Runs]
        BY <1>0, <1>12, ProceedType DEF settleReportJobs, TypeOK
    <2>2. run[w].verdict \in Statuses
        BY <1>0, RunShape DEF Statuses, Open
    <2> QED
        BY <1>12, <2>1, <2>2 DEF settleReportJobs, Settled, TypeOK
<1> QED
    BY <1>2, <1>3, <1>4, <1>5, <1>6, <1>7, <1>8, <1>9, <1>10, <1>11, <1>12 DEF Step

LEMMA NextTypeOK == TypeOK /\ [Next]_vars => TypeOK'
<1> SUFFICES ASSUME TypeOK, [Next]_vars PROVE TypeOK'
    OBVIOUS
<1> USE DEF jobs, report, provider
<1>1. ASSUME NEW m \in Messages, Accepted(m) PROVE TypeOK'
    BY <1>1, WindowAssumption, BoundAssumption DEF Accepted, TypeOK, Statuses, Open
<1>2. ASSUME NEW w \in Reporters, Start(w) PROVE TypeOK'
    <2>1. [pc |-> "reclassify", elapsed |-> 0, todo |-> {}, seen |-> {},
           tries |-> 0, rep |-> NoReport, verdict |-> "failed"] \in Runs
        BY WindowAssumption, BoundAssumption DEF Runs, Pcs, Elapsed
    <2>2. run' \in [Reporters -> Runs]
        BY <1>2, <2>1, BecomeType DEF Start, TypeOK
    <2> QED
        BY <1>2, <2>2 DEF Start, TypeOK
<1>3. Idle \in Runs
    BY DEF Runs
<1>4. ASSUME NEW w \in Reporters, OutOfTime(w) PROVE TypeOK'
    BY <1>3, <1>4, BecomeType DEF OutOfTime, TypeOK
<1>5. ASSUME NEW w \in Reporters, ConfigurationError(w) PROVE TypeOK'
    <2>1. run' \in [Reporters -> Runs] /\ faults' \in 0..MaxFaults
        BY <1>3, <1>5, BecomeType, FaultType DEF ConfigurationError, TypeOK
    <2> QED
        BY <1>5, <2>1 DEF ConfigurationError, TypeOK, Statuses, Open
<1>6. ASSUME NEW w \in Reporters, Crash(w) PROVE TypeOK'
    <2>1. run' \in [Reporters -> Runs] /\ faults' \in 0..MaxFaults
        BY <1>3, <1>6, BecomeType, FaultType DEF Crash, TypeOK
    <2> QED
        BY <1>6, <2>1 DEF Crash, TypeOK
<1>7. CASE Tick
    <2>1. \A w \in Reporters : run[w] # Idle =>
            [run[w] EXCEPT !.elapsed = @ + 1] \in Runs
        <3>1. SUFFICES ASSUME NEW w \in Reporters, run[w] # Idle
                       PROVE  [run[w] EXCEPT !.elapsed = @ + 1] \in Runs
            OBVIOUS
        <3>2. run[w] \in Runs /\ run[w].pc # "idle"
            BY <3>1 DEF TypeOK, Runs, Pcs
        <3>3. run[w].elapsed + 1 \in Elapsed
            BY <1>7, <3>1, <3>2, RunShape, WindowAssumption DEF Tick, Elapsed
        <3> QED
            BY <3>2, <3>3, RunChanges
    <2>2. run' \in [Reporters -> Runs]
        BY <1>3, <1>7, <2>1 DEF Tick
    <2>3. jobAge' \in [Messages -> 0..(MeterAge + Timeout)]
        BY <1>7, BoundAssumption, WindowAssumption DEF Tick, TypeOK, Older, Never
    <2>4. claimAge' \in [Reports -> 0..(StaleClaim + Timeout)]
        BY <1>7, WindowAssumption DEF Tick, TypeOK, Older, Never
    <2>5. firstAge' \in [Reports -> {Never} \cup 0..(SafeRetry + Timeout)]
        BY <1>7, WindowAssumption DEF Tick, TypeOK, Older, Never
    <2>6. seenAge' \in [Reports -> {Never} \cup 0..Memory] /\ wait' \in [Reports -> Nat]
        BY <1>7, WindowAssumption DEF Tick, TypeOK, Never
    <2> QED
        BY <1>7, <2>2, <2>3, <2>4, <2>5, <2>6 DEF Tick, TypeOK
<1>8. CASE UNCHANGED vars
    BY <1>8 DEF vars, TypeOK
<1> QED
    BY <1>1, <1>2, <1>4, <1>5, <1>6, <1>7, <1>8, StepTypeOK DEF Next

(* Every variable keeps its type.                                          *)
THEOREM TypeCorrect == Spec => []TypeOK
<1>1. TypeOK /\ [Next]_vars => TypeOK'
    BY NextTypeOK
<1> QED
    BY <1>1, InitTypeOK, PTL DEF Spec

-----------------------------------------------------------------------------
(* No aggregate is counted twice.  Stripe can only have forgotten an       *)
(* identifier long after the first attempt; what an earlier invocation     *)
(* attempted that long ago is given up before anything is submitted; and   *)
(* an invocation does not live long enough for the rest to grow that old.  *)
Busy(w) == run[w].pc \in {"call", "submitted", "mark"}
PastExpiry == Pcs \ {"reclassify", "recover", "expire"}
Oldest == SafeRetry + Timeout

AggregateHolds(r) ==
    /\ counted[r] \in {0, 1}
    /\ counted[r] = 0 => seenAge[r] = Never
    /\ seenAge[r] # Never => firstAge[r] # Never /\ (seenAge[r] <= firstAge[r] \/ firstAge[r] = Oldest)
    /\ counted[r] = 1 /\ seenAge[r] = Never => firstAge[r] = Oldest
    /\ status[r] \in {"none", "pending"} => firstAge[r] = Never
InWindow(w) ==
    run[w].pc \in PastExpiry =>
        \A r \in Reports : status[r] \in {"processing", "failed"} => InsideSafeWindow(r, run[w].elapsed)
AtWork(w) ==
    /\ Busy(w) => /\ run[w].rep \in Reports
                  /\ \/ status[run[w].rep] \in Closed
                     \/ StillMine(w, run[w].rep) /\ claimAge[run[w].rep] <= run[w].elapsed
    /\ run[w].pc = "call" =>
         firstAge[run[w].rep] # Never /\ InsideSafeWindow(run[w].rep, run[w].elapsed)
    /\ run[w].pc = "submitted" => counted[run[w].rep] = 1
    /\ run[w].pc \in {"mark", "settle"} => run[w].verdict # "reported"
OneEach == \A v, w \in Reporters : Busy(v) /\ Busy(w) /\ run[v].rep = run[w].rep => v = w
SubmissionInvariant ==
    /\ \A r \in Reports : AggregateHolds(r)
    /\ \A w \in Reporters : InWindow(w) /\ AtWork(w)
    /\ OneEach /\ ReportedWasCounted

\* How a step moves an aggregate; which ones invocation w may move.
RowGoes(r) ==
    \/ status'[r] = status[r] /\ firstAge'[r] = firstAge[r]
    \/ status[r] = "none" /\ status'[r] = "pending" /\ firstAge'[r] = firstAge[r]
    \/ /\ status[r] \in {"processing"} \cup Open /\ status'[r] \in Closed
       /\ firstAge'[r] = firstAge[r]
    \/ status[r] = "processing" /\ status'[r] = "failed" /\ firstAge'[r] = firstAge[r]
    \/ /\ status[r] \in Open /\ status'[r] = "processing"
       /\ firstAge'[r] = IF firstAge[r] = Never THEN 0 ELSE firstAge[r]
MayTouch(w, r) ==
    \/ status'[r] = status[r] /\ claim'[r] = claim[r] /\ claimAge'[r] = claimAge[r]
    \/ status[r] \in {"none"} \cup Open
    \/ status'[r] \in Closed
    \/ claim[r] = w
    \/ Stale(r, run[w].elapsed)
JobGoes(m) == job'[m] = "reported" => job[m] = "reported" /\ reportOf'[m] = reportOf[m]

LEMMA BecomeFacts ==
    ASSUME run \in [Reporters -> Runs], NEW w \in Reporters, NEW s, Become(w, s)
    PROVE  run'[w] = s /\ \A v \in Reporters \ {w} : run'[v] = run[v]
BY DEF Become

LEMMA RowsKept ==
    ASSUME TypeOK, NEW r \in Reports, AggregateHolds(r), RowGoes(r), UNCHANGED provider
    PROVE  AggregateHolds(r)'
BY WindowAssumption
   DEF AggregateHolds, RowGoes, provider, Oldest, Never, Open, Closed, TypeOK

LEMMA JobsKept ==
    ASSUME TypeOK, ReportedWasCounted,
           \A r \in Reports : RowGoes(r) /\ (counted[r] = 1 => counted'[r] = 1),
           \A m \in Messages : JobGoes(m)
    PROVE  ReportedWasCounted'
<1>1. SUFFICES ASSUME NEW m \in Messages, job'[m] = "reported"
               PROVE  reportOf'[m] # NoReport /\ counted'[reportOf'[m]] = 1
                      /\ status'[reportOf'[m]] = "reported"
    BY DEF ReportedWasCounted
<1>2. /\ reportOf'[m] = reportOf[m] /\ reportOf[m] # NoReport
      /\ counted[reportOf[m]] = 1 /\ status[reportOf[m]] = "reported"
    BY <1>1 DEF JobGoes, ReportedWasCounted
<1>3. reportOf[m] \in Reports
    BY <1>2 DEF TypeOK
<1> QED
    BY <1>2, <1>3 DEF RowGoes, Open

\* A step of invocation w: what it must leave of the work of the others.
LEMMA ActorStep ==
    ASSUME TypeOK, TypeOK', SubmissionInvariant, NEW w \in Reporters,
           \A r \in Reports : /\ RowGoes(r) /\ MayTouch(w, r) /\ AggregateHolds(r)'
                              /\ counted[r] = 1 => counted'[r] = 1,
           run[w].pc # "idle" \/ UNCHANGED <<status, claim, claimAge>>,
           \A v \in Reporters \ {w} : run'[v] = run[v],
           AtWork(w)', InWindow(w)', ReportedWasCounted',
           Busy(w)' => \/ Busy(w) /\ run'[w].rep = run[w].rep
                       \/ status[run'[w].rep] \in Open
    PROVE  SubmissionInvariant'
<1>1. ASSUME NEW v \in Reporters \ {w}, run[v].pc # "idle"
      PROVE  run[v].elapsed \in Elapsed
    BY <1>1, RunShape DEF TypeOK
<1>2. run[w].pc # "idle" => run[w].elapsed \in Elapsed
    BY RunShape DEF TypeOK
<1>3. ASSUME NEW v \in Reporters \ {w} PROVE InWindow(v)'
    <2>1. SUFFICES ASSUME run[v].pc \in PastExpiry, NEW r \in Reports,
                          status'[r] \in {"processing", "failed"}
                   PROVE  InsideSafeWindow(r, run[v].elapsed)'
        BY DEF InWindow
    <2>2. run[v].elapsed \in Elapsed /\ run'[v] = run[v] /\ InWindow(v)
        BY <1>1, <2>1 DEF PastExpiry, Pcs, SubmissionInvariant
    <2>3. firstAge'[r] - run[v].elapsed <= SafeRetry
        <3>1. CASE status[r] \in {"processing", "failed"} /\ firstAge'[r] = firstAge[r]
            BY <2>1, <2>2, <3>1 DEF InWindow, InsideSafeWindow
        <3>2. CASE /\ status[r] \in Open
                   /\ firstAge'[r] = IF firstAge[r] = Never THEN 0 ELSE firstAge[r]
            <4>1. CASE status[r] = "pending"
                <5>1. firstAge'[r] = 0
                    BY <3>2, <4>1 DEF SubmissionInvariant, AggregateHolds
                <5> QED
                    BY <2>2, <5>1, WindowAssumption DEF Elapsed
            <4>2. CASE status[r] = "failed"
                <5>1. firstAge[r] - run[v].elapsed <= SafeRetry
                    BY <2>1, <2>2, <4>2 DEF InWindow, InsideSafeWindow
                <5>2. firstAge'[r] = 0 \/ firstAge'[r] = firstAge[r]
                    BY <3>2
                <5> QED
                    BY <2>2, <5>1, <5>2, WindowAssumption DEF Elapsed
            <4> QED
                BY <3>2, <4>1, <4>2 DEF Open
        <3> QED
            BY <2>1, <3>1, <3>2 DEF RowGoes, Closed
    <2> QED
        BY <2>2, <2>3 DEF InsideSafeWindow
<1>4. ASSUME NEW v \in Reporters \ {w}, Busy(v)
      PROVE  /\ run[v].rep \in Reports
             /\ status[run[v].rep] \notin Open
             /\ \/ status'[run[v].rep] \in Closed
                \/ StillMine(v, run[v].rep)' /\ claimAge'[run[v].rep] <= run[v].elapsed
    <2>1. PICK r \in Reports : r = run[v].rep
        BY <1>4 DEF SubmissionInvariant, AtWork
    <2>2. CASE status[r] \in Closed
        BY <2>1, <2>2 DEF RowGoes, Open, Closed
    <2>3. CASE StillMine(v, r) /\ claimAge[r] <= run[v].elapsed
        <3>1. claim[r] # w /\ status[r] = "processing"
            BY <2>3 DEF StillMine
        <3>2. run[w].pc # "idle" => ~Stale(r, run[w].elapsed)
            <4>1. run[v].elapsed \in Elapsed /\ claimAge[r] \in Nat
                BY <1>1, <1>4, WindowAssumption DEF Busy, TypeOK
            <4> QED
                BY <1>2, <2>3, <4>1, WindowAssumption DEF Stale, Elapsed
        <3> QED
            BY <2>1, <2>3, <3>1, <3>2 DEF MayTouch, StillMine, Open
    <2> QED
        BY <1>4, <2>1, <2>2, <2>3 DEF SubmissionInvariant, AtWork
<1>5. ASSUME NEW v \in Reporters \ {w} PROVE AtWork(v)'
    <2>1. run'[v] = run[v] /\ AtWork(v)
        BY DEF SubmissionInvariant
    <2>2. Busy(v) => /\ run[v].rep \in Reports
                     /\ \/ status'[run[v].rep] \in Closed
                        \/ StillMine(v, run[v].rep)' /\ claimAge'[run[v].rep] <= run[v].elapsed
        BY <1>4
    <2>3. run[v].pc = "call" =>
            firstAge'[run[v].rep] # Never /\ InsideSafeWindow(run[v].rep, run[v].elapsed)'
        <3>1. SUFFICES ASSUME run[v].pc = "call"
                       PROVE  firstAge'[run[v].rep] = firstAge[run[v].rep]
            BY <2>1 DEF AtWork, InsideSafeWindow
        <3>2. run[v].rep \in Reports /\ firstAge[run[v].rep] # Never
            BY <2>1, <2>2, <3>1 DEF AtWork, Busy
        <3> QED
            BY <3>2 DEF RowGoes
    <2>4. run[v].pc = "submitted" => counted'[run[v].rep] = 1
        BY <2>1, <2>2 DEF AtWork, Busy
    <2> QED
        BY <2>1, <2>2, <2>3, <2>4 DEF AtWork, Busy, StillMine, InsideSafeWindow
<1>6. OneEach'
    <2>1. \A v \in Reporters \ {w} : Busy(v)' /\ Busy(w)' => run'[v].rep # run'[w].rep
        BY <1>4 DEF SubmissionInvariant, OneEach, Busy
    <2> QED
        BY <2>1 DEF SubmissionInvariant, OneEach, Busy
<1> QED
    BY <1>3, <1>5, <1>6 DEF SubmissionInvariant

-----------------------------------------------------------------------------
(* The invariant holds at first, and every step keeps it.                  *)
LEMMA GotoFacts ==
    ASSUME TypeOK, NEW w \in Reporters, run[w].pc # "idle", NEW pc, Goto(w, pc)
    PROVE  /\ run'[w].pc = pc /\ run'[w].elapsed = run[w].elapsed
           /\ run'[w].rep = run[w].rep /\ run'[w].verdict = run[w].verdict
           /\ \A v \in Reporters \ {w} : run'[v] = run[v]
BY BecomeFacts, RunShape DEF Goto, TypeOK

LEMMA ProceedFacts ==
    ASSUME TypeOK, NEW w \in Reporters, run[w].pc # "idle", Proceed(w)
    PROVE  /\ run'[w].pc \in {"select", "claim"} /\ run'[w].elapsed = run[w].elapsed
           /\ \A v \in Reporters \ {w} : run'[v] = run[v]
<1>1. run[w] \in [pc : Pcs, elapsed : Elapsed, todo : SUBSET Reports, seen : SUBSET Reports,
                  tries : 0..(InRun - 1), rep : Reports \cup {NoReport},
                  verdict : {"failed"} \cup Closed]
    BY RunShape DEF TypeOK
<1>2. PICK pc \in {"select", "claim"}, rest \in SUBSET Reports :
        Become(w, [run[w] EXCEPT !.pc = pc, !.todo = rest, !.rep = NoReport])
    BY <1>1 DEF Proceed
<1>3. run'[w] = [run[w] EXCEPT !.pc = pc, !.todo = rest, !.rep = NoReport]
      /\ \A v \in Reporters \ {w} : run'[v] = run[v]
    BY <1>2, BecomeFacts DEF TypeOK
<1> QED
    BY <1>1, <1>3

\* An invocation that is not at work, or is done, holds nothing.
LEMMA RestingStep ==
    ASSUME TypeOK, TypeOK', SubmissionInvariant, NEW w \in Reporters, UNCHANGED provider,
           \A r \in Reports : RowGoes(r) /\ MayTouch(w, r),
           \A m \in Messages : JobGoes(m),
           run[w].pc # "idle" \/ UNCHANGED <<status, claim, claimAge>>,
           \A v \in Reporters \ {w} : run'[v] = run[v],
           ~Busy(w)', run'[w].pc = "settle" => run'[w].verdict # "reported",
           InWindow(w)'
    PROVE  SubmissionInvariant'
<1>1. \A r \in Reports : AggregateHolds(r)' /\ (counted[r] = 1 => counted'[r] = 1)
    BY RowsKept DEF SubmissionInvariant, provider
<1>2. ReportedWasCounted'
    BY <1>1, JobsKept DEF SubmissionInvariant
<1>3. AtWork(w)'
    BY DEF AtWork, Busy
<1> QED
    BY <1>1, <1>2, <1>3, ActorStep

\* The window holds of what was in it, if the clock of w stands still.
LEMMA SameWindow ==
    ASSUME TypeOK, NEW w \in Reporters, InWindow(w), run[w].pc \in PastExpiry,
           run'[w].elapsed = run[w].elapsed,
           \A r \in Reports : status'[r] \in {"processing", "failed"} =>
                status[r] \in {"processing", "failed"} /\ firstAge'[r] = firstAge[r]
    PROVE  InWindow(w)'
BY DEF InWindow, InsideSafeWindow

LEMMA SubmissionInit == Init => SubmissionInvariant
<1> SUFFICES ASSUME Init PROVE SubmissionInvariant
    OBVIOUS
<1>1. \A r \in Reports : AggregateHolds(r)
    BY DEF Init, AggregateHolds
<1>2. \A w \in Reporters : InWindow(w) /\ AtWork(w)
    BY DEF Init, Idle, InWindow, AtWork, Busy, PastExpiry, Pcs
<1>3. OneEach
    BY DEF Init, Idle, OneEach, Busy
<1>4. ReportedWasCounted
    BY DEF Init, ReportedWasCounted
<1> QED
    BY <1>1, <1>2, <1>3, <1>4 DEF SubmissionInvariant

LEMMA PreparationSteps ==
    ASSUME TypeOK, TypeOK', SubmissionInvariant, NEW w \in Reporters,
           \/ reclassifyLegacyJobs(w) \/ recoverStaleReports(w) \/ expireReports(w)
           \/ settleExpired(w) \/ assignUsageJobsToReports(w) \/ SelectDue(w)
    PROVE  SubmissionInvariant'
<1> USE DEF jobs, report
<1>0. /\ run[w].pc # "idle" /\ run[w].pc \in Pcs /\ InWindow(w)
      /\ run[w] \in [pc : Pcs, elapsed : Elapsed, todo : SUBSET Reports, seen : SUBSET Reports,
                     tries : 0..(InRun - 1), rep : Reports \cup {NoReport},
                     verdict : {"failed"} \cup Closed]
    BY RunShape DEF reclassifyLegacyJobs, recoverStaleReports, expireReports, settleExpired,
           assignUsageJobsToReports, SelectDue, TypeOK, Pcs, SubmissionInvariant
<1>1. UNCHANGED provider
    BY DEF reclassifyLegacyJobs, recoverStaleReports, expireReports, settleExpired,
           assignUsageJobsToReports, SelectDue
<1>2. CASE reclassifyLegacyJobs(w)
    <2>1. \A r \in Reports : RowGoes(r) /\ MayTouch(w, r)
        BY <1>2 DEF reclassifyLegacyJobs, RowGoes, MayTouch
    <2>2. \A m \in Messages : JobGoes(m)
        BY <1>2 DEF reclassifyLegacyJobs, JobGoes
    <2>3. run'[w].pc = "recover" /\ \A v \in Reporters \ {w} : run'[v] = run[v]
        BY <1>0, <1>2, GotoFacts DEF reclassifyLegacyJobs
    <2> QED
        BY <1>0, <1>1, <2>1, <2>2, <2>3, RestingStep DEF Busy, InWindow, PastExpiry
<1>3. CASE recoverStaleReports(w)
    <2>1. \A r \in Reports : RowGoes(r) /\ MayTouch(w, r)
        BY <1>3 DEF recoverStaleReports, RowGoes, MayTouch
    <2>2. \A m \in Messages : JobGoes(m)
        BY <1>3 DEF recoverStaleReports, JobGoes
    <2>3. run'[w].pc = "expire" /\ \A v \in Reporters \ {w} : run'[v] = run[v]
        BY <1>0, <1>3, GotoFacts DEF recoverStaleReports
    <2> QED
        BY <1>0, <1>1, <2>1, <2>2, <2>3, RestingStep DEF Busy, InWindow, PastExpiry
<1>4. CASE expireReports(w)
    <2>1. \A r \in Reports : RowGoes(r) /\ MayTouch(w, r)
        BY <1>4 DEF expireReports, GivenUp, RowGoes, MayTouch, Open, Closed
    <2>2. \A m \in Messages : JobGoes(m)
        BY <1>4 DEF expireReports, JobGoes
    <2>3. PICK pc \in {"assign", "settleExpired"}, todo \in SUBSET Reports :
            Become(w, [run[w] EXCEPT !.pc = pc, !.todo = todo])
        BY <1>4 DEF expireReports
    <2>4. run'[w].pc = pc /\ run'[w].elapsed = run[w].elapsed
          /\ \A v \in Reporters \ {w} : run'[v] = run[v]
        <3>1. /\ run'[w] = [run[w] EXCEPT !.pc = pc, !.todo = todo]
              /\ \A v \in Reporters \ {w} : run'[v] = run[v]
            BY <2>3, BecomeFacts DEF TypeOK
        <3> QED
            BY <1>0, <3>1
    <2>5. \A r \in Reports : status'[r] \in {"processing", "failed"} =>
                firstAge'[r] - run[w].elapsed <= SafeRetry
        BY <1>4 DEF expireReports, GivenUp, InsideSafeWindow
    <2>6. InWindow(w)'
        BY <2>4, <2>5 DEF InWindow, InsideSafeWindow
    <2> QED
        BY <1>0, <1>1, <2>1, <2>2, <2>4, <2>6, RestingStep DEF Busy
<1>5. CASE settleExpired(w)
    <2>1. \A r \in Reports : RowGoes(r) /\ MayTouch(w, r)
        BY <1>5 DEF settleExpired, RowGoes, MayTouch
    <2>2. \A m \in Messages : JobGoes(m)
        BY <1>5 DEF settleExpired, Settled, JobGoes
    <2>3. PICK pc \in {"assign", "settleExpired"}, todo \in SUBSET Reports :
            Become(w, [run[w] EXCEPT !.pc = pc, !.todo = todo])
        <3>1. PICK r \in run[w].todo :
                LET rest == run[w].todo \ {r} IN
                Become(w, [run[w] EXCEPT !.todo = rest, !.pc = IF rest = {} THEN "assign" ELSE @])
            BY <1>5 DEF settleExpired
        <3> DEFINE rest == run[w].todo \ {r}
                   pc   == IF rest = {} THEN "assign" ELSE "settleExpired"
        <3>2. [run[w] EXCEPT !.todo = rest, !.pc = IF rest = {} THEN "assign" ELSE @]
                = [run[w] EXCEPT !.pc = pc, !.todo = rest]
            BY <1>0, <1>5 DEF settleExpired
        <3> QED
            BY <1>0, <3>1, <3>2
    <2>4. run'[w].pc = pc /\ run'[w].elapsed = run[w].elapsed
          /\ \A v \in Reporters \ {w} : run'[v] = run[v]
        <3>1. /\ run'[w] = [run[w] EXCEPT !.pc = pc, !.todo = todo]
              /\ \A v \in Reporters \ {w} : run'[v] = run[v]
            BY <2>3, BecomeFacts DEF TypeOK
        <3> QED
            BY <1>0, <3>1
    <2>5. InWindow(w)'
        BY <1>0, <1>5, <2>4, SameWindow DEF settleExpired, PastExpiry
    <2> QED
        BY <1>0, <1>1, <2>1, <2>2, <2>4, <2>5, RestingStep DEF Busy
<1>6. CASE assignUsageJobsToReports(w)
    <2> DEFINE open == {m \in Messages : Unassigned(m) /\ jobAge[m] - run[w].elapsed <= MeterAge}
               free == {r \in Reports : status[r] = "none"}
    <2>1. PICK taken \in SUBSET open : \E id \in [{Group[m] : m \in taken} -> free] :
            /\ reportOf' = [m \in Messages |-> IF m \in taken THEN id[Group[m]] ELSE reportOf[m]]
            /\ job' = [m \in Messages |-> IF m \in taken THEN "processing" ELSE job[m]]
            /\ status' = [r \in Reports |->
                             IF \E g \in {Group[m] : m \in taken} : id[g] = r THEN "pending" ELSE status[r]]
        BY <1>6 DEF assignUsageJobsToReports
    <2>2. \A m \in Messages : JobGoes(m)
        BY <2>1 DEF JobGoes
    <2>3. \A r \in Reports : status'[r] = status[r] \/ (status[r] = "none" /\ status'[r] = "pending")
        <3>1. PICK id \in [{Group[m] : m \in taken} -> free] :
                status' = [r \in Reports |->
                    IF \E g \in {Group[m] : m \in taken} : id[g] = r THEN "pending" ELSE status[r]]
            BY <2>1
        <3>2. \A g \in {Group[m] : m \in taken} : status[id[g]] = "none"
            OBVIOUS
        <3> QED
            BY <3>1, <3>2
    <2>4. \A r \in Reports : RowGoes(r) /\ MayTouch(w, r)
        BY <1>6, <2>3 DEF assignUsageJobsToReports, RowGoes, MayTouch
    <2>5. run'[w].pc = "select" /\ run'[w].elapsed = run[w].elapsed
          /\ \A v \in Reporters \ {w} : run'[v] = run[v]
        BY <1>0, <1>6, GotoFacts DEF assignUsageJobsToReports
    <2>6. InWindow(w)'
        BY <1>0, <1>6, <2>3, <2>5, SameWindow DEF assignUsageJobsToReports, PastExpiry
    <2> QED
        BY <1>0, <1>1, <2>2, <2>4, <2>5, <2>6, RestingStep DEF Busy
<1>7. CASE SelectDue(w)
    <2>1. \A r \in Reports : RowGoes(r) /\ MayTouch(w, r)
        BY <1>7 DEF SelectDue, RowGoes, MayTouch
    <2>2. \A m \in Messages : JobGoes(m)
        BY <1>7 DEF SelectDue, JobGoes
    <2>3. \/ Become(w, Idle)
          \/ \E todo \in SUBSET Reports : Become(w, [run[w] EXCEPT !.pc = "claim", !.todo = todo])
        BY <1>7 DEF SelectDue
    <2>4. /\ \/ run'[w].pc = "idle"
             \/ run'[w].pc = "claim" /\ run'[w].elapsed = run[w].elapsed
          /\ \A v \in Reporters \ {w} : run'[v] = run[v]
        <3>1. CASE Become(w, Idle)
            BY <3>1, BecomeFacts DEF TypeOK, Idle
        <3>2. ASSUME NEW todo \in SUBSET Reports,
                     Become(w, [run[w] EXCEPT !.pc = "claim", !.todo = todo])
              PROVE  /\ run'[w].pc = "claim" /\ run'[w].elapsed = run[w].elapsed
                     /\ \A v \in Reporters \ {w} : run'[v] = run[v]
            <4>1. /\ run'[w] = [run[w] EXCEPT !.pc = "claim", !.todo = todo]
                  /\ \A v \in Reporters \ {w} : run'[v] = run[v]
                BY <3>2, BecomeFacts DEF TypeOK
            <4> QED
                BY <1>0, <4>1
        <3> QED
            BY <2>3, <3>1, <3>2
    <2>5. InWindow(w)'
        <3>1. CASE run'[w].pc = "idle"
            BY <3>1 DEF InWindow, PastExpiry, Pcs
        <3>2. CASE run'[w].pc = "claim" /\ run'[w].elapsed = run[w].elapsed
            BY <1>0, <1>7, <3>2, SameWindow DEF SelectDue, PastExpiry
        <3> QED
            BY <2>4, <3>1, <3>2
    <2> QED
        BY <1>0, <1>1, <2>1, <2>2, <2>4, <2>5, RestingStep DEF Busy
<1> QED
    BY <1>2, <1>3, <1>4, <1>5, <1>6, <1>7

\* An aggregate is taken, passed over, or found too old.
LEMMA ClaimStep ==
    ASSUME TypeOK, TypeOK', SubmissionInvariant, NEW w \in Reporters, ClaimReport(w)
    PROVE  SubmissionInvariant'
<1> USE DEF jobs
<1>0. /\ run[w].pc = "claim" /\ run[w].pc # "idle" /\ InWindow(w)
      /\ run[w] \in [pc : Pcs, elapsed : Elapsed, todo : SUBSET Reports, seen : SUBSET Reports,
                     tries : 0..(InRun - 1), rep : Reports \cup {NoReport},
                     verdict : {"failed"} \cup Closed]
    BY RunShape DEF ClaimReport, TypeOK, SubmissionInvariant
<1>1. UNCHANGED provider /\ \A m \in Messages : JobGoes(m)
    BY DEF ClaimReport, JobGoes
<1>2. PICK r \in run[w].todo :
         LET seen == run[w].seen \cup {r}
             rest == run[w].todo \ {r}
         IN
         IF status[r] \notin Open
         THEN /\ Become(w, [run[w] EXCEPT !.seen = seen, !.todo = rest,
                                          !.pc = IF rest = {} THEN "select" ELSE @])
              /\ UNCHANGED <<status, claim, claimAge, firstAge>>
         ELSE IF EventAge(r) > MeterAge
         THEN /\ status' = [status EXCEPT ![r] = "unreportable"]
              /\ Become(w, [run[w] EXCEPT !.pc = "settle", !.seen = seen, !.rep = r,
                                          !.verdict = "unreportable"])
              /\ UNCHANGED <<claim, claimAge, firstAge>>
         ELSE /\ status'   = [status EXCEPT ![r] = "processing"]
              /\ claim'    = [claim EXCEPT ![r] = w]
              /\ claimAge' = [claimAge EXCEPT ![r] = 0]
              /\ firstAge' = [firstAge EXCEPT ![r] = IF @ = Never THEN 0 ELSE @]
              /\ Become(w, [run[w] EXCEPT !.pc = "call", !.seen = seen, !.rep = r,
                                          !.tries = 0])
    BY DEF ClaimReport
<1>3. r \in Reports
    BY <1>0
<1>4. CASE status[r] \notin Open
    <2>1. PICK pc \in {"select", "claim"}, seen \in SUBSET Reports, rest \in SUBSET Reports :
            Become(w, [run[w] EXCEPT !.seen = seen, !.todo = rest, !.pc = pc])
        <3>1. [run[w] EXCEPT !.seen = @ \cup {r}, !.todo = @ \ {r},
                             !.pc = IF run[w].todo \ {r} = {} THEN "select" ELSE @]
              = [run[w] EXCEPT !.seen = @ \cup {r}, !.todo = @ \ {r},
                               !.pc = IF run[w].todo \ {r} = {} THEN "select" ELSE "claim"]
            BY <1>0
        <3> QED
            BY <1>0, <1>2, <1>4
    <2>2. /\ run'[w].pc = pc /\ run'[w].elapsed = run[w].elapsed
          /\ \A v \in Reporters \ {w} : run'[v] = run[v]
        <3>1. /\ run'[w] = [run[w] EXCEPT !.seen = seen, !.todo = rest, !.pc = pc]
              /\ \A v \in Reporters \ {w} : run'[v] = run[v]
            BY <2>1, BecomeFacts DEF TypeOK
        <3> QED
            BY <1>0, <3>1
    <2>3. UNCHANGED <<status, claim, claimAge, firstAge>>
        BY <1>2, <1>4
    <2>4. InWindow(w)'
        BY <1>0, <2>2, <2>3, SameWindow DEF PastExpiry, Pcs
    <2> QED
        BY <1>0, <1>1, <2>2, <2>3, <2>4, RestingStep DEF Busy, RowGoes, MayTouch
<1>5. CASE status[r] \in Open /\ EventAge(r) > MeterAge
    <2>1. /\ status' = [status EXCEPT ![r] = "unreportable"]
          /\ Become(w, [run[w] EXCEPT !.pc = "settle", !.seen = run[w].seen \cup {r}, !.rep = r,
                                      !.verdict = "unreportable"])
          /\ UNCHANGED <<claim, claimAge, firstAge>>
        BY <1>2, <1>5
    <2>2. /\ run'[w].pc = "settle" /\ run'[w].elapsed = run[w].elapsed
          /\ run'[w].verdict = "unreportable"
          /\ \A v \in Reporters \ {w} : run'[v] = run[v]
        <3>1. /\ run'[w] = [run[w] EXCEPT !.pc = "settle", !.seen = run[w].seen \cup {r}, !.rep = r,
                                 !.verdict = "unreportable"]
              /\ \A v \in Reporters \ {w} : run'[v] = run[v]
            BY <2>1, BecomeFacts DEF TypeOK
        <3> QED
            BY <1>0, <3>1
    <2>3. \A q \in Reports : RowGoes(q) /\ MayTouch(w, q)
        BY <1>3, <1>5, <2>1 DEF RowGoes, MayTouch, Closed, TypeOK
    <2>4. InWindow(w)'
        BY <1>0, <1>3, <2>1, <2>2, SameWindow DEF PastExpiry, Pcs, TypeOK
    <2>5. AtWork(w)'
        BY <2>2 DEF AtWork, Busy
    <2>6. \A q \in Reports : AggregateHolds(q)' /\ (counted[q] = 1 => counted'[q] = 1)
        BY <1>1, <2>3, RowsKept DEF SubmissionInvariant, provider
    <2>7. ReportedWasCounted'
        BY <1>1, <2>3, <2>6, JobsKept DEF SubmissionInvariant
    <2> QED
        BY <1>0, <2>2, <2>3, <2>4, <2>5, <2>6, <2>7, ActorStep DEF Busy
<1>6. CASE status[r] \in Open /\ ~(EventAge(r) > MeterAge)
    <2>1. /\ status'   = [status EXCEPT ![r] = "processing"]
          /\ claim'    = [claim EXCEPT ![r] = w]
          /\ claimAge' = [claimAge EXCEPT ![r] = 0]
          /\ firstAge' = [firstAge EXCEPT ![r] = IF @ = Never THEN 0 ELSE @]
          /\ Become(w, [run[w] EXCEPT !.pc = "call", !.seen = run[w].seen \cup {r}, !.rep = r,
                                      !.tries = 0])
        BY <1>2, <1>6
    <2>2. /\ run'[w].pc = "call" /\ run'[w].elapsed = run[w].elapsed /\ run'[w].rep = r
          /\ \A v \in Reporters \ {w} : run'[v] = run[v]
        <3>1. /\ run'[w] = [run[w] EXCEPT !.pc = "call", !.seen = run[w].seen \cup {r}, !.rep = r, !.tries = 0]
              /\ \A v \in Reporters \ {w} : run'[v] = run[v]
            BY <2>1, BecomeFacts DEF TypeOK
        <3> QED
            BY <1>0, <3>1
    <2>3. /\ status'[r] = "processing" /\ claim'[r] = w /\ claimAge'[r] = 0
          /\ firstAge'[r] = IF firstAge[r] = Never THEN 0 ELSE firstAge[r]
          /\ \A q \in Reports \ {r} : /\ status'[q] = status[q] /\ claim'[q] = claim[q]
                                      /\ claimAge'[q] = claimAge[q] /\ firstAge'[q] = firstAge[q]
        BY <1>3, <2>1 DEF TypeOK
    <2>4. \A q \in Reports : RowGoes(q) /\ MayTouch(w, q)
        BY <1>6, <2>3 DEF RowGoes, MayTouch
    <2>5. /\ firstAge'[r] # Never /\ firstAge'[r] - run[w].elapsed <= SafeRetry
        <3>1. status[r] = "pending" => firstAge[r] = Never
            BY <1>3 DEF SubmissionInvariant, AggregateHolds
        <3>2. status[r] = "failed" => firstAge[r] - run[w].elapsed <= SafeRetry
            BY <1>0, <1>3 DEF InWindow, InsideSafeWindow, PastExpiry, Pcs
        <3>3. run[w].elapsed \in Elapsed
            BY <1>0
        <3>4. firstAge'[r] = 0 \/ (firstAge[r] # Never /\ firstAge'[r] = firstAge[r])
            BY <2>3
        <3> QED
            BY <1>6, <3>1, <3>2, <3>3, <3>4, WindowAssumption DEF Open, Elapsed, Never
    <2>6. InWindow(w)'
        BY <1>0, <2>2, <2>3, <2>5 DEF InWindow, InsideSafeWindow, PastExpiry, Pcs
    <2>7. AtWork(w)'
        BY <1>0, <1>3, <2>2, <2>3, <2>5 DEF AtWork, Busy, StillMine, InsideSafeWindow, Elapsed
    <2>8. \A q \in Reports : AggregateHolds(q)' /\ (counted[q] = 1 => counted'[q] = 1)
        BY <1>1, <2>4, RowsKept DEF SubmissionInvariant, provider
    <2>9. ReportedWasCounted'
        BY <1>1, <2>4, <2>8, JobsKept DEF SubmissionInvariant
    <2> QED
        BY <1>0, <1>6, <2>2, <2>4, <2>6, <2>7, <2>8, <2>9, ActorStep
<1> QED
    BY <1>4, <1>5, <1>6

\* A submission: Stripe still remembers what it has counted.
LEMMA CallStep ==
    ASSUME TypeOK, TypeOK', SubmissionInvariant, NEW w \in Reporters, Call(w)
    PROVE  SubmissionInvariant'
<1> USE DEF jobs, report
<1>0. /\ run[w].pc = "call" /\ run[w].pc # "idle" /\ InWindow(w) /\ AtWork(w) /\ Busy(w)
      /\ run[w] \in [pc : Pcs, elapsed : Elapsed, todo : SUBSET Reports, seen : SUBSET Reports,
                     tries : 0..(InRun - 1), rep : Reports \cup {NoReport},
                     verdict : {"failed"} \cup Closed]
    BY RunShape DEF Call, Busy, TypeOK, SubmissionInvariant
<1>1. PICK r \in Reports : r = run[w].rep
    BY <1>0 DEF AtWork, Busy
<1>2. UNCHANGED <<job, reportOf, jobAge, status, claim, claimAge, firstAge, wait>>
    BY DEF Call
<1>3. \A q \in Reports : RowGoes(q) /\ MayTouch(w, q)
    BY <1>2 DEF RowGoes, MayTouch
<1>4. StripeReceives(r) \/ UNCHANGED provider
    BY <1>1 DEF Call
<1>5. seenAge[r] = Never => counted[r] = 0
    <2>1. firstAge[r] - run[w].elapsed <= SafeRetry /\ run[w].elapsed \in Elapsed
        BY <1>0, <1>1 DEF AtWork, InsideSafeWindow
    <2>2. firstAge[r] # Oldest
        BY <2>1, WindowAssumption DEF Elapsed, Oldest
    <2> QED
        BY <2>2 DEF SubmissionInvariant, AggregateHolds
<1>6. StripeReceives(r) => counted'[r] = 1
    BY <1>5 DEF StripeReceives, provider, SubmissionInvariant, AggregateHolds, TypeOK
<1>7. \A q \in Reports : AggregateHolds(q)' /\ (counted[q] = 1 => counted'[q] = 1)
    <2>1. CASE UNCHANGED provider
        BY <1>3, <2>1, RowsKept DEF SubmissionInvariant, provider
    <2>2. CASE /\ seenAge[r] = Never
               /\ counted' = [counted EXCEPT ![r] = @ + 1]
               /\ seenAge' = [seenAge EXCEPT ![r] = 0]
        <3>1. counted'[r] = 1 /\ seenAge'[r] = 0 /\ counted[r] = 0
            BY <1>5, <2>2 DEF TypeOK
        <3>2. \A q \in Reports \ {r} : counted'[q] = counted[q] /\ seenAge'[q] = seenAge[q]
            BY <2>2 DEF TypeOK
        <3>3. firstAge[r] # Never /\ firstAge[r] >= 0
            BY <1>0, <1>1 DEF AtWork, TypeOK
        <3>4. AggregateHolds(r)'
            BY <1>2, <3>1, <3>3 DEF AggregateHolds, SubmissionInvariant, Never
        <3>5. \A q \in Reports \ {r} : AggregateHolds(q)'
            BY <1>2, <3>2 DEF AggregateHolds, SubmissionInvariant
        <3> QED
            BY <3>1, <3>2, <3>4, <3>5
    <2> QED
        BY <1>4, <2>1, <2>2 DEF StripeReceives
<1>8. /\ \A v \in Reporters \ {w} : run'[v] = run[v]
      /\ run'[w].rep = r /\ run'[w].elapsed = run[w].elapsed
      /\ \/ run'[w].pc = "submitted" /\ StripeReceives(r)
         \/ run'[w].pc = "call"
         \/ run'[w].pc = "mark" /\ run'[w].verdict # "reported"
    <2>1. \/ Goto(w, "submitted") /\ StripeReceives(r)
          \/ Become(w, [run[w] EXCEPT !.tries = @ + 1])
          \/ \E verdict \in {"failed", "unknown", "unreportable"} :
                Become(w, [run[w] EXCEPT !.pc = "mark", !.verdict = verdict])
        BY <1>1 DEF Call
    <2>2. CASE Goto(w, "submitted") /\ StripeReceives(r)
        BY <1>0, <1>1, <2>2, GotoFacts
    <2>3. CASE Become(w, [run[w] EXCEPT !.tries = @ + 1])
        <3>1. /\ run'[w] = [run[w] EXCEPT !.tries = @ + 1]
              /\ \A v \in Reporters \ {w} : run'[v] = run[v]
            BY <2>3, BecomeFacts DEF TypeOK
        <3> QED
            BY <1>0, <1>1, <3>1
    <2>4. ASSUME NEW verdict \in {"failed", "unknown", "unreportable"},
                 Become(w, [run[w] EXCEPT !.pc = "mark", !.verdict = verdict])
          PROVE  /\ \A v \in Reporters \ {w} : run'[v] = run[v]
                 /\ run'[w].rep = r /\ run'[w].elapsed = run[w].elapsed
                 /\ run'[w].pc = "mark" /\ run'[w].verdict # "reported"
        <3>1. /\ run'[w] = [run[w] EXCEPT !.pc = "mark", !.verdict = verdict]
              /\ \A v \in Reporters \ {w} : run'[v] = run[v]
            BY <2>4, BecomeFacts DEF TypeOK
        <3> QED
            BY <1>0, <1>1, <3>1
    <2> QED
        BY <2>1, <2>2, <2>3, <2>4
<1>9. AtWork(w)'
    <2>1. /\ run'[w].rep \in Reports
          /\ status'[r] \in Closed \/ (StillMine(w, r)' /\ claimAge'[r] <= run'[w].elapsed)
        BY <1>0, <1>1, <1>2, <1>8 DEF AtWork, StillMine
    <2>2. firstAge'[r] # Never /\ firstAge'[r] - run'[w].elapsed <= SafeRetry
        BY <1>0, <1>1, <1>2, <1>8 DEF AtWork, InsideSafeWindow
    <2> QED
        BY <1>6, <1>8, <2>1, <2>2 DEF AtWork, Busy, StillMine, InsideSafeWindow
<1>10. InWindow(w)'
    BY <1>0, <1>2, <1>8, SameWindow DEF PastExpiry, Pcs
<1>11. ReportedWasCounted'
    BY <1>2, <1>3, <1>7, JobsKept DEF SubmissionInvariant, JobGoes
<1> QED
    BY <1>0, <1>1, <1>3, <1>7, <1>8, <1>9, <1>10, <1>11, ActorStep

\* The outcomes of a submission.
LEMMA OutcomeSteps ==
    ASSUME TypeOK, TypeOK', SubmissionInvariant, NEW w \in Reporters,
           finalizeReport(w) \/ markReport(w) \/ settleReportJobs(w)
    PROVE  SubmissionInvariant'
<1> USE DEF jobs, report
<1>0. /\ run[w].pc # "idle" /\ run[w].pc \in PastExpiry /\ InWindow(w) /\ AtWork(w)
      /\ run[w] \in [pc : Pcs, elapsed : Elapsed, todo : SUBSET Reports, seen : SUBSET Reports,
                     tries : 0..(InRun - 1), rep : Reports \cup {NoReport},
                     verdict : {"failed"} \cup Closed]
    BY RunShape DEF finalizeReport, markReport, settleReportJobs, PastExpiry, Pcs, TypeOK,
           SubmissionInvariant
<1>1. UNCHANGED <<provider, reportOf, claimAge, firstAge>>
    BY DEF finalizeReport, markReport, settleReportJobs
<1>2. CASE finalizeReport(w)
    <2>0. run[w].pc = "submitted" /\ Busy(w)
        BY <1>2 DEF finalizeReport, Busy
    <2>1. PICK r \in Reports : r = run[w].rep
        BY <1>0, <2>0 DEF AtWork
    <2>2. \/ /\ StillMine(w, r)
             /\ status' = [status EXCEPT ![r] = "reported"]
             /\ claim'  = [claim EXCEPT ![r] = Nobody]
             /\ Settled(r, "reported")
          \/ UNCHANGED <<status, claim, job>>
        BY <1>2, <2>1 DEF finalizeReport
    <2>3. \A q \in Reports : RowGoes(q) /\ MayTouch(w, q)
        BY <1>1, <2>1, <2>2 DEF RowGoes, MayTouch, StillMine, Closed, TypeOK
    <2>4. \A q \in Reports : AggregateHolds(q)' /\ (counted[q] = 1 => counted'[q] = 1)
        BY <1>1, <2>3, RowsKept DEF SubmissionInvariant, provider
    <2>5. ReportedWasCounted'
        <3>1. CASE UNCHANGED <<status, claim, job>>
            BY <1>1, <2>3, <2>4, <3>1, JobsKept DEF SubmissionInvariant, JobGoes
        <3>2. CASE /\ status' = [status EXCEPT ![r] = "reported"]
                   /\ Settled(r, "reported")
            <4>1. SUFFICES ASSUME NEW m \in Messages, job'[m] = "reported"
                           PROVE  reportOf[m] # NoReport /\ counted'[reportOf[m]] = 1
                                  /\ status'[reportOf[m]] = "reported"
                BY <1>1 DEF ReportedWasCounted
            <4>2. job[m] = "reported" \/ reportOf[m] = r
                BY <3>2, <4>1 DEF Settled, JobsOf
            <4>3. CASE reportOf[m] = r
                <5>1. counted[r] = 1
                    BY <1>0, <2>0, <2>1 DEF AtWork
                <5> QED
                    BY <2>1, <2>4, <3>2, <4>3, <5>1, NamesAssumption DEF TypeOK
            <4>4. CASE job[m] = "reported"
                <5>1. /\ reportOf[m] # NoReport /\ counted[reportOf[m]] = 1
                      /\ status[reportOf[m]] = "reported"
                    BY <4>4 DEF SubmissionInvariant, ReportedWasCounted
                <5>2. reportOf[m] \in Reports
                    BY <5>1 DEF TypeOK
                <5> QED
                    BY <2>4, <3>2, <5>1, <5>2 DEF TypeOK
            <4> QED
                BY <4>2, <4>3, <4>4
        <3> QED
            BY <2>2, <3>1, <3>2
    <2>6. /\ \A v \in Reporters \ {w} : run'[v] = run[v]
          /\ run'[w].elapsed = run[w].elapsed
          /\ \/ run'[w].pc \in {"select", "claim"}
             \/ run'[w].pc = "mark" /\ run'[w].verdict = "unknown" /\ run'[w].rep = r
        <3>1. Proceed(w) \/ Become(w, [run[w] EXCEPT !.pc = "mark", !.verdict = "unknown"])
            BY <1>2 DEF finalizeReport
        <3>2. CASE Proceed(w)
            BY <1>0, <3>2, ProceedFacts
        <3>3. CASE Become(w, [run[w] EXCEPT !.pc = "mark", !.verdict = "unknown"])
            <4>1. /\ run'[w] = [run[w] EXCEPT !.pc = "mark", !.verdict = "unknown"]
                  /\ \A v \in Reporters \ {w} : run'[v] = run[v]
                BY <3>3, BecomeFacts DEF TypeOK
            <4> QED
                BY <1>0, <2>1, <4>1
        <3> QED
            BY <3>1, <3>2, <3>3
    <2>7. AtWork(w)'
        <3>1. status'[r] \in Closed \/ (StillMine(w, r)' /\ claimAge'[r] <= run[w].elapsed)
            <4>1. status[r] \in Closed \/ (StillMine(w, r) /\ claimAge[r] <= run[w].elapsed)
                BY <1>0, <2>0, <2>1 DEF AtWork
            <4> QED
                BY <1>1, <2>2, <4>1 DEF StillMine, Closed, TypeOK
        <3> QED
            BY <2>6, <3>1 DEF AtWork, Busy, StillMine
    <2>8. InWindow(w)'
        <3>1. \A q \in Reports : status'[q] \in {"processing", "failed"} => status'[q] = status[q]
            BY <2>2 DEF TypeOK
        <3> QED
            BY <1>0, <1>1, <2>6, <3>1, SameWindow
    <2> QED
        BY <1>0, <2>0, <2>1, <2>3, <2>4, <2>5, <2>6, <2>7, <2>8, ActorStep DEF Busy
<1>3. CASE markReport(w)
    <2>0. run[w].pc = "mark" /\ Busy(w) /\ run[w].verdict # "reported"
        BY <1>0, <1>3 DEF markReport, Busy, AtWork
    <2>1. PICK r \in Reports : r = run[w].rep
        BY <1>0, <2>0 DEF AtWork
    <2>2. \/ StillMine(w, r) /\ status' = [status EXCEPT ![r] = run[w].verdict]
                             /\ claim' = [claim EXCEPT ![r] = Nobody]
          \/ UNCHANGED <<status, claim>>
        BY <1>3, <2>1 DEF markReport
    <2>3. run[w].verdict \in {"failed"} \cup Closed
        BY <1>0
    <2>4. \A q \in Reports : RowGoes(q) /\ MayTouch(w, q)
        BY <1>1, <2>1, <2>2, <2>3 DEF RowGoes, MayTouch, StillMine, TypeOK
    <2>5. \A m \in Messages : JobGoes(m)
        BY <1>3 DEF markReport, JobGoes
    <2>6. /\ \A v \in Reporters \ {w} : run'[v] = run[v]
          /\ run'[w].elapsed = run[w].elapsed
          /\ \/ run'[w].pc \in {"select", "claim"}
             \/ run'[w].pc = "settle" /\ run'[w].verdict = run[w].verdict
        <3>1. Proceed(w) \/ Goto(w, "settle")
            BY <1>3 DEF markReport
        <3> QED
            BY <1>0, <3>1, ProceedFacts, GotoFacts
    <2>7. InWindow(w)'
        <3>1. \A q \in Reports : status'[q] \in {"processing", "failed"} =>
                                    status[q] \in {"processing", "failed"}
            BY <2>1, <2>2 DEF StillMine, TypeOK
        <3> QED
            BY <1>0, <1>1, <2>6, <3>1, SameWindow
    <2> QED
        BY <1>0, <1>1, <2>0, <2>4, <2>5, <2>6, <2>7, RestingStep DEF Busy
<1>4. CASE settleReportJobs(w)
    <2>1. \A q \in Reports : RowGoes(q) /\ MayTouch(w, q)
        BY <1>4 DEF settleReportJobs, RowGoes, MayTouch
    <2>2. run[w].verdict # "reported"
        BY <1>0, <1>4 DEF settleReportJobs, AtWork
    <2>3. \A m \in Messages : JobGoes(m)
        BY <1>1, <1>4, <2>2 DEF settleReportJobs, Settled, JobGoes
    <2>4. /\ run'[w].pc \in {"select", "claim"} /\ run'[w].elapsed = run[w].elapsed
          /\ \A v \in Reporters \ {w} : run'[v] = run[v]
        BY <1>0, <1>4, ProceedFacts DEF settleReportJobs
    <2>5. InWindow(w)'
        BY <1>0, <1>4, <2>4, SameWindow DEF settleReportJobs
    <2> QED
        BY <1>0, <1>1, <2>1, <2>3, <2>4, <2>5, RestingStep DEF Busy
<1> QED
    BY <1>2, <1>3, <1>4

\* An invocation begins, or ends in one of the ways it can.
LEMMA BoundarySteps ==
    ASSUME TypeOK, TypeOK', SubmissionInvariant, NEW w \in Reporters,
           Start(w) \/ OutOfTime(w) \/ ConfigurationError(w) \/ Crash(w)
    PROVE  SubmissionInvariant'
<1> USE DEF jobs, report
<1>1. UNCHANGED provider /\ \A m \in Messages : JobGoes(m)
    BY DEF Start, OutOfTime, ConfigurationError, Crash, JobGoes
<1>2. run[w].pc # "idle" \/ UNCHANGED <<status, claim, claimAge>>
    <2>1. Start(w) => UNCHANGED <<status, claim, claimAge>>
        BY DEF Start
    <2>2. Crash(w) => run[w].pc # "idle"
        BY DEF Crash, TypeOK, Runs, Pcs
    <2> QED
        BY <2>1, <2>2 DEF OutOfTime, ConfigurationError
<1>3. /\ \A v \in Reporters \ {w} : run'[v] = run[v]
      /\ run'[w].pc \in {"idle", "reclassify"}
    <2>1. Start(w) => /\ \A v \in Reporters \ {w} : run'[v] = run[v]
                      /\ run'[w].pc = "reclassify"
        BY BecomeFacts DEF Start, TypeOK
    <2>2. Become(w, Idle) => /\ \A v \in Reporters \ {w} : run'[v] = run[v]
                             /\ run'[w].pc = "idle"
        BY BecomeFacts DEF Idle, TypeOK
    <2> QED
        BY <2>1, <2>2 DEF OutOfTime, ConfigurationError, Crash
<1>4. \A r \in Reports : RowGoes(r) /\ MayTouch(w, r)
    <2>1. CASE Start(w) \/ OutOfTime(w)
        BY <2>1 DEF Start, OutOfTime, RowGoes, MayTouch
    <2>2. CASE ConfigurationError(w)
        <3>1. \/ UNCHANGED <<status, claim>>
              \/ /\ StillMine(w, run[w].rep)
                 /\ status' = [status EXCEPT ![run[w].rep] = "failed"]
                 /\ claim'  = [claim EXCEPT ![run[w].rep] = Nobody]
            BY <2>2 DEF ConfigurationError
        <3> QED
            BY <2>2, <3>1 DEF ConfigurationError, StillMine, RowGoes, MayTouch, TypeOK
    <2>3. CASE Crash(w)
        BY <2>3 DEF Crash, RowGoes, MayTouch
    <2> QED
        BY <2>1, <2>2, <2>3
<1>5. InWindow(w)'
    BY <1>3 DEF InWindow, PastExpiry, Pcs
<1> QED
    BY <1>1, <1>2, <1>3, <1>4, <1>5, RestingStep DEF Busy

\* Time passes: an identifier is forgotten only when its aggregate is old.
LEMMA TickStep ==
    ASSUME TypeOK, SubmissionInvariant, Tick
    PROVE  SubmissionInvariant'
<1>1. \A r \in Reports : AggregateHolds(r)'
    <2>1. SUFFICES ASSUME NEW r \in Reports PROVE AggregateHolds(r)'
        OBVIOUS
    <2>2. /\ counted'[r] = counted[r] /\ status'[r] = status[r]
          /\ firstAge'[r] = Older(firstAge[r], Oldest)
          /\ seenAge'[r] = IF seenAge[r] = Never \/ seenAge[r] >= Memory THEN Never
                           ELSE seenAge[r] + 1
        BY DEF Tick, Oldest
    <2>3. /\ firstAge[r] \in {Never} \cup 0..Oldest /\ seenAge[r] \in {Never} \cup 0..Memory
          /\ Oldest <= Memory + 1 /\ Oldest \in Nat /\ Memory \in Nat
        BY WindowAssumption DEF TypeOK, Oldest
    <2>4. AggregateHolds(r)
        BY DEF SubmissionInvariant
    <2> HIDE DEF Oldest
    <2> QED
        BY <2>2, <2>3, <2>4 DEF AggregateHolds, Older, Never
<1>2. \A w \in Reporters :
        \/ run[w].pc = "idle" /\ run'[w] = run[w]
        \/ /\ run[w].pc # "idle" /\ run[w].elapsed \in Elapsed
           /\ run'[w].pc = run[w].pc /\ run'[w].rep = run[w].rep
           /\ run'[w].verdict = run[w].verdict /\ run'[w].elapsed = run[w].elapsed + 1
    <2>1. SUFFICES ASSUME NEW w \in Reporters, run[w] # Idle
                   PROVE  /\ run[w].pc # "idle" /\ run[w].elapsed \in Elapsed
                          /\ run'[w].pc = run[w].pc /\ run'[w].rep = run[w].rep
                          /\ run'[w].verdict = run[w].verdict
                          /\ run'[w].elapsed = run[w].elapsed + 1
        <3>1. \A w \in Reporters : run[w] = Idle => run'[w] = run[w] /\ run[w].pc = "idle"
            BY DEF Tick, Idle
        <3> QED
            BY <3>1
    <2>2. run[w] \in [pc : Pcs, elapsed : Elapsed, todo : SUBSET Reports, seen : SUBSET Reports,
                      tries : 0..(InRun - 1), rep : Reports \cup {NoReport},
                      verdict : {"failed"} \cup Closed]
        BY <2>1 DEF TypeOK, Runs
    <2>3. run'[w] = [run[w] EXCEPT !.elapsed = @ + 1]
        BY <2>1 DEF Tick
    <2> QED
        BY <2>2, <2>3 DEF Pcs
<1>3. \A w \in Reporters : InWindow(w)'
    <2>1. SUFFICES ASSUME NEW w \in Reporters, run'[w].pc \in PastExpiry, NEW r \in Reports,
                          status'[r] \in {"processing", "failed"}
                   PROVE  firstAge'[r] - run'[w].elapsed <= SafeRetry
        BY DEF InWindow, InsideSafeWindow
    <2>2. /\ run[w].pc \in PastExpiry /\ run'[w].elapsed = run[w].elapsed + 1
          /\ run[w].elapsed \in Nat
        BY <1>2, <2>1, WindowAssumption DEF PastExpiry, Pcs, Elapsed
    <2>3. firstAge[r] - run[w].elapsed <= SafeRetry
        BY <2>1, <2>2 DEF Tick, SubmissionInvariant, InWindow, InsideSafeWindow
    <2>4. firstAge'[r] <= firstAge[r] + 1 /\ firstAge[r] \in Int /\ firstAge'[r] \in Int
        BY WindowAssumption DEF Tick, Older, TypeOK, Never
    <2> QED
        BY <2>2, <2>3, <2>4, WindowAssumption
<1>4. \A w \in Reporters : AtWork(w)'
    <2>1. SUFFICES ASSUME NEW w \in Reporters, run'[w].pc # "idle" PROVE AtWork(w)'
        BY DEF AtWork, Busy
    <2>2. /\ run'[w].pc = run[w].pc /\ run'[w].rep = run[w].rep
          /\ run'[w].verdict = run[w].verdict /\ run'[w].elapsed = run[w].elapsed + 1
          /\ run[w].elapsed \in Nat /\ AtWork(w)
        BY <1>2, <2>1, WindowAssumption DEF Elapsed, SubmissionInvariant
    <2>3. CASE Busy(w)
        <3>1. PICK r \in Reports : r = run[w].rep
            BY <2>2, <2>3 DEF AtWork
        <3>2. status[r] \in Closed \/ (StillMine(w, r) /\ claimAge[r] <= run[w].elapsed)
            BY <2>2, <2>3, <3>1 DEF AtWork
        <3>3. status'[r] = status[r] /\ claim'[r] = claim[r] /\ counted'[r] = counted[r]
            BY DEF Tick
        <3>4. StillMine(w, r) => claimAge'[r] <= claimAge[r] + 1 /\ claimAge[r] \in Int
                                 /\ claimAge'[r] \in Int
            BY WindowAssumption, NamesAssumption DEF Tick, StillMine, Older, TypeOK, Never
        <3>5. status'[r] \in Closed \/ (StillMine(w, r)' /\ claimAge'[r] <= run'[w].elapsed)
            BY <2>2, <3>2, <3>3, <3>4 DEF StillMine
        <3>6. run[w].pc = "call" => firstAge'[r] # Never /\ firstAge'[r] - run'[w].elapsed <= SafeRetry
            <4>1. SUFFICES ASSUME run[w].pc = "call"
                           PROVE  firstAge'[r] # Never /\ firstAge'[r] - run'[w].elapsed <= SafeRetry
                OBVIOUS
            <4>2. firstAge[r] # Never /\ firstAge[r] - run[w].elapsed <= SafeRetry
                BY <2>2, <3>1, <4>1 DEF AtWork, InsideSafeWindow
            <4>3. /\ firstAge[r] \in 0..Oldest /\ firstAge'[r] = Older(firstAge[r], Oldest)
                  /\ Oldest \in Nat
                BY <4>2, WindowAssumption DEF TypeOK, Tick, Oldest
            <4> HIDE DEF Oldest
            <4> QED
                BY <2>2, <4>2, <4>3, WindowAssumption DEF Older, Never
        <3> QED
            BY <2>2, <2>3, <3>1, <3>3, <3>5, <3>6 DEF AtWork, Busy, StillMine, InsideSafeWindow
    <2>4. CASE ~Busy(w)
        BY <2>2, <2>4 DEF AtWork, Busy
    <2> QED
        BY <2>3, <2>4
<1>5. OneEach'
    <2>1. \A w \in Reporters : Busy(w)' => Busy(w) /\ run'[w].rep = run[w].rep
        BY <1>2 DEF Busy
    <2> QED
        BY <2>1 DEF SubmissionInvariant, OneEach
<1>6. ReportedWasCounted'
    BY DEF Tick, SubmissionInvariant, ReportedWasCounted
<1> QED
    BY <1>1, <1>3, <1>4, <1>5, <1>6 DEF SubmissionInvariant

LEMMA SubmissionStep ==
    ASSUME TypeOK, TypeOK', SubmissionInvariant, [Next]_vars
    PROVE  SubmissionInvariant'
<1>1. ASSUME NEW m \in Messages, Accepted(m) PROVE SubmissionInvariant'
    <2>1. UNCHANGED <<reportOf, status, claim, claimAge, firstAge, run, counted, seenAge>>
        BY <1>1 DEF Accepted, report, provider
    <2>2. ReportedWasCounted'
        BY <1>1, <2>1 DEF Accepted, SubmissionInvariant, ReportedWasCounted, TypeOK
    <2> QED
        BY <2>1, <2>2 DEF SubmissionInvariant, AggregateHolds, InWindow, AtWork, OneEach, Busy,
               StillMine, InsideSafeWindow
<1>2. CASE UNCHANGED vars
    BY <1>2 DEF vars, jobs, report, provider, SubmissionInvariant, AggregateHolds, InWindow,
           AtWork, OneEach, Busy, StillMine, InsideSafeWindow, ReportedWasCounted
<1> QED
    BY <1>1, <1>2, PreparationSteps, ClaimStep, CallStep, OutcomeSteps, BoundarySteps, TickStep
       DEF Next, Step

THEOREM SubmissionHolds == Spec => []SubmissionInvariant
<1>1. TypeOK /\ TypeOK' /\ SubmissionInvariant /\ [Next]_vars => SubmissionInvariant'
    BY SubmissionStep
<1> QED
    BY <1>1, SubmissionInit, TypeCorrect, PTL DEF Spec

(* However invocations overlap, die and retry, Stripe never counts one     *)
(* aggregate twice.                                                        *)
THEOREM CountedOnce == Spec => []NeverCountedTwice
<1>1. SubmissionInvariant => NeverCountedTwice
    BY DEF SubmissionInvariant, AggregateHolds, NeverCountedTwice
<1> QED
    BY <1>1, SubmissionHolds, PTL

(* What is recorded as reported was counted, and no aggregate is worked on *)
(* by two invocations.                                                     *)
THEOREM ReportsSound == Spec => []ReportsAreSound
<1>1. SubmissionInvariant => ReportsAreSound
    BY DEF SubmissionInvariant, OneEach, Busy, ReportsAreSound, OneReporter
<1> QED
    BY <1>1, SubmissionHolds, PTL

-----------------------------------------------------------------------------
(* Nothing that is closed, or that has been assigned, changes again.       *)
LEMMA FinalStep ==
    ASSUME TypeOK, [Next]_vars
    PROVE  /\ \A m \in Messages : /\ reportOf[m] # NoReport => reportOf'[m] = reportOf[m]
                                  /\ job[m] \in Closed => job'[m] = job[m]
           /\ \A r \in Reports : status[r] \in Closed => status'[r] = status[r]
<1> USE DEF jobs, report, Open, Closed
<1>1. ASSUME NEW m \in Messages, Accepted(m)
      PROVE  UNCHANGED <<reportOf, status>> /\ \A n \in Messages : job[n] \in Closed => job'[n] = job[n]
    BY <1>1 DEF Accepted, TypeOK
<1>2. ASSUME NEW w \in Reporters, finalizeReport(w) \/ settleReportJobs(w) \/ settleExpired(w)
      PROVE  /\ reportOf' = reportOf /\ \A m \in Messages : job[m] \in Closed => job'[m] = job[m]
             /\ \A r \in Reports : status[r] \in Closed => status'[r] = status[r]
    BY <1>2 DEF finalizeReport, settleReportJobs, settleExpired, Settled, StillMine, TypeOK
<1>3. ASSUME NEW w \in Reporters, assignUsageJobsToReports(w)
      PROVE  /\ \A m \in Messages : /\ reportOf[m] # NoReport => reportOf'[m] = reportOf[m]
                                    /\ job[m] \in Closed => job'[m] = job[m]
             /\ \A r \in Reports : status[r] \in Closed => status'[r] = status[r]
    <2> DEFINE open == {m \in Messages : Unassigned(m) /\ jobAge[m] - run[w].elapsed <= MeterAge}
               free == {r \in Reports : status[r] = "none"}
    <2>1. PICK taken \in SUBSET open : \E id \in [{Group[m] : m \in taken} -> free] :
            /\ reportOf' = [m \in Messages |-> IF m \in taken THEN id[Group[m]] ELSE reportOf[m]]
            /\ job' = [m \in Messages |-> IF m \in taken THEN "processing" ELSE job[m]]
            /\ status' = [r \in Reports |->
                             IF \E g \in {Group[m] : m \in taken} : id[g] = r THEN "pending" ELSE status[r]]
        BY <1>3 DEF assignUsageJobsToReports
    <2>2. \A m \in taken : job[m] \in Open /\ reportOf[m] = NoReport
        BY DEF Unassigned
    <2>3. \A r \in Reports : status[r] \in Closed => status'[r] = status[r]
        <3>1. PICK id \in [{Group[m] : m \in taken} -> free] :
                status' = [r \in Reports |->
                    IF \E g \in {Group[m] : m \in taken} : id[g] = r THEN "pending" ELSE status[r]]
            BY <2>1
        <3>2. \A g \in {Group[m] : m \in taken} : status[id[g]] = "none"
            OBVIOUS
        <3> QED
            BY <3>1, <3>2
    <2> QED
        BY <2>1, <2>2, <2>3
<1>4. ASSUME NEW w \in Reporters,
             \/ recoverStaleReports(w) \/ expireReports(w) \/ SelectDue(w) \/ ClaimReport(w)
             \/ Call(w) \/ markReport(w) \/ Start(w) \/ OutOfTime(w) \/ ConfigurationError(w)
             \/ Crash(w)
      PROVE  UNCHANGED <<job, reportOf>>
             /\ \A r \in Reports : status[r] \in Closed => status'[r] = status[r]
    <2>1. UNCHANGED <<job, reportOf>>
        BY <1>4 DEF recoverStaleReports, expireReports, SelectDue, ClaimReport, Call, markReport,
               Start, OutOfTime, ConfigurationError, Crash
    <2>2. CASE recoverStaleReports(w) \/ expireReports(w) \/ SelectDue(w) \/ Call(w)
               \/ Start(w) \/ OutOfTime(w) \/ Crash(w)
        BY <2>2 DEF recoverStaleReports, expireReports, GivenUp, SelectDue, Call, Start, OutOfTime,
               Crash
    <2>3. CASE ClaimReport(w)
        BY <2>3 DEF ClaimReport, TypeOK
    <2>4. CASE markReport(w) \/ ConfigurationError(w)
        BY <2>4 DEF markReport, ConfigurationError, StillMine, TypeOK
    <2> QED
        BY <1>4, <2>1, <2>2, <2>3, <2>4
<1>5. ASSUME NEW w \in Reporters, reclassifyLegacyJobs(w)
      PROVE  /\ UNCHANGED <<reportOf, status>>
             /\ \A m \in Messages : job[m] \in Closed => job'[m] = job[m]
    BY <1>5 DEF reclassifyLegacyJobs, Unassigned
<1>6. CASE Tick \/ UNCHANGED vars
    BY <1>6 DEF Tick, vars
<1> QED
    BY <1>1, <1>2, <1>3, <1>4, <1>5, <1>6 DEF Next, Step

(* A job stays in its aggregate, and a closed outcome stays as it is.      *)
THEOREM ReportsFinal == Spec => ReportsAreFinal
<1>1. TypeOK /\ [Next]_vars =>
        /\ [\A m \in Messages : reportOf[m] # NoReport => reportOf'[m] = reportOf[m]]_vars
        /\ [/\ \A r \in Reports : status[r] \in Closed => status'[r] = status[r]
            /\ \A m \in Messages : job[m] \in Closed => job'[m] = job[m]]_vars
    BY FinalStep
<1> QED
    BY <1>1, TypeCorrect, PTL DEF Spec, ReportsAreFinal, AssignedForGood, ClosedIsFinal
=============================================================================
