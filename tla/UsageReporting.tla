--------------------------- MODULE UsageReporting ---------------------------
(***************************************************************************)
(* The reporting of accepted messages to Stripe's meter: the scheduled     *)
(* invocation that recovers what earlier ones left, groups usage jobs into *)
(* aggregates, submits each aggregate with a fixed identifier and records  *)
(* the outcome (report-stripe-usage.ts).  Every statement outside the one  *)
(* transaction of finalizeReport is a step of its own: an invocation may   *)
(* be killed, or its database fail, after any of them.                     *)
(*                                                                         *)
(* Time is relative: ages are ticks since an instant, waits ticks until    *)
(* one, elapsed the ticks since an invocation took its "now".              *)
(***************************************************************************)
EXTENDS Integers, FiniteSets

CONSTANTS
    Messages,   \* accepted messages, one usage job each
    Reports,    \* identifiers of aggregates
    Reporters,  \* invocations that may run at the same time
    Group,      \* Group[m]: workspace, customer, subscription and hour of m
    NoReport,   \* stripe_usage_report_jobs.report_id is null
    Nobody,     \* no claim
    Dead,       \* the claim of an invocation that died
    Timeout,    \* an invocation is killed before it has run this long
    StaleClaim, \* STALE_CLAIM_MS
    SafeRetry,  \* SAFE_RETRY_WINDOW_MS
    Memory,     \* how long Stripe surely remembers an identifier
    MeterAge,   \* METER_MAX_AGE_MS
    InRun,      \* IN_RUN_ATTEMPTS
    MaxFaults   \* bound: crashes, database errors, configuration errors

ASSUME NamesAssumption ==
    /\ IsFiniteSet(Messages) /\ IsFiniteSet(Reports)
    /\ NoReport \notin Reports
    /\ Nobody \notin Reporters /\ Dead \notin Reporters /\ Nobody # Dead
ASSUME WindowAssumption ==
    /\ Timeout \in Nat \ {0} /\ StaleClaim \in Nat /\ SafeRetry \in Nat /\ Memory \in Nat
    /\ Timeout <= StaleClaim + 1
    /\ SafeRetry + Timeout <= Memory + 1
ASSUME BoundAssumption ==
    MeterAge \in Nat /\ InRun \in Nat \ {0} /\ MaxFaults \in Nat

VARIABLES
    job,        \* stripe_usage_report_jobs.status ("none" before acceptance)
    reportOf,   \* stripe_usage_report_jobs.report_id
    jobAge,     \* ticks since accepted_at
    status,     \* stripe_usage_reports.status ("none" before the insert)
    claim,      \* who set stripe_usage_reports.claimed_at
    claimAge,   \* ticks since claimed_at
    firstAge,   \* ticks since first_attempted_at, Never without an attempt
    wait,       \* ticks until next_attempt_at
    run,        \* what each invocation is doing
    counted,    \* Stripe: how many times it counted the aggregate
    seenAge,    \* Stripe: ticks since it remembers the identifier, or Never
    faults      \* faults so far

jobs     == <<job, reportOf, jobAge>>
report   == <<status, claim, claimAge, firstAge, wait>>
provider == <<counted, seenAge>>
vars     == <<jobs, report, run, provider, faults>>

-----------------------------------------------------------------------------
Never   == -1
Closed  == {"reported", "unknown", "unreportable"}
Open    == {"pending", "failed"}
Statuses == {"none", "processing"} \cup Open \cup Closed
Elapsed == 0..(Timeout - 1)

Pcs  == {"reclassify", "recover", "expire", "settleExpired", "assign", "select",
         "claim", "call", "submitted", "mark", "settle"}
Idle == [pc |-> "idle"]
Runs == {Idle} \cup
        [pc : Pcs, elapsed : Elapsed, todo : SUBSET Reports, seen : SUBSET Reports,
         tries : 0..(InRun - 1), rep : Reports \cup {NoReport}, verdict : {"failed"} \cup Closed]

JobsOf(r) == {m \in Messages : reportOf[m] = r}
(* event_timestamp: the latest acceptance of the group.                    *)
EventAge(r) == CHOOSE n \in {jobAge[m] : m \in JobsOf(r)} :
                   \A m \in JobsOf(r) : n <= jobAge[m]

Stale(r, elapsed)    == claimAge[r] - elapsed > StaleClaim

InsideSafeWindowBug(r, elapsed) == TRUE
InsideSafeWindow(r, elapsed)    == firstAge[r] - elapsed <= SafeRetry

GivenUpBug(r, elapsed) == status[r] = "failed" /\ ~InsideSafeWindow(r, elapsed)
GivenUp(r, elapsed)    == status[r] \in {"processing", "failed"} /\ ~InsideSafeWindow(r, elapsed)

StillMineBug(w, r)  == status[r] # "none"
StillMine(w, r)     == status[r] = "processing" /\ claim[r] = w

UnassignedBug(m) == job[m] \in Open \cup {"processing"}
Unassigned(m)    == job[m] \in Open /\ reportOf[m] = NoReport

(* Is there another try in this invocation after one that got no answer?   *)
MoreTriesBug(w) == run[w].tries < InRun
MoreTries(w)    == run[w].tries + 1 < InRun

Fault   == faults < MaxFaults /\ faults' = faults + 1
NoFault == UNCHANGED faults
Become(w, s) == run' = [run EXCEPT ![w] = s]
Goto(w, pc)  == Become(w, [run[w] EXCEPT !.pc = pc])
(* On to the next aggregate of the page, or to the next page.              *)
Proceed(w) ==
    LET rest == run[w].todo \ {run[w].rep} IN
    Become(w, [run[w] EXCEPT !.pc = IF rest = {} THEN "select" ELSE "claim",
                             !.todo = rest, !.rep = NoReport])

-----------------------------------------------------------------------------
Init ==
    /\ job      = [m \in Messages |-> "none"]
    /\ reportOf = [m \in Messages |-> NoReport]
    /\ jobAge   = [m \in Messages |-> 0]
    /\ status   = [r \in Reports |-> "none"]
    /\ claim    = [r \in Reports |-> Nobody]
    /\ claimAge = [r \in Reports |-> 0]
    /\ firstAge = [r \in Reports |-> Never]
    /\ wait     = [r \in Reports |-> 0]
    /\ run      = [w \in Reporters |-> Idle]
    /\ counted  = [r \in Reports |-> 0]
    /\ seenAge  = [r \in Reports |-> Never]
    /\ faults   = 0

(* recordAcceptedUsage adds the job (Delivery.tla).                        *)
Accepted(m) ==
    /\ job[m] = "none"
    /\ job'    = [job EXCEPT ![m] = "pending"]
    /\ jobAge' = [jobAge EXCEPT ![m] = 0]
    /\ UNCHANGED <<reportOf, report, run, provider, faults>>

Start(w) ==
    /\ run[w] = Idle
    /\ Become(w, [pc |-> "reclassify", elapsed |-> 0, todo |-> {}, seen |-> {},
                  tries |-> 0, rep |-> NoReport, verdict |-> "failed"])
    /\ UNCHANGED <<jobs, report, provider, faults>>

reclassifyLegacyJobs(w) ==
    /\ run[w].pc = "reclassify"
    /\ job' = [m \in Messages |->
                  IF Unassigned(m) /\ jobAge[m] - run[w].elapsed > MeterAge
                  THEN "unreportable" ELSE job[m]]
    /\ Goto(w, "recover")
    /\ UNCHANGED <<reportOf, jobAge, report, provider, faults>>

(* recoverStaleReports is three statements.  First: claims of dead         *)
(* invocations are made due again while a resend cannot be counted twice.  *)
recoverStaleReports(w) ==
    LET resent == {r \in Reports : /\ status[r] = "processing"
                                   /\ Stale(r, run[w].elapsed)
                                   /\ InsideSafeWindow(r, run[w].elapsed)}
    IN
    /\ run[w].pc = "recover"
    /\ status' = [r \in Reports |-> IF r \in resent THEN "failed" ELSE status[r]]
    /\ claim'  = [r \in Reports |-> IF r \in resent THEN Nobody ELSE claim[r]]
    /\ wait'   = [r \in Reports |-> IF r \in resent THEN 0 ELSE wait[r]]
    /\ Goto(w, "expire")
    /\ UNCHANGED <<jobs, claimAge, firstAge, provider, faults>>

(* Second: what was first attempted before that window is given up.        *)
expireReports(w) ==
    LET expired == {r \in Reports : GivenUp(r, run[w].elapsed)} IN
    /\ run[w].pc = "expire"
    /\ status' = [r \in Reports |-> IF r \in expired THEN "unknown" ELSE status[r]]
    /\ claim'  = [r \in Reports |-> IF r \in expired THEN Nobody ELSE claim[r]]
    /\ Become(w, [run[w] EXCEPT !.pc = IF expired = {} THEN "assign" ELSE "settleExpired",
                                !.todo = expired])
    /\ UNCHANGED <<jobs, claimAge, firstAge, wait, provider, faults>>

Settled(r, verdict) ==
    job' = [m \in Messages |-> IF m \in JobsOf(r) /\ job[m] = "processing" THEN verdict ELSE job[m]]

(* Third: their jobs follow, one aggregate at a time.                      *)
settleExpired(w) ==
    /\ run[w].pc = "settleExpired"
    /\ \E r \in run[w].todo :
         /\ Settled(r, "unknown")
         /\ LET rest == run[w].todo \ {r} IN
            Become(w, [run[w] EXCEPT !.todo = rest,
                                     !.pc = IF rest = {} THEN "assign" ELSE @])
    /\ UNCHANGED <<reportOf, jobAge, report, provider, faults>>

(* One statement.  It skips the rows another invocation has locked, so it  *)
(* may take any part of the unassigned jobs.                               *)
assignUsageJobsToReports(w) ==
    LET open == {m \in Messages : Unassigned(m) /\ jobAge[m] - run[w].elapsed <= MeterAge}
        free == {r \in Reports : status[r] = "none"}
    IN
    /\ run[w].pc = "assign"
    /\ \E taken \in SUBSET open :
         LET groups == {Group[m] : m \in taken} IN
         \E id \in [groups -> free] :
            /\ \A g, h \in groups : id[g] = id[h] => g = h
            /\ reportOf' = [m \in Messages |-> IF m \in taken THEN id[Group[m]] ELSE reportOf[m]]
            /\ job' = [m \in Messages |-> IF m \in taken THEN "processing" ELSE job[m]]
            /\ status' = [r \in Reports |->
                             IF \E g \in groups : id[g] = r THEN "pending" ELSE status[r]]
    /\ Goto(w, "select")
    /\ UNCHANGED <<jobAge, claim, claimAge, firstAge, wait, provider, faults>>

(* A page of due aggregates, without those this invocation has handled.    *)
SelectDue(w) ==
    LET fresh == {r \in Reports : status[r] \in Open /\ wait[r] = 0} \ run[w].seen IN
    /\ run[w].pc = "select"
    /\ Become(w, IF fresh = {} THEN Idle
                 ELSE [run[w] EXCEPT !.pc = "claim", !.todo = fresh])
    /\ UNCHANGED <<jobs, report, provider, faults>>

(* The next aggregate of the page: too old for the meter, taken, or lost   *)
(* to another invocation.                                                  *)
ClaimReport(w) ==
    /\ run[w].pc = "claim"
    /\ \E r \in run[w].todo :
         LET seen == run[w].seen \cup {r}
             rest == run[w].todo \ {r}
         IN
         IF status[r] \notin Open
         THEN /\ Become(w, [run[w] EXCEPT !.seen = seen, !.todo = rest,
                                          !.pc = IF rest = {} THEN "select" ELSE @])
              /\ UNCHANGED <<status, claim, claimAge, firstAge>>
         ELSE IF EventAge(r) > MeterAge
         THEN /\ status' = [status EXCEPT ![r] = "unreportable"]
              /\ Become(w, [run[w] EXCEPT !.pc = "settle", !.seen = seen, !.rep = r,
                                          !.verdict = "unreportable"])
              /\ UNCHANGED <<claim, claimAge, firstAge>>
         ELSE /\ status'   = [status EXCEPT ![r] = "processing"]
              /\ claim'    = [claim EXCEPT ![r] = w]
              /\ claimAge' = [claimAge EXCEPT ![r] = 0]
              /\ firstAge' = [firstAge EXCEPT ![r] = IF @ = Never THEN 0 ELSE @]
              /\ Become(w, [run[w] EXCEPT !.pc = "call", !.seen = seen, !.rep = r,
                                          !.tries = 0])
    /\ UNCHANGED <<jobs, wait, provider, faults>>

(* The invocation runs out of time between two aggregates.                 *)
OutOfTime(w) ==
    /\ run[w].pc \in {"claim", "select"}
    /\ run[w].seen # {}
    /\ Become(w, Idle)
    /\ UNCHANGED <<jobs, report, provider, faults>>

(* Stripe counts an identifier it does not remember, and answers a known   *)
(* one from memory.                                                        *)
StripeReceives(r) ==
    IF seenAge[r] # Never
    THEN UNCHANGED provider
    ELSE /\ counted' = [counted EXCEPT ![r] = @ + 1]
         /\ seenAge' = [seenAge EXCEPT ![r] = 0]

(* One call of the submission loop.  A connection error or a 5xx does not  *)
(* say whether Stripe recorded the event ("retryable"); nor does an error  *)
(* that is not Stripe's ("ambiguous").  A rejection or a configuration     *)
(* error means that it did not.                                            *)
Call(w) ==
    /\ run[w].pc = "call"
    /\ LET r == run[w].rep
           mark(verdict) == Become(w, [run[w] EXCEPT !.pc = "mark", !.verdict = verdict])
       IN
       \/ StripeReceives(r) /\ Goto(w, "submitted") /\ NoFault
       \/ /\ StripeReceives(r) \/ UNCHANGED provider
          /\ NoFault
          /\ \/ MoreTries(w) /\ Become(w, [run[w] EXCEPT !.tries = @ + 1])
             \/ mark("failed")
       \/ (StripeReceives(r) \/ UNCHANGED provider) /\ mark("unknown") /\ NoFault
       \/ seenAge[r] = Never /\ mark("unreportable") /\ UNCHANGED provider /\ NoFault
    /\ UNCHANGED <<jobs, report>>

(* Credentials refused: the aggregate waits and the invocation ends.       *)
ConfigurationError(w) ==
    /\ run[w].pc = "call"
    /\ Fault
    /\ IF StillMine(w, run[w].rep)
       THEN /\ status' = [status EXCEPT ![run[w].rep] = "failed"]
            /\ claim'  = [claim EXCEPT ![run[w].rep] = Nobody]
            /\ wait'   = [wait EXCEPT ![run[w].rep] = 1]
       ELSE UNCHANGED <<status, claim, wait>>
    /\ Become(w, Idle)
    /\ UNCHANGED <<jobs, claimAge, firstAge, provider>>

(* One transaction for the aggregate, its jobs and every local marker.  If *)
(* the claim is lost, or the transaction fails, the outcome is "unknown".  *)
finalizeReport(w) ==
    /\ run[w].pc = "submitted"
    /\ LET r == run[w].rep
           reported == /\ StillMine(w, r)
                       /\ status' = [status EXCEPT ![r] = "reported"]
                       /\ claim'  = [claim EXCEPT ![r] = Nobody]
                       /\ Settled(r, "reported")
           failed == Become(w, [run[w] EXCEPT !.pc = "mark", !.verdict = "unknown"])
       IN
       \/ reported /\ NoFault /\ Proceed(w)
       \/ reported /\ Fault /\ failed
       \/ /\ \/ ~StillMine(w, r) /\ NoFault
             \/ Fault
          /\ failed
          /\ UNCHANGED <<status, claim, job>>
    /\ UNCHANGED <<reportOf, jobAge, claimAge, firstAge, wait, provider>>

(* Any other outcome: the aggregate first, then, if the claim still held,  *)
(* its jobs.                                                               *)
markReport(w) ==
    /\ run[w].pc = "mark"
    /\ LET r == run[w].rep
           verdict == run[w].verdict
       IN
       IF StillMine(w, r)
       THEN /\ status' = [status EXCEPT ![r] = verdict]
            /\ claim'  = [claim EXCEPT ![r] = Nobody]
            /\ wait'   = [wait EXCEPT ![r] = IF verdict = "failed" THEN 1 ELSE @]
            /\ IF verdict = "failed" THEN Proceed(w) ELSE Goto(w, "settle")
       ELSE Proceed(w) /\ UNCHANGED <<status, claim, wait>>
    /\ UNCHANGED <<jobs, claimAge, firstAge, provider, faults>>

settleReportJobs(w) ==
    /\ run[w].pc = "settle"
    /\ Settled(run[w].rep, run[w].verdict)
    /\ Proceed(w)
    /\ UNCHANGED <<reportOf, jobAge, report, provider, faults>>

(* Killed, or a statement outside a try block failed: its claims remain.   *)
Crash(w) ==
    /\ run[w] # Idle
    /\ Fault
    /\ claim' = [r \in Reports |-> IF claim[r] = w THEN Dead ELSE claim[r]]
    /\ Become(w, Idle)
    /\ UNCHANGED <<jobs, status, claimAge, firstAge, wait, provider>>

Older(n, limit) == IF n = Never THEN Never ELSE IF n < limit THEN n + 1 ELSE limit
(* Stripe forgets an identifier after Memory; ages past every threshold    *)
(* are not told apart.                                                     *)
Tick ==
    /\ \A w \in Reporters : run[w] # Idle => run[w].elapsed + 1 < Timeout
    /\ jobAge'   = [m \in Messages |-> IF job[m] = "none" THEN 0
                                       ELSE Older(jobAge[m], MeterAge + Timeout)]
    /\ claimAge' = [r \in Reports |-> IF claim[r] = Nobody THEN 0
                                      ELSE Older(claimAge[r], StaleClaim + Timeout)]
    /\ firstAge' = [r \in Reports |-> Older(firstAge[r], SafeRetry + Timeout)]
    /\ wait'     = [r \in Reports |-> IF wait[r] > 0 THEN wait[r] - 1 ELSE 0]
    /\ seenAge'  = [r \in Reports |-> IF seenAge[r] = Never \/ seenAge[r] >= Memory THEN Never
                                      ELSE seenAge[r] + 1]
    /\ run'      = [w \in Reporters |-> IF run[w] = Idle THEN Idle
                                        ELSE [run[w] EXCEPT !.elapsed = @ + 1]]
    /\ UNCHANGED <<job, reportOf, status, claim, counted, faults>>

-----------------------------------------------------------------------------
Step(w) ==
    \/ reclassifyLegacyJobs(w)
    \/ recoverStaleReports(w)
    \/ expireReports(w)
    \/ settleExpired(w)
    \/ assignUsageJobsToReports(w)
    \/ SelectDue(w)
    \/ ClaimReport(w)
    \/ Call(w)
    \/ finalizeReport(w)
    \/ markReport(w)
    \/ settleReportJobs(w)

Next ==
    \/ \E m \in Messages : Accepted(m)
    \/ \E w \in Reporters :
         \/ Start(w)
         \/ Step(w)
         \/ OutOfTime(w)
         \/ ConfigurationError(w)
         \/ Crash(w)
    \/ Tick

Spec == Init /\ [][Next]_vars

(* The hourly schedule, and invocations that go on when not killed.        *)
Fairness ==
    /\ WF_vars(Tick)
    /\ \A w \in Reporters : WF_vars(Start(w)) /\ WF_vars(Step(w))

FairSpec == Spec /\ Fairness

-----------------------------------------------------------------------------
TypeOK ==
    /\ job \in [Messages -> Statuses]
    /\ reportOf \in [Messages -> Reports \cup {NoReport}]
    /\ jobAge \in [Messages -> 0..(MeterAge + Timeout)]
    /\ status \in [Reports -> Statuses]
    /\ claim \in [Reports -> Reporters \cup {Nobody, Dead}]
    /\ claimAge \in [Reports -> 0..(StaleClaim + Timeout)]
    /\ firstAge \in [Reports -> {Never} \cup 0..(SafeRetry + Timeout)]
    /\ wait \in [Reports -> Nat]
    /\ run \in [Reporters -> Runs]
    /\ counted \in [Reports -> Nat]
    /\ seenAge \in [Reports -> {Never} \cup 0..Memory]
    /\ faults \in 0..MaxFaults

(* "A retry can never be counted twice" (schema.ts): an aggregate is       *)
(* submitted again after a rate limit, a lost answer or a dead invocation, *)
(* but never after Stripe may have forgotten its identifier.               *)
NeverCountedTwice == \A r \in Reports : counted[r] <= 1

(* Local accounting is true: a message is "reported" only when its         *)
(* aggregate is, and Stripe counted that aggregate.                        *)
ReportedWasCounted ==
    \A m \in Messages : job[m] = "reported" =>
        /\ reportOf[m] # NoReport
        /\ counted[reportOf[m]] = 1
        /\ status[reportOf[m]] = "reported"

(* A job belongs to one aggregate for good: a resend, a recovery or an     *)
(* outcome in doubt never makes it free to be counted in another one.      *)
AssignedForGood ==
    [][\A m \in Messages : reportOf[m] # NoReport => reportOf'[m] = reportOf[m]]_vars

(* What is closed stays closed: an outcome in doubt is for a human, and is *)
(* neither submitted again nor recorded as reported.                       *)
ClosedIsFinal ==
    [][/\ \A r \in Reports : status[r] \in Closed => status'[r] = status[r]
       /\ \A m \in Messages : job[m] \in Closed => job'[m] = job[m]]_vars

(* One invocation at a time works on an aggregate.                         *)
OneReporter ==
    \A r \in Reports, v, w \in Reporters :
        (/\ run[v].pc \in {"call", "submitted", "mark"} /\ run[v].rep = r
         /\ run[w].pc \in {"call", "submitted", "mark"} /\ run[w].rep = r) => v = w

(* What the table says was reported was counted, and no aggregate is in   *)
(* the hands of two invocations (the claim's date in every later update).  *)
ReportsAreSound == ReportedWasCounted /\ OneReporter

(* A message stays in its aggregate, and a closed aggregate stays closed,  *)
(* whichever invocation wakes up late (report-stripe-usage.ts:139, :230).  *)
ReportsAreFinal == AssignedForGood /\ ClosedIsFinal

(* Every aggregate is closed in the end, even if Stripe never answers.     *)
EventuallyClosed ==
    \A r \in Reports : status[r] # "none" ~> status[r] \in Closed

(* "An ambiguous Stripe response becomes unknown" (architecture.md, of the *)
(* usage-report job): no job is left in "processing" by a closed aggregate *)
(* that no invocation is about to settle.                                  *)
NoJobStranded ==
    \A m \in Messages : job[m] = "processing" =>
        \/ status[reportOf[m]] \notin Closed
        \/ \E w \in Reporters :
             \/ run[w].pc = "settle" /\ run[w].rep = reportOf[m]
             \/ run[w].pc = "settleExpired" /\ reportOf[m] \in run[w].todo
=============================================================================
