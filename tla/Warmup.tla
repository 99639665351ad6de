------------------------------- MODULE Warmup -------------------------------
(***************************************************************************)
(* The daily limit of one workspace (sending/warmup.ts, daily-limit.ts,    *)
(* workers/warmup-progress.ts): a scheduled worker raises it step by step, *)
(* an operator pins and releases it, an administrator's review resets it,  *)
(* and a bad reputation (sending/policy.ts, ingest-event.ts) or billing    *)
(* pauses the workspace meanwhile.                                         *)
(*                                                                         *)
(* The worker reads the workspace and its days, decides, and updates only  *)
(* what it decided on: three steps, between which anyone else may act.     *)
(***************************************************************************)
EXTENDS Integers, Sequences, FiniteSetsExt

CONSTANTS
    Steps,    \* the stages: limit, and what it takes to reach them
    Policy,   \* reputationPolicy: volumes, floors, rates (one email in so many)
    Window,   \* days the reputation looks back on
    DefaultLimit, \* daily_limit of a new workspace
    Pins,     \* limits an operator may pin
    Workers,  \* invocations of the warmup worker
    MaxDay,   \* bound: days
    MaxEvents \* bound: bounces, complaints, and interventions

MaxStage == Len(Steps)
Step     == [limit : Nat, wait : Nat, sample : Nat, volume : Nat]

WarmupAssumption ==
    /\ Steps \in Seq(Step) /\ MaxStage > 0
    /\ \A s, n \in 1..MaxStage : s <= n => Steps[s].limit <= Steps[n].limit
    /\ Policy \in [bounceVolume : Nat, bounceFloor : Nat, bounceRate : Nat,
                   complaintVolume : Nat, complaintFloor : Nat, complaintRate : Nat]
    /\ {Window, DefaultLimit, MaxEvents} \subseteq Nat /\ Pins \subseteq Nat /\ MaxDay \in Nat \ {0}

VARIABLES
    status,      \* workspaces.status
    reason,      \* workspaces.pause_reason
    stage,       \* workspaces.warmup_stage
    limit,       \* workspaces.daily_limit
    pinned,      \* is daily_limit_overridden_at set?
    approvedAt,  \* the day of the approval
    advancedAt,  \* the day of the last advance
    usage,       \* usage_days
    today,       \* the clock, in days
    worker,      \* what each invocation has read
    happened     \* events and interventions so far

review == <<status, reason>>
level  == <<stage, limit, pinned, approvedAt, advancedAt>>
vars   == <<review, level, usage, today, worker, happened>>

-----------------------------------------------------------------------------
Days     == 1..MaxDay
Statuses == {"pending_review", "approved", "paused", "rejected"}
Reasons  == {"none", "reputation", "billing", "admin_limited", "admin_rejected"}
NoUsage  == [accepted |-> 0, bounces |-> 0, complaints |-> 0]
Idle     == [pc |-> "idle"]

warmupLimitForStageBug(s) == IF s \in 1..(MaxStage - 1) THEN Steps[s + 1].limit ELSE Steps[MaxStage].limit
warmupLimitForStage(s) == IF s \in 1..MaxStage THEN Steps[s].limit ELSE Steps[1].limit

(* The sum of a field of usage_days over some days.                        *)
Total(days, field(_)) == FoldSet(LAMBDA d, n : n + field(usage[d]), 0, days)
Accepted(u)   == u.accepted
Bounces(u)    == u.bounces
Complaints(u) == u.complaints

(* A rate once there is enough volume, an absolute floor before.           *)
shouldAutoPause(sent, bounces, complaints) ==
    \/ /\ complaints >= Policy.complaintFloor
       /\ sent < Policy.complaintVolume \/ complaints * Policy.complaintRate >= sent
    \/ /\ sent < Policy.bounceVolume
       /\ bounces >= Policy.bounceFloor
    \/ /\ sent >= Policy.bounceVolume
       /\ bounces * Policy.bounceRate >= sent

Recent == {d \in Days : d <= today /\ d >= today - Window}

(* The worker's sample is the latest days that have a row, however old.    *)
Rows == {d \in Days : d <= today /\ usage[d] # NoUsage}
Sample(n) == {d \in Rows : Cardinality({e \in Rows : e >= d}) <= n}

Reference(w)    == IF w.stage = 1 THEN w.approvedAt ELSE w.advancedAt

Healthy(days) ==
    /\ Total(days, Complaints) = 0
    /\ ~shouldAutoPause(Total(days, Accepted), Total(days, Bounces), Total(days, Complaints))

(* May the workspace the worker read advance?  The sample is read now.     *)
warmupDecision(w) ==
    LET next == Steps[w.stage + 1]
        days == Sample(next.sample) IN
    /\ Reference(w) + next.wait <= today
    /\ Healthy(days)
    /\ Total(days, Accepted) >= next.volume

StillFreeBug(w) == status = "approved" /\ stage = w.stage
StillFree(w)    == status = "approved" /\ stage = w.stage /\ ~pinned

Overridden(pin)    == pin # 0

Intervene == happened < MaxEvents /\ happened' = happened + 1

-----------------------------------------------------------------------------
Init ==
    /\ status = "pending_review" /\ reason = "none"
    /\ stage = 0 /\ limit = DefaultLimit /\ pinned = FALSE
    /\ approvedAt = 0 /\ advancedAt = 0
    /\ usage = [d \in Days |-> NoUsage]
    /\ today = 1
    /\ worker = [w \in Workers |-> Idle]
    /\ happened = 0

NextDay ==
    /\ today < MaxDay
    /\ today' = today + 1
    /\ UNCHANGED <<review, level, usage, worker, happened>>

(* The day's traffic, within the limit.                                    *)
SendToday ==
    /\ status = "approved"
    /\ usage[today].accepted < limit
    /\ usage' = [usage EXCEPT ![today].accepted = @ + 1]
    /\ UNCHANGED <<review, level, today, worker, happened>>

(* A hard bounce or a complaint; the suspension commits with the event.    *)
SafetyEvent ==
    /\ Intervene
    /\ \/ usage' = [usage EXCEPT ![today].bounces = @ + 1]
       \/ usage' = [usage EXCEPT ![today].complaints = @ + 1]
    /\ LET after(field(_)) == FoldSet(LAMBDA d, n : n + field(usage'[d]), 0, Recent)
           bad == shouldAutoPause(after(Accepted), after(Bounces), after(Complaints)) IN
       IF bad /\ status = "approved"
       THEN status' = "paused" /\ reason' = "reputation"
       ELSE UNCHANGED review
    /\ UNCHANGED <<level, today, worker>>

(* Billing pauses and restores, and leaves the limit alone.  Only a        *)
(* workspace that was approved once has a subscription.                    *)
BillingEvent ==
    /\ Intervene
    /\ stage > 0
    /\ \/ status' = "paused" /\ reason' = "billing"
       \/ reason = "billing" /\ status' = "approved" /\ reason' = "none"
    /\ UNCHANGED <<level, usage, today, worker>>

(* An operator pins the limit, or gives it back to the warmup.             *)
setWorkspaceDailyLimit(pin) ==
    /\ Intervene
    /\ limit' = IF pin = 0 THEN warmupLimitForStage(stage) ELSE pin
    /\ pinned' = Overridden(pin)
    /\ UNCHANGED <<review, stage, approvedAt, advancedAt, usage, today, worker>>

(* The administrator's review: only a pending workspace can be approved.   *)
reviewWorkspace ==
    /\ \/ /\ status = "pending_review"
          /\ status' = "approved" /\ reason' = "none"
          /\ stage' = 1 /\ limit' = Steps[1].limit /\ pinned' = FALSE
          /\ approvedAt' = today /\ advancedAt' = today
          /\ UNCHANGED happened
       \/ /\ Intervene
          /\ status' = "rejected" /\ reason' = "admin_rejected"
          /\ UNCHANGED level
       \/ /\ Intervene
          /\ status' = "paused" /\ reason' = "admin_limited"
          /\ limit' = Steps[1].limit /\ pinned' = FALSE
          /\ UNCHANGED <<stage, approvedAt, advancedAt>>
    /\ UNCHANGED <<usage, today, worker>>

-----------------------------------------------------------------------------
WorkerReads(w) ==
    /\ worker[w] = Idle
    /\ status = "approved" /\ stage \in 1..(MaxStage - 1) /\ ~pinned
    /\ worker' = [worker EXCEPT ![w] = [pc |-> "decide", stage |-> stage,
                                         approvedAt |-> approvedAt, advancedAt |-> advancedAt]]
    /\ UNCHANGED <<review, level, usage, today, happened>>

WorkerDecides(w) ==
    /\ worker[w].pc = "decide"
    /\ worker' = [worker EXCEPT ![w] = IF warmupDecision(@) THEN [@ EXCEPT !.pc = "update"] ELSE Idle]
    /\ UNCHANGED <<review, level, usage, today, happened>>

WorkerAdvances(w) ==
    /\ worker[w].pc = "update"
    /\ LET next == worker[w].stage + 1 IN
       IF StillFree(worker[w])
       THEN /\ stage' = next /\ limit' = Steps[next].limit /\ advancedAt' = today
            /\ UNCHANGED <<pinned, approvedAt>>
       ELSE UNCHANGED level
    /\ worker' = [worker EXCEPT ![w] = Idle]
    /\ UNCHANGED <<review, usage, today, happened>>

Next ==
    \/ NextDay \/ SendToday \/ SafetyEvent \/ BillingEvent \/ reviewWorkspace
    \/ \E pin \in Pins \cup {0} : setWorkspaceDailyLimit(pin)
    \/ \E w \in Workers : WorkerReads(w) \/ WorkerDecides(w) \/ WorkerAdvances(w)

Spec == Init /\ [][Next]_vars

-----------------------------------------------------------------------------
(* Types; a pinned limit is one an operator gave.                          *)
TypeOK ==
    /\ status \in Statuses /\ reason \in Reasons
    /\ stage \in 0..MaxStage /\ limit \in Nat /\ pinned \in BOOLEAN
    /\ pinned => limit \in Pins
    /\ approvedAt \in 0..MaxDay /\ advancedAt \in 0..MaxDay /\ approvedAt <= advancedAt
    /\ usage \in [Days -> [accepted : Nat, bounces : Nat, complaints : Nat]]
    /\ today \in Days
    /\ worker \in [Workers -> {Idle} \cup [pc : {"decide", "update"}, stage : 1..MaxStage,
                                            approvedAt : Days, advancedAt : Days]]
    /\ happened \in 0..MaxEvents

(* A limit that nobody pinned is one the stage has earned, or less: no     *)
(* race of the worker with an operator or a review leaves more             *)
(* (warmup-progress.ts:33-43, daily-limit.ts:42-47).                       *)
LimitIsEarned == status = "approved" /\ ~pinned => limit <= Steps[stage].limit

(* While a limit is pinned, only the operator who sets it moves it: not    *)
(* the worker that read the workspace before (daily-limit.ts:25-29).       *)
PinnedIsKept == pinned /\ pinned' => stage' = stage /\ limit' \in {limit} \cup Pins

(* A stage is reached only after the days it asks for at the one before,   *)
(* however many invocations overlap (warmup-progress.ts:21, warmup.ts:46). *)
WaitedAtStage ==
    stage > 0 /\ stage' > stage => stage' = stage + 1 /\ today >= advancedAt + Steps[stage'].wait

(* A stage is reached only without a complaint in the days of its sample,  *)
(* except one that came while the worker was deciding.                     *)
CleanAtStage ==
    \A w \in Workers : worker[w].pc = "decide" /\ worker'[w].pc = "update" =>
        \A d \in Days : d <= today /\ d > today - Steps[worker[w].stage + 1].sample
                          => usage[d].complaints = 0
=============================================================================
