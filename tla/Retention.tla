----------------------------- MODULE Retention ------------------------------
(***************************************************************************)
(* The retention worker (workers/purge-retention.ts): each invocation      *)
(* continues a few of the requested workspace deletions, oldest first, and *)
(* then sweeps the workspaces whose last attempt is oldest, a batch of     *)
(* rows of each, and last a batch of the records of no workspace, until    *)
(* its time is up.  A workspace may be stamped and then fail, every time.  *)
(***************************************************************************)
EXTENDS Integers, Sequences, SequencesExt

CONSTANTS
    Tenants,     \* workspaces
    Poisoned,    \* those whose transactions always fail
    Invocations, \* invocations of the schedule that overlap
    PurgeLimit,  \* deletions continued by an invocation
    SweepLimit,  \* workspaces swept by an invocation
    MaxRows,     \* bound: batches of rows that are due in a workspace
    MaxCuts      \* bound: invocations that are killed or run out of time early

RetentionAssumption ==
    /\ Poisoned \subseteq Tenants
    /\ {PurgeLimit, SweepLimit, MaxRows, MaxCuts} \subseteq Nat \ {0}

VARIABLES
    order,     \* workspaces by retention_attempted_at, nulls first
    due,       \* batches of rows past their date
    requested, \* workspaces by purge_requested_at
    remains,   \* batches left of a workspace to delete
    purging,   \* deletions an invocation has still to continue
    sweeping,  \* candidates an invocation has still to sweep
    global,    \* batches of records of no workspace that are due
    stage,     \* what each invocation is doing
    cuts

vars == <<order, due, requested, remains, purging, sweeping, global, stage, cuts>>

-----------------------------------------------------------------------------
First(n, s) == SubSeq(s, 1, IF n < Len(s) THEN n ELSE Len(s))
Without(s, t) == SelectSeq(s, LAMBDA x : x # t)
Enters(i, s) == stage' = [stage EXCEPT ![i] = s]

(* The stamp, before the attempt, puts the workspace last.                 *)
StampedBug(t) == order
Stamped(t)    == Append(Without(order, t), t)

Init ==
    /\ order \in {s \in [1..Cardinality(Tenants) -> Tenants] : IsInjective(s)}
    /\ due = [t \in Tenants |-> MaxRows]
    /\ requested = <<>> /\ remains = [t \in Tenants |-> MaxRows]
    /\ purging = [i \in Invocations |-> <<>>] /\ sweeping = [i \in Invocations |-> <<>>]
    /\ global = MaxRows /\ stage = [i \in Invocations |-> "resting"]
    /\ cuts = 0

(* An owner's deletion has been accepted.                                  *)
requestWorkspaceDeletion(t) ==
    /\ remains[t] = MaxRows /\ ~Contains(requested, t)
    /\ requested' = Append(requested, t)
    /\ UNCHANGED <<order, due, remains, purging, sweeping, global, stage, cuts>>

pendingWorkspacePurges == First(PurgeLimit, requested)

Begin(i) ==
    /\ stage[i] = "resting" /\ Enters(i, "purging")
    /\ purging' = [purging EXCEPT ![i] = pendingWorkspacePurges]
    /\ UNCHANGED <<order, due, requested, remains, sweeping, global, cuts>>

(* purgeDeletedWorkspace: batches, then the row and with it the rest.      *)
Purge(i) ==
    /\ purging[i] # <<>>
    /\ LET t == Head(purging[i]) IN
       IF t \in Poisoned \/ remains[t] = 0 THEN UNCHANGED <<order, due, requested, remains>>
       ELSE /\ remains' = [remains EXCEPT ![t] = @ - 1]
            /\ IF remains[t] = 1
               THEN /\ order' = Without(order, t) /\ requested' = Without(requested, t)
                    /\ due' = [due EXCEPT ![t] = 0]
               ELSE UNCHANGED <<order, requested, due>>
    /\ purging' = [purging EXCEPT ![i] = Tail(@)]
    /\ UNCHANGED <<sweeping, global, stage, cuts>>

(* The candidates are read when the deletions are done.                    *)
Enumerate(i) ==
    /\ stage[i] = "purging" /\ purging[i] = <<>> /\ Enters(i, "sweeping")
    /\ sweeping' = [sweeping EXCEPT ![i] = First(SweepLimit, order)]
    /\ UNCHANGED <<order, due, requested, remains, purging, global, cuts>>

(* purgeWorkspaceRetention, one transaction after the stamp.               *)
Sweep(i) ==
    /\ sweeping[i] # <<>>
    /\ LET t == Head(sweeping[i]) IN
       IF ~Contains(order, t) THEN UNCHANGED <<order, due>>
       ELSE /\ order' = Stamped(t)
            /\ due' = IF t \in Poisoned \/ due[t] = 0 THEN due ELSE [due EXCEPT ![t] = @ - 1]
    /\ sweeping' = [sweeping EXCEPT ![i] = Tail(@)]
    /\ UNCHANGED <<requested, remains, purging, global, stage, cuts>>

(* Stripe events, platform audits and applications, one transaction.       *)
purgeGlobalRetention(i) ==
    /\ stage[i] = "sweeping" /\ sweeping[i] = <<>> /\ Enters(i, "resting")
    /\ global' = IF global = 0 THEN 0 ELSE global - 1
    /\ UNCHANGED <<order, due, requested, remains, purging, sweeping, cuts>>

(* Killed between the stamp and the transaction, or out of time.           *)
CutShort(i) ==
    /\ stage[i] # "resting" /\ Enters(i, "resting") /\ cuts < MaxCuts
    /\ cuts' = cuts + 1
    /\ purging' = [purging EXCEPT ![i] = <<>>] /\ sweeping' = [sweeping EXCEPT ![i] = <<>>]
    /\ \/ UNCHANGED order
       \/ /\ sweeping[i] # <<>> /\ Contains(order, Head(sweeping[i]))
          /\ order' = Stamped(Head(sweeping[i]))
    /\ UNCHANGED <<due, requested, remains, global>>

(* An invocation, which the schedule starts, comes to its end.             *)
Works(i) == Begin(i) \/ Purge(i) \/ Enumerate(i) \/ Sweep(i) \/ purgeGlobalRetention(i)

Next ==
    \/ \E t \in Tenants : requestWorkspaceDeletion(t)
    \/ \E i \in Invocations : Works(i) \/ CutShort(i)

(* The schedule fires every half hour.                                     *)
Fairness == \A i \in Invocations : WF_vars(Works(i))

Spec     == Init /\ [][Next]_vars
FairSpec == Spec /\ Fairness

-----------------------------------------------------------------------------
TypeOK ==
    /\ Range(order) \subseteq Tenants /\ IsInjective(order)
    /\ due \in [Tenants -> 0..MaxRows] /\ remains \in [Tenants -> 0..MaxRows]
    /\ Range(requested) \subseteq Tenants /\ IsInjective(requested)
    /\ purging \in [Invocations -> Seq(Tenants)] /\ sweeping \in [Invocations -> Seq(Tenants)]
    /\ global \in 0..MaxRows /\ stage \in [Invocations -> {"resting", "purging", "sweeping"}]
    /\ cuts \in 0..MaxCuts

(* Nothing of the workspace, nor of no workspace, is beyond its date.      *)
Swept(t)    == due[t] = 0 /\ global = 0

(* A deletion on its way, and its end.                                     *)
Requested(t) == Contains(requested, t)
Finished(t)  == ~Contains(order, t)
=============================================================================
