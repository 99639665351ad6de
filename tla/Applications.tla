---------------------------- MODULE Applications ----------------------------
(***************************************************************************)
(* Applications to the beta (features/applications): a public form takes   *)
(* the time, waits for an advisory lock, counts the applications of the    *)
(* last hour, those of its address and all of them, and inserts its own    *)
(* with the time it took before it waited.  Administrators mark what they  *)
(* have read.                                                              *)
(***************************************************************************)
EXTENDS Integers, FiniteSets

CONSTANTS
    Addresses, \* hashes of the sender's address
    Unhashed,  \* no address, or no key to hash it with
    Reviewers,
    Forms,     \* submissions
    Window,    \* an hour
    PerIp, Global,
    MaxTime    \* bound: the clock

ApplicationsAssumption == {Window, PerIp, Global, MaxTime} \subseteq Nat /\ Unhashed \notin Addresses

VARIABLES
    form,     \* what each submission knows; "inserted" forms are the table's rows
    reviewed, \* beta_applications.reviewed_by, Unhashed while the status is new
    lock,     \* who holds the advisory lock
    clock

vars == <<form, reviewed, lock, clock>>

-----------------------------------------------------------------------------
Idle == [pc |-> "idle", ip |-> Unhashed, now |-> 0]

At(f, pc) == form[f].pc = pc
Rows      == {f \in Forms : At(f, "inserted")}

Available    == lock = {}

(* The applications a submission counts.                                   *)
Since(f)    == {g \in Rows : form[g].now >= form[f].now - Window}

RateLimited(f) ==
    \/ Cardinality(Since(f)) >= Global
    \/ form[f].ip # Unhashed /\ Cardinality({g \in Since(f) : form[g].ip = form[f].ip}) >= PerIp

StillNew(f)    == reviewed[f] = Unhashed

-----------------------------------------------------------------------------
Init ==
    /\ form = [f \in Forms |-> Idle] /\ reviewed = [f \in Forms |-> Unhashed]
    /\ lock = {} /\ clock = 0

Tick == clock < MaxTime /\ clock' = clock + 1 /\ UNCHANGED <<form, reviewed, lock>>

Submit(f, ip) ==
    /\ At(f, "idle")
    /\ form' = [form EXCEPT ![f] = [pc |-> "waiting", ip |-> ip, now |-> clock]]
    /\ UNCHANGED <<reviewed, lock, clock>>

AcquireLock(f) ==
    /\ At(f, "waiting") /\ Available
    /\ lock' = lock \cup {f} /\ form' = [form EXCEPT ![f].pc = "locked"]
    /\ UNCHANGED <<reviewed, clock>>

Count(f) ==
    /\ At(f, "locked")
    /\ form' = [form EXCEPT ![f].pc = IF RateLimited(f) THEN "refused" ELSE "counted"]
    /\ UNCHANGED <<reviewed, lock, clock>>

(* COMMIT of a row, or of nothing; a failure rolls back.                   *)
recordBetaApplication(f) ==
    /\ form[f].pc \in {"refused", "counted"}
    /\ lock' = lock \ {f}
    /\ \/ At(f, "counted") /\ form' = [form EXCEPT ![f].pc = "inserted"]
       \/ form' = [form EXCEPT ![f] = Idle]
    /\ UNCHANGED <<reviewed, clock>>

markBetaApplicationReviewed(f, r) ==
    /\ f \in Rows /\ StillNew(f)
    /\ reviewed' = [reviewed EXCEPT ![f] = r]
    /\ UNCHANGED <<form, lock, clock>>

Next ==
    \/ Tick
    \/ \E f \in Forms :
         \/ \E ip \in Addresses \cup {Unhashed} : Submit(f, ip)
         \/ AcquireLock(f) \/ Count(f) \/ recordBetaApplication(f)
         \/ \E r \in Reviewers : markBetaApplicationReviewed(f, r)

Spec == Init /\ [][Next]_vars

-----------------------------------------------------------------------------
TypeOK ==
    /\ form \in [Forms -> [pc : {"idle", "waiting", "locked", "refused", "counted", "inserted"},
                           ip : Addresses \cup {Unhashed}, now : 0..MaxTime]]
    /\ reviewed \in [Forms -> Reviewers \cup {Unhashed}]
    /\ lock \subseteq Forms /\ clock \in 0..MaxTime

(* However long a submission waits with the time it took, no hour holds    *)
(* more applications of one address, nor of all, than the limits.          *)
ThrottledInAnyWindow ==
    \A t \in 0..MaxTime :
        LET hour == {f \in Rows : form[f].now \in t..(t + Window)} IN
        /\ Cardinality(hour) <= Global
        /\ \A a \in Addresses : Cardinality({f \in hour : form[f].ip = a}) <= PerIp

(* An application keeps its first reviewer.                                *)
FirstReviewerKept == \A f \in Forms : reviewed[f] # Unhashed => reviewed'[f] = reviewed[f]
=============================================================================
