------------------------------- MODULE Domains ------------------------------
(***************************************************************************)
(* Who owns a sending domain (features/domains/actions.ts): a form reads   *)
(* its workspace, and then, in a transaction under one advisory lock for   *)
(* all workspaces, counts its domains, reads every name and inserts.       *)
(***************************************************************************)
EXTENDS Integers, FiniteSets

CONSTANTS
    Workspaces,
    Names,   \* domain names
    Under,   \* <<a, b>>: a is b, or a name below b
    Forms,   \* submissions that run together
    Free     \* nobody, nothing

DomainsAssumption ==
    /\ Under \subseteq Names \X Names /\ \A n \in Names : <<n, n>> \in Under
    /\ Free \notin Forms

VARIABLES
    approved, \* workspaces.status is approved
    owner,    \* domains: the workspaces that have each name
    form,     \* what each submission knows
    lock      \* who holds the advisory lock

vars == <<approved, owner, form, lock>>

-----------------------------------------------------------------------------
Idle     == [pc |-> "idle", ws |-> Free, name |-> Free, limit |-> 0]
At(f, pc) == form[f].pc = pc

Overlaps(a, b)    == <<a, b>> \in Under \/ <<b, a>> \in Under

Of(w)    == {n \in Names : w \in owner[n]}
Limit(w) == IF approved[w] THEN 2 ELSE 1

Available    == lock = Free

(* The checks, of rows committed before the statement began.               *)
Allowed(w, n, limit) ==
    /\ Cardinality(Of(w)) < limit
    /\ w \notin owner[n]
    /\ \A m \in Names : Overlaps(m, n) => owner[m] \subseteq {w}

-----------------------------------------------------------------------------
Init ==
    /\ approved = [w \in Workspaces |-> FALSE] /\ owner = [n \in Names |-> {}]
    /\ form = [f \in Forms |-> Idle] /\ lock = Free

Submit(f, w, n) ==
    /\ At(f, "idle")
    /\ form' = [form EXCEPT ![f] = [pc |-> "waiting", ws |-> w, name |-> n, limit |-> Limit(w)]]
    /\ UNCHANGED <<approved, owner, lock>>

AcquireLock(f) ==
    /\ At(f, "waiting") /\ Available
    /\ lock' = f /\ form' = [form EXCEPT ![f].pc = "locked"]
    /\ UNCHANGED <<approved, owner>>

(* Refused forms roll back.                                                *)
CheckNames(f) ==
    /\ At(f, "locked")
    /\ IF Allowed(form[f].ws, form[f].name, form[f].limit)
       THEN form' = [form EXCEPT ![f].pc = "allowed"] /\ UNCHANGED lock
       ELSE form' = [form EXCEPT ![f] = Idle] /\ lock' = Free
    /\ UNCHANGED <<approved, owner>>

(* COMMIT, or a failure of it; the unique index has the last word.         *)
addDomain(f) ==
    /\ At(f, "allowed")
    /\ owner' \in {owner, IF owner[form[f].name] = {} THEN [owner EXCEPT ![form[f].name] = {form[f].ws}] ELSE owner}
    /\ form' = [form EXCEPT ![f] = Idle] /\ lock' = Free
    /\ UNCHANGED approved

(* Reviews, pauses; the last statement of a workspace's purge.             *)
ChangeStatus(w) ==
    /\ approved' = [approved EXCEPT ![w] = ~@]
    /\ UNCHANGED <<owner, form, lock>>

Purged(w) ==
    /\ owner' = [n \in Names |-> owner[n] \ {w}]
    /\ UNCHANGED <<approved, form, lock>>

Next ==
    \/ \E f \in Forms : (\E w \in Workspaces, n \in Names : Submit(f, w, n)) \/ AcquireLock(f) \/ CheckNames(f) \/ addDomain(f)
    \/ \E w \in Workspaces : ChangeStatus(w) \/ Purged(w)

Spec == Init /\ [][Next]_vars

-----------------------------------------------------------------------------
TypeOK ==
    /\ approved \in [Workspaces -> BOOLEAN] /\ owner \in [Names -> SUBSET Workspaces]
    /\ form \in [Forms -> [pc : {"idle", "waiting", "locked", "allowed"}, ws : Workspaces \cup {Free},
                           name : Names \cup {Free}, limit : 0..2]]
    /\ lock \in Forms \cup {Free}

(* Two forms of two workspaces never get a name and one below it, and a    *)
(* workspace never gets a third domain, whatever its status became while   *)
(* the form waited.                                                        *)
DomainsAreDisjoint ==
    /\ \A m, n \in Names : <<m, n>> \in Under => Cardinality(owner[m] \cup owner[n]) <= 1
    /\ \A w \in Workspaces : Cardinality(Of(w)) <= 2
=============================================================================
