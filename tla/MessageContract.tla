-------------------------- MODULE MessageContract ---------------------------
(***************************************************************************)
(* What the platform promises about one live message, whatever its workers,*)
(* schedules and providers do (docs/architecture.md, "Acceptance path" and *)
(* "Failure semantics"): it is pending until it is accepted by a provider, *)
(* refused, or in doubt; a doubt may be resolved later; accepted and       *)
(* refused are final; and exactly the step that makes a message accepted   *)
(* counts it, once, on one day.                                            *)
(***************************************************************************)
EXTENDS Naturals

CONSTANTS Messages, Days

VARIABLES phase,  \* phase[m]: "absent", "pending", "inDoubt", "accepted" or "refused"
          counted \* counted[d]: messages accepted on day d

cvars == <<phase, counted>>

Init ==
    /\ phase   = [m \in Messages |-> "absent"]
    /\ counted = [d \in Days |-> 0]

Admit(m) ==
    /\ phase[m] = "absent"
    /\ phase' = [phase EXCEPT ![m] = "pending"]
    /\ UNCHANGED counted

Bill(m, d) ==
    /\ phase[m] \in {"pending", "inDoubt"}
    /\ phase'   = [phase EXCEPT ![m] = "accepted"]
    /\ counted' = [counted EXCEPT ![d] = @ + 1]

Refuse(m) ==
    /\ phase[m] \in {"pending", "inDoubt"}
    /\ phase' = [phase EXCEPT ![m] = "refused"]
    /\ UNCHANGED counted

Doubt(m) ==
    /\ phase[m] = "pending"
    /\ phase' = [phase EXCEPT ![m] = "inDoubt"]
    /\ UNCHANGED counted

Settle(m) == Doubt(m) \/ Refuse(m) \/ \E d \in Days : Bill(m, d)

Next == \E m \in Messages : Admit(m) \/ Settle(m)

Spec     == Init /\ [][Next]_cvars
FairSpec == Spec /\ \A m \in Messages : WF_cvars(phase[m] = "pending" /\ Settle(m))
=============================================================================
