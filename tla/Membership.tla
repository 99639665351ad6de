----------------------------- MODULE Membership -----------------------------
(***************************************************************************)
(* Who may enter one client workspace: the owner's invitation, which an    *)
(* administrator delivers, again if needed, while the owner may already be *)
(* accepting it (admin/actions.ts, onboarding/reconcile-owner.ts); and the *)
(* members' invitations, which share a few seats (members/service.ts,      *)
(* invitation-link.ts).  Accepting is the authentication library's.        *)
(*                                                                         *)
(* Time is left out: a live invitation may expire at any moment, a claim   *)
(* may be five minutes old at any moment.                                  *)
(***************************************************************************)
EXTENDS Integers, FiniteSets

CONSTANTS
    People,     \* addresses
    Owner,      \* the one the workspace was provisioned for
    Couriers,   \* deliveries of the owner's invitation that run together
    Seats,      \* workspaceMemberLimit, and the library's membershipLimit
    MaxSends,   \* bound: deliveries
    MaxFaults   \* bound: emails and hooks that fail, requests that are killed

MembershipAssumption == Owner \in People /\ {Seats, MaxSends, MaxFaults} \subseteq Nat /\ Seats > 0

VARIABLES
    run,        \* client_provisioning_runs.status
    courier,    \* what each delivery is doing
    invitation, \* auth_invitations: status of each address
    live,       \* addresses whose invitation has not expired
    members,    \* auth_members
    accounts,   \* auth_users: addresses with an account
    bound,      \* is workspaces.auth_owner_user_id set?
    hook,       \* has the acceptance's hook still to run?
    approved,   \* workspaces.status is approved
    revived,    \* has an expired invitation been given a new expiry?
    sends, faults

people == <<invitation, live, members, accounts, revived>>
owner  == <<run, bound, hook>>
counts == <<sends, faults>>
vars   == <<owner, courier, people, approved, counts>>

-----------------------------------------------------------------------------
Deliverable == {"pending_email", "invitation_sent", "email_failed"}
Waiting == {p \in live : invitation[p] = "pending"}
Taken   == Cardinality(members) + Cardinality(Waiting)

(* The claim, also of a delivery that is five minutes old.                 *)
Claimable == run \in Deliverable \/ run = "sending_email"

Full    == Taken >= Seats

(* A new expiry for an invitation that is still pending.                   *)
Renewed(p) ==
    /\ live' = live \cup {p}
    /\ revived' = (revived \/ p \notin live)

(* What the scheduled reconciliation looks for.                            *)
UnreconciledBug == run # "accepted" /\ ~bound
Unreconciled    == run # "accepted" /\ invitation[Owner] = "accepted"

Fault == faults < MaxFaults /\ faults' = faults + 1 /\ UNCHANGED sends

-----------------------------------------------------------------------------
(* provisionClientWorkspaceAction has committed.                           *)
Init ==
    /\ run = "pending_email" /\ bound = FALSE /\ hook = FALSE
    /\ courier = [c \in Couriers |-> "idle"]
    /\ invitation = [p \in People |-> IF p = Owner THEN "pending" ELSE "none"]
    /\ live = {Owner} /\ members = {} /\ accounts = {} /\ revived = FALSE
    /\ approved = FALSE /\ sends = 0 /\ faults = 0

ClaimDelivery(c) ==
    /\ courier[c] = "idle" /\ sends < MaxSends
    /\ Claimable
    /\ run' = "sending_email" /\ sends' = sends + 1
    /\ courier' = [courier EXCEPT ![c] = "claimed"]
    /\ UNCHANGED <<bound, hook, people, approved, faults>>

(* An invitation that is no longer pending fails the delivery.             *)
SendInvitation(c) ==
    /\ courier[c] = "claimed"
    /\ \/ /\ invitation[Owner] = "pending"
          /\ Renewed(Owner) /\ UNCHANGED <<invitation, members, accounts>>
          /\ \/ courier' = [courier EXCEPT ![c] = "sent"] /\ UNCHANGED counts
             \/ Fault /\ courier' = [courier EXCEPT ![c] = "failed"]
       \/ /\ invitation[Owner] # "pending"
          /\ courier' = [courier EXCEPT ![c] = "failed"]
          /\ UNCHANGED <<people, counts>>
    /\ UNCHANGED <<owner, approved>>

(* The outcome is written whatever the status has become.                  *)
RecordDelivery(c) ==
    /\ courier[c] \in {"sent", "failed"}
    /\ run' = IF courier[c] = "sent" THEN "invitation_sent" ELSE "email_failed"
    /\ courier' = [courier EXCEPT ![c] = "idle"]
    /\ UNCHANGED <<bound, hook, people, approved, counts>>

CourierDies(c) ==
    /\ courier[c] # "idle" /\ Fault
    /\ courier' = [courier EXCEPT ![c] = "idle"]
    /\ UNCHANGED <<owner, people, approved>>

(* An account is made at the first sign-in, with Google, of an address     *)
(* that holds a live invitation; it outlives the invitation.               *)
mayCreateUser(p) == p \in Waiting

createUser(p) ==
    /\ p \notin accounts /\ mayCreateUser(p)
    /\ accounts' = accounts \cup {p}
    /\ UNCHANGED <<owner, courier, invitation, live, members, revived, approved, counts>>

(* The library: an account, a pending, live invitation and a free seat.    *)
Accept(p) ==
    /\ p \in Waiting \cap accounts /\ Cardinality(members) < Seats
    /\ invitation' = [invitation EXCEPT ![p] = "accepted"]
    /\ members' = members \cup {p}
    /\ hook' = (hook \/ p = Owner)
    /\ UNCHANGED <<run, bound, live, accounts, revived, courier, approved, counts>>

(* Binds the owner and closes the run, in one locked transaction.          *)
reconcileAcceptedOwner ==
    /\ invitation[Owner] = "accepted" /\ Owner \in members
    /\ bound' = TRUE /\ run' = "accepted"

afterAcceptInvitation ==
    /\ hook /\ hook' = FALSE
    /\ \/ reconcileAcceptedOwner /\ UNCHANGED counts
       \/ Fault /\ UNCHANGED <<run, bound>>
    /\ UNCHANGED <<courier, people, approved>>

reconcilePendingOwnerInvitations ==
    /\ Unreconciled
    /\ reconcileAcceptedOwner
    /\ UNCHANGED <<hook, courier, people, approved, counts>>

Review == ~approved /\ bound /\ approved' = TRUE /\ UNCHANGED <<owner, courier, people, counts>>

Expire(p) ==
    /\ p \in Waiting /\ live' = live \ {p}
    /\ UNCHANGED <<owner, courier, invitation, members, accounts, revived, approved, counts>>

(* A second invitation of an address renews the first; a new one needs a   *)
(* seat.  One transaction under the lock of the organization.              *)
inviteWorkspaceMember(p) ==
    /\ approved /\ p \notin members
    /\ \/ invitation[p] = "pending" /\ Renewed(p) /\ UNCHANGED invitation
       \/ /\ invitation[p] # "pending" /\ ~Full
          /\ invitation' = [invitation EXCEPT ![p] = "pending"]
          /\ live' = live \cup {p} /\ UNCHANGED revived
    /\ UNCHANGED <<owner, courier, members, accounts, approved, counts>>

cancelWorkspaceMemberInvitation(p) ==
    /\ p # Owner
    /\ invitation[p] = "pending"
    /\ invitation' = [invitation EXCEPT ![p] = "canceled"]
    /\ UNCHANGED <<owner, courier, live, members, accounts, revived, approved, counts>>

issueInvitationLink(p) ==
    /\ invitation[p] = "pending" /\ Renewed(p)
    /\ UNCHANGED <<owner, courier, invitation, members, accounts, approved, counts>>

(* Neither the owner nor oneself.                                          *)
removeWorkspaceMember(p) ==
    /\ p \in members \ {Owner}
    /\ members' = members \ {p}
    /\ UNCHANGED <<owner, courier, invitation, live, accounts, revived, approved, counts>>

(* The workspace's page: an approved workspace's owner or administrator;   *)
(* the link is issued at once for an invitation that was not delivered.    *)
WorkspaceAdmin(p) ==
    /\ Owner \in members
    /\ \/ inviteWorkspaceMember(p) \/ issueInvitationLink(p)
       \/ cancelWorkspaceMemberInvitation(p) \/ removeWorkspaceMember(p)

(* The platform's page: a member's invitation, the owner's link.           *)
PlatformAdmin(p) == inviteWorkspaceMember(p) \/ (p = Owner /\ issueInvitationLink(p))

Next ==
    \/ \E c \in Couriers : ClaimDelivery(c) \/ SendInvitation(c) \/ RecordDelivery(c) \/ CourierDies(c)
    \/ afterAcceptInvitation \/ reconcilePendingOwnerInvitations \/ Review
    \/ \E p \in People : createUser(p) \/ Accept(p) \/ Expire(p) \/ WorkspaceAdmin(p) \/ PlatformAdmin(p)

(* The schedule reconciles; a delivery that runs comes to its end.         *)
Fairness ==
    /\ WF_vars(reconcilePendingOwnerInvitations)
    /\ \A c \in Couriers : WF_vars(SendInvitation(c) \/ RecordDelivery(c))

Spec     == Init /\ [][Next]_vars
FairSpec == Spec /\ Fairness

-----------------------------------------------------------------------------
TypeOK ==
    /\ run \in Deliverable \cup {"sending_email", "accepted"}
    /\ courier \in [Couriers -> {"idle", "claimed", "sent", "failed"}]
    /\ invitation \in [People -> {"none", "pending", "accepted", "canceled"}]
    /\ {live, members, accounts} \subseteq SUBSET People
    /\ {bound, hook, approved, revived} \subseteq BOOLEAN
    /\ sends \in 0..MaxSends /\ faults \in 0..MaxFaults

(* Members and live invitations never exceed the seats, so whoever holds   *)
(* an invitation finds a place, until an expired one is renewed: renewing  *)
(* does not count again.                                                   *)
SeatsHold == revived \/ Taken <= Seats

(* An owner who accepted ends up bound, with a closed run, whatever        *)
(* delivery writes over it afterwards and whether or not the hook ran.     *)
Bound == invitation[Owner] = "accepted" => bound /\ run = "accepted"
OwnerIsBound == <>[]Bound
=============================================================================
