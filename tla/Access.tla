------------------------------- MODULE Access -------------------------------
(***************************************************************************)
(* How a request of the console finds its workspace                        *)
(* (lib/current-workspace.ts): the organization its session remembers, or  *)
(* one the person is a member of, or, for the address of the platform's    *)
(* administrator, the only workspace there is, which it then adopts.  Each *)
(* statement is a step; meanwhile others accept invitations, remove        *)
(* members and delete workspaces (features/members/service.ts,             *)
(* features/workspace-data/deletion.ts).                                   *)
(***************************************************************************)
EXTENDS Integers, FiniteSets

CONSTANTS
    Workspaces,
    People,
    Admin,     \* the address of AUTH_BOOTSTRAP_EMAIL
    Requests,  \* requests that run together
    Owned,     \* workspaces that were provisioned with an organization
    MaxOrgs    \* bound: organizations ever created

AccessAssumption ==
    /\ Admin \in People /\ Owned \subseteq Workspaces /\ IsFiniteSet(Owned)
    /\ MaxOrgs \in Nat /\ Cardinality(Owned) <= MaxOrgs

VARIABLES
    org,      \* organization of each workspace, 0 if none
    deleted,  \* workspaces.deleted_at
    orgs,     \* auth_organizations; those beyond Cardinality(Owned) have the slug mail-by-yodev
    made,     \* organizations created so far
    members,  \* auth_members: <<person, organization>>
    active,   \* auth_sessions.active_organization_id of each person
    request,  \* what each request knows
    since     \* organizations each request's person was in, at some time since it began

vars == <<org, deleted, orgs, made, members, active, request, since>>

-----------------------------------------------------------------------------
NoOrg == 0
NoWs  == "none"
Idle  == [pc |-> "idle", who |-> Admin, org |-> NoOrg, found |-> NoWs]

At(r, pc)     == request[r].pc = pc
Who(r)        == request[r].who
Go(r, pc, o)  == request' = [request EXCEPT ![r].pc = pc, ![r].org = o]
OrgsOf(p)     == {o \in orgs : <<p, o>> \in members}
Live          == Workspaces \ deleted
Slugged       == {o \in orgs : o > Cardinality(Owned)}

(* The unique index on auth_organizations.slug.                            *)
SlugFree    == Slugged = {}

(* A session may remember an organization its person has left.             *)
IsMemberBug(p, o) == TRUE
IsMember(p, o)    == <<p, o>> \in members

Found(o) == {w \in Live : org[w] = o}

(* Requests of p that run see that it is a member of o.                    *)
Joined(p, o) == since' = [r \in Requests |-> IF ~At(r, "idle") /\ Who(r) = p THEN since[r] \cup {o} ELSE since[r]]

-----------------------------------------------------------------------------
(* Provisioned workspaces have an organization and an owner, and with no   *)
(* provisioned one the single workspace waits for its administrator.       *)
Init ==
    /\ \E number \in [Owned -> 1..Cardinality(Owned)] :
         /\ \A v, w \in Owned : v # w => number[v] # number[w]
         /\ org = [w \in Workspaces |-> IF w \in Owned THEN number[w] ELSE NoOrg]
    /\ deleted = {} /\ orgs = 1..Cardinality(Owned) /\ made = Cardinality(Owned)
    /\ \E owner \in [1..Cardinality(Owned) -> People \ {Admin}] : members = {<<owner[o], o>> : o \in orgs}
    /\ active = [p \in People |-> NoOrg]
    /\ request = [r \in Requests |-> Idle] /\ since = [r \in Requests |-> {}]

Arrive(r, p) ==
    /\ At(r, "idle")
    /\ request' = [request EXCEPT ![r] = [pc |-> IF active[p] = NoOrg THEN "lookup" ELSE "member", who |-> p, org |-> active[p], found |-> NoWs]]
    /\ since' = [since EXCEPT ![r] = OrgsOf(p)]
    /\ UNCHANGED <<org, deleted, orgs, made, members, active>>

(* activeOrganization: any membership; else only the administrator goes on.*)
Lookup(r) ==
    /\ At(r, "lookup")
    /\ \/ \E o \in OrgsOf(Who(r)) : Go(r, "remember", o)
       \/ OrgsOf(Who(r)) = {} /\ Who(r) = Admin /\ Go(r, "bootstrap", NoOrg)
       \/ OrgsOf(Who(r)) = {} /\ Who(r) # Admin /\ Go(r, "refused", NoOrg)
    /\ UNCHANGED <<org, deleted, orgs, made, members, active, since>>

(* The transaction reads; it locks nothing.                                *)
ReadBootstrap(r) ==
    /\ At(r, "bootstrap")
    /\ \/ \E o \in OrgsOf(Admin) : Go(r, "remember", o)
       \/ OrgsOf(Admin) = {} /\ Cardinality(Live) # 1 /\ Go(r, "refused", NoOrg)
       \/ /\ OrgsOf(Admin) = {}
          /\ \E w \in Live : /\ Live = {w}
                             /\ request' = [request EXCEPT ![r].pc = IF org[w] = NoOrg THEN "create" ELSE "join",
                                                           ![r].org = org[w], ![r].found = w]
    /\ UNCHANGED <<org, deleted, orgs, made, members, active, since>>

(* Insert, guarded update, membership: a transaction that fails undoes all.*)
bootstrapOwner(r) ==
    /\ At(r, "create") /\ made < MaxOrgs
    /\ IF SlugFree
       THEN /\ made' = made + 1 /\ orgs' = orgs \cup {made + 1}
            /\ LET w == request[r].found IN
               org' = IF org[w] = NoOrg THEN [org EXCEPT ![w] = made + 1] ELSE org
            /\ members' = members \cup {<<Admin, made + 1>>}
            /\ Go(r, "remember", made + 1) /\ Joined(Admin, made + 1)
       ELSE Go(r, "refused", NoOrg) /\ UNCHANGED <<org, orgs, made, members, since>>
    /\ UNCHANGED <<deleted, active>>

(* The organization may be gone: then the foreign key refuses.             *)
Join(r) ==
    /\ At(r, "join")
    /\ IF request[r].org \in orgs
       THEN members' = members \cup {<<Admin, request[r].org>>} /\ Go(r, "remember", request[r].org)
            /\ Joined(Admin, request[r].org)
       ELSE Go(r, "refused", NoOrg) /\ UNCHANGED <<members, since>>
    /\ UNCHANGED <<org, deleted, orgs, made, active>>

Remember(r) ==
    /\ At(r, "remember")
    /\ active' = [active EXCEPT ![Who(r)] = request[r].org]
    /\ Go(r, "member", request[r].org)
    /\ UNCHANGED <<org, deleted, orgs, made, members, since>>

ReadMembership(r) ==
    /\ At(r, "member")
    /\ Go(r, IF IsMember(Who(r), request[r].org) THEN "workspace" ELSE "refused", request[r].org)
    /\ UNCHANGED <<org, deleted, orgs, made, members, active, since>>

ReadWorkspace(r) ==
    /\ At(r, "workspace")
    /\ \/ Found(request[r].org) = {} /\ Go(r, "refused", NoOrg)
       \/ \E w \in Found(request[r].org) : Go(r, "entered", org[w])
    /\ UNCHANGED <<org, deleted, orgs, made, members, active, since>>

Leave(r) ==
    /\ request[r].pc \in {"refused", "entered"}
    /\ request' = [request EXCEPT ![r] = Idle] /\ since' = [since EXCEPT ![r] = {}]
    /\ UNCHANGED <<org, deleted, orgs, made, members, active>>

-----------------------------------------------------------------------------
(* Better Auth: an accepted invitation, with the session on it; the choice *)
(* of another organization.                                                *)
acceptInvitation(p, o) ==
    /\ o \in orgs /\ p # Admin
    /\ members' = members \cup {<<p, o>>} /\ active' = [active EXCEPT ![p] = o]
    /\ Joined(p, o)
    /\ UNCHANGED <<org, deleted, orgs, made, request>>

setActive(p, o) ==
    /\ <<p, o>> \in members
    /\ active' = [active EXCEPT ![p] = o]
    /\ UNCHANGED <<org, deleted, orgs, made, members, request, since>>

(* The session of the removed keeps its organization.                      *)
removeWorkspaceMember(p, o) ==
    /\ <<p, o>> \in members /\ Cardinality({q \in People : <<q, o>> \in members}) > 1
    /\ members' = members \ {<<p, o>>}
    /\ UNCHANGED <<org, deleted, orgs, made, active, request, since>>

requestWorkspaceDeletion(w) ==
    /\ w \in Live /\ org[w] # NoOrg
    /\ deleted' = deleted \cup {w} /\ org' = [org EXCEPT ![w] = NoOrg]
    /\ orgs' = orgs \ {org[w]}
    /\ members' = {m \in members : m[2] # org[w]}
    /\ active' = [p \in People |-> IF active[p] = org[w] THEN NoOrg ELSE active[p]]
    /\ UNCHANGED <<made, request, since>>

Next ==
    \/ \E r \in Requests : \/ \E p \in People : Arrive(r, p)
                           \/ Lookup(r) \/ ReadBootstrap(r) \/ bootstrapOwner(r) \/ Join(r) \/ Remember(r)
                           \/ ReadMembership(r) \/ ReadWorkspace(r) \/ Leave(r)
    \/ \E p \in People, o \in 1..MaxOrgs : acceptInvitation(p, o) \/ setActive(p, o) \/ removeWorkspaceMember(p, o)
    \/ \E w \in Workspaces : requestWorkspaceDeletion(w)

Spec == Init /\ [][Next]_vars

-----------------------------------------------------------------------------
Pcs == {"idle", "lookup", "bootstrap", "create", "join", "remember", "member", "workspace", "refused", "entered"}

TypeOK ==
    /\ org \in [Workspaces -> 0..MaxOrgs] /\ deleted \subseteq Workspaces
    /\ orgs \subseteq 1..made /\ made \in 0..MaxOrgs
    /\ members \subseteq People \X orgs
    /\ active \in [People -> 0..MaxOrgs]
    /\ request \in [Requests -> [pc : Pcs, who : People, org : 0..MaxOrgs, found : Workspaces \cup {NoWs}]]
    /\ since \in [Requests -> SUBSET (1..MaxOrgs)]

(* Two first requests of the administrator adopt the workspace once: no    *)
(* organization, and so nobody's membership, is left without a workspace.  *)
OrganizationsHaveWorkspaces == \A o \in orgs : \E w \in Workspaces : org[w] = o

(* Whoever was removed stays out, although the session remembers: a request*)
(* enters only where its person was a member after it began.               *)
RemovedStayOut == \A r \in Requests : At(r, "entered") => request[r].org \in since[r]
=============================================================================
