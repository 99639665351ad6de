----------------------------- MODULE SesDomain ------------------------------
(***************************************************************************)
(* Amazon SES resources of one domain (domains/provision-ses-domain.ts):   *)
(* a sequence of idempotent calls, repeated by the queue from the start    *)
(* after any failure, possibly by two invocations at once.  The account of *)
(* AWS is shared: the other environment may have, or create, the identity  *)
(* of the same domain, and one older than both bears no tag.               *)
(***************************************************************************)
EXTENDS Integers, Sequences, SequencesExt

CONSTANTS
    Runs,        \* invocations
    Environment, \* the environment of each
    MaxFaults    \* bound: calls that fail, before or after their effect

Environments == {"dev", "prod"}
SesDomainAssumption == Environment \in [Runs -> Environments] /\ MaxFaults \in Nat

VARIABLES
    identity,  \* SES: tag of the domain's identity, if there is one
    mailFrom,  \* SES: environments that have set its MAIL FROM
    resources, \* SES: the other resources, per environment
    recorded,  \* workspace_provider_accounts of each environment: whose tenant,
               \* for a database may be a copy of the other's
    run,       \* the next call of each invocation
    faults

vars == <<identity, mailFrom, resources, recorded, run, faults>>

-----------------------------------------------------------------------------
Absent   == "absent"
Untagged == "untagged"
Calls    == <<"identity", "tag", "tenant", "policy", "set", "mailFrom", "destination", "attachIdentity", "attachSet">>
Kinds    == {"tenant", "policy", "set", "destination", "attachIdentity", "attachSet"}

At(r, c) == run[r] \in DOMAIN Calls /\ Calls[run[r]] = c
Done(r)  == run[r] = Len(Calls) + 1
Resting  == 0
Refused  == -1
Owns(e, k) == k \in resources[e]

(* An identity of another environment, or of nobody, is never adopted.     *)
Ours(e)    == identity = e

(* A tenant of another name is never replaced.                             *)
SameTenant(e) == recorded[e] \in {Absent, e}

-----------------------------------------------------------------------------
Init ==
    /\ identity \in {Absent, Untagged}
    /\ mailFrom = {} /\ resources = [e \in Environments |-> {}] /\ recorded \in [Environments -> {Absent} \cup Environments]
    /\ run = [r \in Runs |-> Resting] /\ faults = 0

Advance(r) == run' = [run EXCEPT ![r] = @ + 1]

provisionSesDomain(r) ==
    /\ run[r] = Resting
    /\ run' = [run EXCEPT ![r] = IF SameTenant(Environment[r]) THEN 1 ELSE Refused]
    /\ UNCHANGED <<identity, mailFrom, resources, recorded, faults>>

(* An identity that exists is left as it is.                               *)
CreateIdentity(r) ==
    /\ At(r, "identity") /\ Advance(r)
    /\ identity' = IF identity = Absent THEN Environment[r] ELSE identity
    /\ UNCHANGED <<mailFrom, resources, recorded, faults>>

CheckTag(r) ==
    /\ At(r, "tag")
    /\ IF Ours(Environment[r]) THEN Advance(r) ELSE run' = [run EXCEPT ![r] = Refused]
    /\ UNCHANGED <<identity, mailFrom, resources, recorded, faults>>

(* Created, or found to exist already.                                     *)
ignoreExisting(e, k) == [resources EXCEPT ![e] = @ \cup {k}]

CreateResource(r, k) ==
    /\ At(r, k) /\ k \in Kinds
    /\ resources' = ignoreExisting(Environment[r], k)
    /\ Advance(r)
    /\ UNCHANGED <<identity, mailFrom, recorded, faults>>

PutMailFrom(r) ==
    /\ At(r, "mailFrom") /\ Advance(r)
    /\ mailFrom' = mailFrom \cup {Environment[r]}
    /\ UNCHANGED <<identity, resources, recorded, faults>>

(* The caller records the tenant with the binding's new status.            *)
Record(r) ==
    /\ Done(r)
    /\ recorded' = [recorded EXCEPT ![Environment[r]] = Environment[r]]
    /\ run' = [run EXCEPT ![r] = Refused]
    /\ UNCHANGED <<identity, mailFrom, resources, faults>>

(* A call fails, or the invocation is out of time: the queue starts over.  *)
Fail(r) ==
    /\ run[r] > 0 /\ faults < MaxFaults
    /\ faults' = faults + 1 /\ run' = [run EXCEPT ![r] = Resting]
    /\ UNCHANGED <<identity, mailFrom, resources, recorded>>

Again(r) ==
    /\ run[r] = Refused /\ faults < MaxFaults
    /\ faults' = faults + 1 /\ run' = [run EXCEPT ![r] = Resting]
    /\ UNCHANGED <<identity, mailFrom, resources, recorded>>

Next ==
    \E r \in Runs :
        \/ provisionSesDomain(r) \/ CreateIdentity(r) \/ CheckTag(r) \/ PutMailFrom(r)
        \/ Record(r) \/ Fail(r) \/ Again(r)
        \/ \E k \in Kinds : CreateResource(r, k)

Spec == Init /\ [][Next]_vars

-----------------------------------------------------------------------------
TypeOK ==
    /\ identity \in {Absent, Untagged} \cup Environments
    /\ mailFrom \subseteq Environments /\ resources \in [Environments -> SUBSET Kinds]
    /\ recorded \in [Environments -> {Absent} \cup Environments]
    /\ run \in [Runs -> Refused..(Len(Calls) + 1)] /\ faults \in 0..MaxFaults

(* However invocations of both environments overlap, fail and start over:  *)
(* the domain's identity is changed, and attached to a tenant, by the one  *)
(* environment that created it only, and an invocation that comes to its   *)
(* end leaves every resource in place.                                     *)
IdentityHasOneOwner ==
    /\ \A e \in Environments : e \in mailFrom \/ Owns(e, "attachIdentity") => identity = e
    /\ \A r \in Runs : Done(r) => resources[Environment[r]] = Kinds /\ Environment[r] \in mailFrom
=============================================================================
