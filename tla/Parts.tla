------------------------------- MODULE Parts -------------------------------
(***************************************************************************)
(* The modules around the send path.  They share no state, so that the     *)
(* safety of all is that of each: a behaviour of this module is one of one *)
(* of them.  "part" says which, and the variables stand for its own, in    *)
(* their order; those it has no use for are 0.                             *)
(***************************************************************************)
EXTENDS Schema, Integers, Sequences

CONSTANTS
    \* in several parts
    Workers, Requests, Keys, Workspaces, MaxFaults, MoreFaults, MaxEvents, MaxTime,
    \* requests of acceptance
    Nothing, ConsoleKeys, Bodies, AttachedFiles, FilesOf, RateLimit, Limits, MaxMinute,
    \* attachments
    Files, Typed, Scanners, MaxVerdicts, MoreVerdicts,
    \* warmup
    Steps, Policy, HealthWindow, DefaultLimit, Pins, MaxDay,
    \* checkout, the catalog of prices
    Clicks, Lifetime, MinAhead, MaxAttempts, MaxTick,
    Prices, Price, Countries, France, MaxChanges,
    \* provider resources and calls, secrets
    Bindings, MaxOps, FewOps, MaxLost, SesRuns, Environment, MaxTries, Secrets,
    Callers,
    \* templates, access, members, domains, applications, endpoints
    Editors, MaxVersions, Users, Admin, Owned, MaxOrgs,
    People, Owner, Couriers, Seats, MaxSends,
    Names, Under, Forms, FreeName,
    Addresses, Unhashed, Reviewers, Submissions, RateWindow, PerIp, Global,
    Actions, Interval, MaxLog,
    \* customer webhooks, provider events
    Deliveries, Unclaimed, Dead, WebhookAttempts, RetryDelay, Lease,
    CallTimeout, CallVisibility, Skew, Toggling,
    Events, Invalid, Sent, TagOf, IdOf, Records, Invocations, BatchSize, MaxReceive, Timeout, Visibility,
    \* deletion, erasure, export
    Messages, LiveKeys, Senders, Purgers, Pilot, LateEvents, Checkouts,
    MaxInserts, MaxDeletes, Ids, PageSize, NewestOnly, MaxDate

VARIABLES part, v1, v2, v3, v4, v5, v6, v7, v8, v9, v10, v11, v12, v13, v14, v15, v16

vars == <<part, v1, v2, v3, v4, v5, v6, v7, v8, v9, v10, v11, v12, v13, v14, v15, v16>>

(* The variables after the n-th, when a part has n.                        *)
After13 == <<v14, v15, v16>>
After12 == <<v13, After13>>
After11 == <<v12, After12>>
After10 == <<v11, After11>>
After9 == <<v10, After10>>
After8 == <<v9, After9>>
After7 == <<v8, After8>>
After6 == <<v7, After7>>
After5 == <<v6, After6>>
After4 == <<v5, After5>>
Off13 == v14 = 0 /\ v15 = 0 /\ v16 = 0
Off12 == v13 = 0 /\ Off13
Off11 == v12 = 0 /\ Off12
Off10 == v11 = 0 /\ Off11
Off9 == v10 = 0 /\ Off10
Off8 == v9 = 0 /\ Off9
Off7 == v8 = 0 /\ Off8
Off6 == v7 = 0 /\ Off7
Off5 == v6 = 0 /\ Off6
Off4 == v5 = 0 /\ Off5

Acc == INSTANCE Acceptance WITH
    None <- Nothing, Files <- AttachedFiles,
    call <- v1, answer <- v2, created <- v3, record <- v4, owner <- v5,
    ready <- v6, used <- v7, limit <- v8, minute <- v9, spent <- v10,
    paid <- v11, faults <- v12
Att == INSTANCE Attachments WITH
    row <- v1, owned <- v2, object <- v3, window <- v4, expired <- v5,
    verdicts <- v6, scanner <- v7, message <- v8, purge <- v9, erased <- v10,
    condemned <- v11, faults <- v12
Ver == INSTANCE Attachments WITH
    Files <- Typed, MaxVerdicts <- MoreVerdicts,
    row <- v1, owned <- v2, object <- v3, window <- v4, expired <- v5,
    verdicts <- v6, scanner <- v7, message <- v8, purge <- v9, erased <- v10,
    condemned <- v11, faults <- v12
Wrm == INSTANCE Warmup WITH
    Window <- HealthWindow,
    status <- v1, reason <- v2, stage <- v3, limit <- v4, pinned <- v5,
    approvedAt <- v6, advancedAt <- v7, usage <- v8, today <- v9,
    worker <- v10, happened <- v11
Chk == INSTANCE Checkout WITH
    attempts <- v1, sessions <- v2, events <- v3, local <- v4, click <- v5,
    now <- v6, faults <- v7
Cat == INSTANCE StripeCatalog WITH
    env <- v1, archived <- v2, registrations <- v3, attempt <- v4,
    subscription <- v5, local <- v6, changed <- v7, changes <- v8
Pmk == INSTANCE Provisioning WITH
    MaxFaults <- MoreFaults, MaxLost <- 0,
    binding <- v1, account <- v2, servers <- v3, param <- v4, domains <- v5,
    webhooks <- v6, late <- v7, lock <- v8, worker <- v9, reading <- v10,
    ops <- v11, faults <- v12, lost <- v13
Lck == INSTANCE Provisioning WITH
    MaxOps <- FewOps, MaxFaults <- 0,
    binding <- v1, account <- v2, servers <- v3, param <- v4, domains <- v5,
    webhooks <- v6, late <- v7, lock <- v8, worker <- v9, reading <- v10,
    ops <- v11, faults <- v12, lost <- v13
Ses == INSTANCE SesDomain WITH
    Runs <- SesRuns, MaxFaults <- MoreFaults,
    identity <- v1, mailFrom <- v2, resources <- v3, recorded <- v4,
    run <- v5, faults <- v6
Prv == INSTANCE ProviderCall WITH
    provider <- v1, enabled <- v2, cached <- v3, status <- v4, pc <- v5,
    answer <- v6, sent <- v7, taken <- v8, tries <- v9
Sec == INSTANCE RuntimeSecrets WITH
    MaxFaults <- MoreFaults,
    env <- v1, loading <- v2, running <- v3, call <- v4, faults <- v5
Tpl == INSTANCE Templates WITH
    status <- v1, versions <- v2, current <- v3, profile <- v4, editor <- v5,
    served <- v6, passed <- v7
Acs == INSTANCE Access WITH
    People <- Users,
    org <- v1, deleted <- v2, orgs <- v3, made <- v4, members <- v5,
    active <- v6, request <- v7, since <- v8
Dom == INSTANCE Domains WITH
    Free <- FreeName,
    approved <- v1, owner <- v2, form <- v3, lock <- v4
Apl == INSTANCE Applications WITH
    Forms <- Submissions, Window <- RateWindow,
    form <- v1, reviewed <- v2, lock <- v3, clock <- v4
End == INSTANCE Endpoints WITH
    endpoint <- v1, lock <- v2, action <- v3, known <- v4, log <- v5, now <- v6
Whk == INSTANCE WebhookDelivery WITH
    Nobody <- Unclaimed,
    MaxAttempts <- WebhookAttempts, Timeout <- CallTimeout, Visibility <- CallVisibility,
    MaxFaults <- MoreFaults,
    endpoint <- v1, state <- v2, attempt <- v3, due <- v4, claim <- v5,
    claimAge <- v6, queue <- v7, run <- v8, calls <- v9, faults <- v10
Evp == INSTANCE EventPipeline WITH
    Messages <- Sent, Tag <- TagOf, Id <- IdOf, MaxFaults <- MoreFaults, MaxOps <- FewOps,
    record <- v1, run <- v2, ingested <- v3, applied <- v4, stored <- v5,
    standby <- v6, faults <- v7, ops <- v8
Mem == INSTANCE Membership WITH
    run <- v1, courier <- v2, invitation <- v3, live <- v4, members <- v5,
    accounts <- v6, bound <- v7, hook <- v8, approved <- v9, revived <- v10,
    sends <- v11, faults <- v12
Wsd == INSTANCE WorkspaceDeletion WITH
    Keys <- LiveKeys, Users <- Senders,
    workspace <- v1, gate <- v2, keys <- v3, owner <- v4, page <- v5,
    request <- v6, message <- v7, worker <- v8, handed <- v9, job <- v10,
    local <- v11, stripe <- v12, session <- v13, events <- v14, purger <- v15,
    faults <- v16
Ers == INSTANCE Erasure WITH
    rows <- v1, cleared <- v2, role <- v3, place <- v4, late <- v5,
    inserts <- v6, deletes <- v7
Exp == INSTANCE Export WITH
    MaxTime <- MaxDate,
    created <- v1, now <- v2, section <- v3, cursor <- v4, out <- v5,
    whole <- v6, refused <- v7

ASSUME Assumptions ==
    /\ Acc!AcceptanceAssumption
    /\ Att!AttachmentsAssumption
    /\ Ver!AttachmentsAssumption
    /\ Wrm!WarmupAssumption
    /\ Chk!CheckoutAssumption
    /\ Cat!CatalogAssumption
    /\ Pmk!ProvisioningAssumption
    /\ Lck!ProvisioningAssumption
    /\ Ses!SesDomainAssumption
    /\ Prv!ProviderCallAssumption
    /\ Sec!SecretsAssumption
    /\ Tpl!TemplatesAssumption
    /\ Acs!AccessAssumption
    /\ Dom!DomainsAssumption
    /\ Apl!ApplicationsAssumption
    /\ End!EndpointsAssumption
    /\ Whk!WebhookAssumption
    /\ Evp!PipelineAssumption
    /\ Mem!MembershipAssumption
    /\ Wsd!DeletionAssumption
    /\ Ers!ErasureAssumption
    /\ Exp!ExportAssumption

-----------------------------------------------------------------------------
Init ==
    \/ part = "acceptance"   /\ Acc!Init /\ Off12
    \/ part = "attachments"  /\ Att!Init /\ Off12
    \/ part = "verdicts"     /\ Ver!Init /\ Off12
    \/ part = "warmup"       /\ Wrm!Init /\ Off11
    \/ part = "checkout"     /\ Chk!Init /\ Off7
    \/ part = "catalog"      /\ Cat!Init /\ Off8
    \/ part = "postmark"     /\ Pmk!Init /\ Off13
    \/ part = "lock lost"    /\ Lck!Init /\ Off13
    \/ part = "ses"          /\ Ses!Init /\ Off6
    \/ part = "call"         /\ Prv!Init /\ Off9
    \/ part = "secrets"      /\ Sec!Init /\ Off5
    \/ part = "templates"    /\ Tpl!Init /\ Off7
    \/ part = "access"       /\ Acs!Init /\ Off8
    \/ part = "domains"      /\ Dom!Init /\ Off4
    \/ part = "applications" /\ Apl!Init /\ Off4
    \/ part = "endpoints"    /\ End!Init /\ Off6
    \/ part = "webhook"      /\ Whk!Init /\ Off10
    \/ part = "events"       /\ Evp!Init /\ Off8
    \/ part = "members"      /\ Mem!Init /\ Off12
    \/ part = "deletion"     /\ Wsd!Init
    \/ part = "erasure"      /\ Ers!Init /\ Off7
    \/ part = "export"       /\ Exp!Init /\ Off7

Next ==
    /\ UNCHANGED part
    /\ \/ part = "acceptance"   /\ Acc!Next /\ UNCHANGED After12
       \/ part = "attachments"  /\ Att!Next /\ UNCHANGED After12
       \/ part = "verdicts"     /\ Ver!Next /\ UNCHANGED After12
       \/ part = "warmup"       /\ Wrm!Next /\ UNCHANGED After11
       \/ part = "checkout"     /\ Chk!Next /\ UNCHANGED After7
       \/ part = "catalog"      /\ Cat!Next /\ UNCHANGED After8
       \/ part = "postmark"     /\ Pmk!Next /\ UNCHANGED After13
       \/ part = "lock lost"    /\ Lck!Next /\ UNCHANGED After13
       \/ part = "ses"          /\ Ses!Next /\ UNCHANGED After6
       \/ part = "call"         /\ Prv!Next /\ UNCHANGED After9
       \/ part = "secrets"      /\ Sec!Next /\ UNCHANGED After5
       \/ part = "templates"    /\ Tpl!Next /\ UNCHANGED After7
       \/ part = "access"       /\ Acs!Next /\ UNCHANGED After8
       \/ part = "domains"      /\ Dom!Next /\ UNCHANGED After4
       \/ part = "applications" /\ Apl!Next /\ UNCHANGED After4
       \/ part = "endpoints"    /\ End!Next /\ UNCHANGED After6
       \/ part = "webhook"      /\ Whk!Next /\ UNCHANGED After10
       \/ part = "events"       /\ Evp!Next /\ UNCHANGED After8
       \/ part = "members"      /\ Mem!Next /\ UNCHANGED After12
       \/ part = "deletion"     /\ Wsd!Next
       \/ part = "erasure"      /\ Ers!Next /\ UNCHANGED After7
       \/ part = "export"       /\ Exp!Next /\ UNCHANGED After7

Spec == Init /\ [][Next]_vars

-----------------------------------------------------------------------------
In(p) == part = p

(* The types of every part.                                                *)
TypeOK ==
    /\ In("acceptance") => Acc!TypeOK
    /\ In("attachments") => Att!TypeOK
    /\ In("verdicts") => Ver!TypeOK
    /\ In("warmup") => Wrm!TypeOK
    /\ In("checkout") => Chk!TypeOK
    /\ In("catalog") => Cat!TypeOK
    /\ In("postmark") => Pmk!TypeOK
    /\ In("lock lost") => Lck!TypeOK
    /\ In("ses") => Ses!TypeOK
    /\ In("call") => Prv!TypeOK
    /\ In("secrets") => Sec!TypeOK
    /\ In("templates") => Tpl!TypeOK
    /\ In("access") => Acs!TypeOK
    /\ In("domains") => Dom!TypeOK
    /\ In("applications") => Apl!TypeOK
    /\ In("endpoints") => End!TypeOK
    /\ In("webhook") => Whk!TypeOK
    /\ In("events") => Evp!TypeOK
    /\ In("members") => Mem!TypeOK
    /\ In("deletion") => Wsd!TypeOK
    /\ In("erasure") => Ers!TypeOK
    /\ In("export") => Exp!TypeOK

(* Concurrent requests of one workspace: one message for each key, answers *)
(* that tell the truth, attachments of one message, counters that agree    *)
(* with the messages, rates that hold (emails/accept.ts).                  *)
AcceptedOnce ==
    In("acceptance") => /\ Acc!OneMessagePerKey /\ Acc!AnswersNameTheRequest /\ Acc!FilesFollowTheMessage
                        /\ Acc!ReservationsAreMessages /\ Acc!WithinRate

(* A limit that nobody pinned was earned.                                  *)
LimitIsEarned == In("warmup") => Wrm!LimitIsEarned

(* One checkout of the workspace can be paid at a time.                    *)
OneOpenSession == In("checkout") => Chk!OneOpenSession

(* Provider resources are created once, by their owner, and what the rows  *)
(* say of them is true, for both providers.                                *)
ProviderResourcesAreOurs ==
    /\ In("postmark") => Pmk!CreatedOnce /\ Pmk!CredentialIsOfServer
    /\ In("lock lost") => Lck!CreatedOnce /\ Lck!CredentialIsOfServer
    /\ In("ses") => Ses!IdentityHasOneOwner

(* The providers' answers never let the worker send or lose a message.     *)
TakenOnce == In("call") => Prv!TakenOnce

(* Configuration that is read when it is used: what was paid under it is   *)
(* accepted, and secrets are loaded before the code that needs them runs.  *)
ConfigurationHolds ==
    /\ In("catalog") => Cat!PaidIsAccepted
    /\ In("secrets") => Sec!SecretsAreLoaded

(* What is served was approved.                                            *)
ServedWasApproved == In("templates") => Tpl!ServedWasApproved

(* Repeated, late and overlapping deliveries: a webhook has one sender,    *)
(* which counts every call; a provider event is applied once, and buried   *)
(* for its own fault only; a clean attachment was scanned and verified.    *)
HandledOnce ==
    /\ In("webhook") => Whk!OneSender /\ Whk!AttemptIsCurrent /\ Whk!CallsAreBounded
    /\ In("events") => Evp!HandledOnce /\ Evp!OnlyBadIsBuried
    /\ In("attachments") => Att!CleanWasVerified
    /\ In("verdicts") => Ver!CleanWasVerified

(* A deleted workspace: no usage is lost, nothing comes back, no statement *)
(* of the purge is refused or unbounded.                                   *)
DeletionIsClean ==
    /\ In("deletion") => Wsd!UsageIsReported /\ Wsd!GoneIsEmpty
    /\ In("erasure") => Ers!PurgeIsNeverRefused /\ Ers!NothingIsLeft /\ Ers!BatchesAreBounded

(* An export has every row once, whatever is written meanwhile.            *)
ExportIsExact == In("export") => Exp!ExportIsExact

(* What a request checked still holds when it acts: membership, seats,     *)
(* names of domains, rates of applications, the trail of an endpoint.      *)
ChecksStillHold ==
    /\ In("access") => Acs!OrganizationsHaveWorkspaces /\ Acs!RemovedStayOut
    /\ In("members") => Mem!SeatsHold
    /\ In("domains") => Dom!DomainsAreDisjoint
    /\ In("applications") => Apl!ThrottledInAnyWindow
    /\ In("endpoints") => End!TrailIsTrue

(* No step undoes a decision, or acts on one that was changed since.       *)
DecisionsStand ==
    [][/\ In("acceptance") => Acc!BeyondOnlyInFlight
       /\ In("attachments") => Att!CondemnedIsNotLoaded /\ Att!NeverRevived
       /\ In("verdicts") => Ver!CondemnedIsNotLoaded /\ Ver!NeverRevived
       /\ In("warmup") => Wrm!PinnedIsKept /\ Wrm!WaitedAtStage /\ Wrm!CleanAtStage
       /\ In("postmark") => Pmk!OperatorsPrevail
       /\ In("lock lost") => Lck!OperatorsPrevail
       /\ In("applications") => Apl!FirstReviewerKept
       /\ In("webhook") => Whk!SettledIsFinal /\ Whk!NotBeforeDue
       /\ In("deletion") => Wsd!NothingSentAfterDeletion /\ Wsd!NoAccessAfterDeletion
       /\ In("erasure") => Ers!PeopleOutliveWorkspaces /\ Ers!InvitationsOutliveInviters /\ Ers!LedgerIsKept]_vars
=============================================================================
