----------------------------- MODULE PartsProofs ----------------------------
(***************************************************************************)
(* The safety of the parts, from that of each: a behaviour of all is one   *)
(* of the part it starts in (the lemmas XRuns), which is that part of the  *)
(* module its proof is in (XIsSame), whose assumptions hold (XFits).       *)
(*                                                                         *)
(* Those modules declare the parameters of their parts under the names the *)
(* parts give them, and where two parts use one name for two things, the   *)
(* name begins with the part in the second.  The jobs whose lock is lost,  *)
(* and the attachments of one file and more verdicts, have other bounds:   *)
(* they are of a second instance.                                          *)
(***************************************************************************)
EXTENDS Parts, TLAPS
-----------------------------------------------------------------------------
(* A behaviour is one of the part it starts in.                            *)
LEMMA AcceptanceRuns == Spec => ([](part = "acceptance") /\ Acc!Spec) \/ [](~(part = "acceptance"))
<1>1. Init => (part = "acceptance" => Acc!Init)
    BY DEF Init
<1>2. [Next]_vars => /\ part = "acceptance" => (part = "acceptance")' /\ [Acc!Next]_Acc!vars
                     /\ ~(part = "acceptance") => ~(part = "acceptance")'
    BY Zenon DEF Next, vars, Acc!vars, Acc!rows, Acc!env
<1> QED
    BY <1>1, <1>2, PTL DEF Spec, Acc!Spec

LEMMA AttachmentsRuns == Spec => ([](part = "attachments") /\ Att!Spec) \/ [](~(part = "attachments"))
<1>1. Init => (part = "attachments" => Att!Init)
    BY DEF Init
<1>2. [Next]_vars => /\ part = "attachments" => (part = "attachments")' /\ [Att!Next]_Att!vars
                     /\ ~(part = "attachments") => ~(part = "attachments")'
    BY Zenon DEF Next, vars, Att!vars, Att!clock
<1> QED
    BY <1>1, <1>2, PTL DEF Spec, Att!Spec

LEMMA VerRuns == Spec => ([](part = "verdicts") /\ Ver!Spec) \/ [](~(part = "verdicts"))
<1>1. Init => (part = "verdicts" => Ver!Init)
    BY DEF Init
<1>2. [Next]_vars => /\ part = "verdicts" => (part = "verdicts")' /\ [Ver!Next]_Ver!vars
                     /\ ~(part = "verdicts") => ~(part = "verdicts")'
    BY Zenon DEF Next, vars, Ver!vars, Ver!clock
<1> QED
    BY <1>1, <1>2, PTL DEF Spec, Ver!Spec

LEMMA WarmupRuns == Spec => ([](part = "warmup") /\ Wrm!Spec) \/ [](~(part = "warmup"))
<1>1. Init => (part = "warmup" => Wrm!Init)
    BY DEF Init
<1>2. [Next]_vars => /\ part = "warmup" => (part = "warmup")' /\ [Wrm!Next]_Wrm!vars
                     /\ ~(part = "warmup") => ~(part = "warmup")'
    BY Zenon DEF Next, vars, Wrm!vars, Wrm!review, Wrm!level
<1> QED
    BY <1>1, <1>2, PTL DEF Spec, Wrm!Spec

LEMMA CheckoutRuns == Spec => ([](part = "checkout") /\ Chk!Spec) \/ [](~(part = "checkout"))
<1>1. Init => (part = "checkout" => Chk!Init)
    BY DEF Init
<1>2. [Next]_vars => /\ part = "checkout" => (part = "checkout")' /\ [Chk!Next]_Chk!vars
                     /\ ~(part = "checkout") => ~(part = "checkout")'
    BY Zenon DEF Next, vars, Chk!vars
<1> QED
    BY <1>1, <1>2, PTL DEF Spec, Chk!Spec

LEMMA StripeCatalogRuns == Spec => ([](part = "catalog") /\ Cat!Spec) \/ [](~(part = "catalog"))
<1>1. Init => (part = "catalog" => Cat!Init)
    BY DEF Init
<1>2. [Next]_vars => /\ part = "catalog" => (part = "catalog")' /\ [Cat!Next]_Cat!vars
                     /\ ~(part = "catalog") => ~(part = "catalog")'
    BY Zenon DEF Next, vars, Cat!vars
<1> QED
    BY <1>1, <1>2, PTL DEF Spec, Cat!Spec

LEMMA ProvisioningRuns == Spec => ([](part = "postmark") /\ Pmk!Spec) \/ [](~(part = "postmark"))
<1>1. Init => (part = "postmark" => Pmk!Init)
    BY DEF Init
<1>2. [Next]_vars => /\ part = "postmark" => (part = "postmark")' /\ [Pmk!Next]_Pmk!vars
                     /\ ~(part = "postmark") => ~(part = "postmark")'
    BY Zenon DEF Next, vars, Pmk!vars, Pmk!rows, Pmk!postmark, Pmk!counts
<1> QED
    BY <1>1, <1>2, PTL DEF Spec, Pmk!Spec

LEMMA LckRuns == Spec => ([](part = "lock lost") /\ Lck!Spec) \/ [](~(part = "lock lost"))
<1>1. Init => (part = "lock lost" => Lck!Init)
    BY DEF Init
<1>2. [Next]_vars => /\ part = "lock lost" => (part = "lock lost")' /\ [Lck!Next]_Lck!vars
                     /\ ~(part = "lock lost") => ~(part = "lock lost")'
    BY Zenon DEF Next, vars, Lck!vars, Lck!rows, Lck!postmark, Lck!counts
<1> QED
    BY <1>1, <1>2, PTL DEF Spec, Lck!Spec

LEMMA SesDomainRuns == Spec => ([](part = "ses") /\ Ses!Spec) \/ [](~(part = "ses"))
<1>1. Init => (part = "ses" => Ses!Init)
    BY DEF Init
<1>2. [Next]_vars => /\ part = "ses" => (part = "ses")' /\ [Ses!Next]_Ses!vars
                     /\ ~(part = "ses") => ~(part = "ses")'
    BY Zenon DEF Next, vars, Ses!vars
<1> QED
    BY <1>1, <1>2, PTL DEF Spec, Ses!Spec

LEMMA ProviderCallRuns == Spec => ([](part = "call") /\ Prv!Spec) \/ [](~(part = "call"))
<1>1. Init => (part = "call" => Prv!Init)
    BY DEF Init
<1>2. [Next]_vars => /\ part = "call" => (part = "call")' /\ [Prv!Next]_Prv!vars
                     /\ ~(part = "call") => ~(part = "call")'
    BY Zenon DEF Next, vars, Prv!vars
<1> QED
    BY <1>1, <1>2, PTL DEF Spec, Prv!Spec

LEMMA RuntimeSecretsRuns == Spec => ([](part = "secrets") /\ Sec!Spec) \/ [](~(part = "secrets"))
<1>1. Init => (part = "secrets" => Sec!Init)
    BY DEF Init
<1>2. [Next]_vars => /\ part = "secrets" => (part = "secrets")' /\ [Sec!Next]_Sec!vars
                     /\ ~(part = "secrets") => ~(part = "secrets")'
    BY Zenon DEF Next, vars, Sec!vars
<1> QED
    BY <1>1, <1>2, PTL DEF Spec, Sec!Spec

LEMMA TemplatesRuns == Spec => ([](part = "templates") /\ Tpl!Spec) \/ [](~(part = "templates"))
<1>1. Init => (part = "templates" => Tpl!Init)
    BY DEF Init
<1>2. [Next]_vars => /\ part = "templates" => (part = "templates")' /\ [Tpl!Next]_Tpl!vars
                     /\ ~(part = "templates") => ~(part = "templates")'
    BY Zenon DEF Next, vars, Tpl!vars
<1> QED
    BY <1>1, <1>2, PTL DEF Spec, Tpl!Spec

LEMMA AccessRuns == Spec => ([](part = "access") /\ Acs!Spec) \/ [](~(part = "access"))
<1>1. Init => (part = "access" => Acs!Init)
    BY DEF Init
<1>2. [Next]_vars => /\ part = "access" => (part = "access")' /\ [Acs!Next]_Acs!vars
                     /\ ~(part = "access") => ~(part = "access")'
    BY Zenon DEF Next, vars, Acs!vars
<1> QED
    BY <1>1, <1>2, PTL DEF Spec, Acs!Spec

LEMMA DomainsRuns == Spec => ([](part = "domains") /\ Dom!Spec) \/ [](~(part = "domains"))
<1>1. Init => (part = "domains" => Dom!Init)
    BY DEF Init
<1>2. [Next]_vars => /\ part = "domains" => (part = "domains")' /\ [Dom!Next]_Dom!vars
                     /\ ~(part = "domains") => ~(part = "domains")'
    BY Zenon DEF Next, vars, Dom!vars
<1> QED
    BY <1>1, <1>2, PTL DEF Spec, Dom!Spec

LEMMA ApplicationsRuns == Spec => ([](part = "applications") /\ Apl!Spec) \/ [](~(part = "applications"))
<1>1. Init => (part = "applications" => Apl!Init)
    BY DEF Init
<1>2. [Next]_vars => /\ part = "applications" => (part = "applications")' /\ [Apl!Next]_Apl!vars
                     /\ ~(part = "applications") => ~(part = "applications")'
    BY Zenon DEF Next, vars, Apl!vars
<1> QED
    BY <1>1, <1>2, PTL DEF Spec, Apl!Spec

LEMMA EndpointsRuns == Spec => ([](part = "endpoints") /\ End!Spec) \/ [](~(part = "endpoints"))
<1>1. Init => (part = "endpoints" => End!Init)
    BY DEF Init
<1>2. [Next]_vars => /\ part = "endpoints" => (part = "endpoints")' /\ [End!Next]_End!vars
                     /\ ~(part = "endpoints") => ~(part = "endpoints")'
    BY Zenon DEF Next, vars, End!vars
<1> QED
    BY <1>1, <1>2, PTL DEF Spec, End!Spec

LEMMA WebhookDeliveryRuns == Spec => ([](part = "webhook") /\ Whk!Spec) \/ [](~(part = "webhook"))
<1>1. Init => (part = "webhook" => Whk!Init)
    BY DEF Init
<1>2. [Next]_vars => /\ part = "webhook" => (part = "webhook")' /\ [Whk!Next]_Whk!vars
                     /\ ~(part = "webhook") => ~(part = "webhook")'
    BY Zenon DEF Next, vars, Whk!vars, Whk!delivery
<1> QED
    BY <1>1, <1>2, PTL DEF Spec, Whk!Spec

LEMMA EventPipelineRuns == Spec => ([](part = "events") /\ Evp!Spec) \/ [](~(part = "events"))
<1>1. Init => (part = "events" => Evp!Init)
    BY DEF Init
<1>2. [Next]_vars => /\ part = "events" => (part = "events")' /\ [Evp!Next]_Evp!vars
                     /\ ~(part = "events") => ~(part = "events")'
    BY Zenon DEF Next, vars, Evp!vars, Evp!effects
<1> QED
    BY <1>1, <1>2, PTL DEF Spec, Evp!Spec

LEMMA MembershipRuns == Spec => ([](part = "members") /\ Mem!Spec) \/ [](~(part = "members"))
<1>1. Init => (part = "members" => Mem!Init)
    BY DEF Init
<1>2. [Next]_vars => /\ part = "members" => (part = "members")' /\ [Mem!Next]_Mem!vars
                     /\ ~(part = "members") => ~(part = "members")'
    BY Zenon DEF Next, vars, Mem!vars, Mem!owner, Mem!people, Mem!counts
<1> QED
    BY <1>1, <1>2, PTL DEF Spec, Mem!Spec

LEMMA WorkspaceDeletionRuns == Spec => ([](part = "deletion") /\ Wsd!Spec) \/ [](~(part = "deletion"))
<1>1. Init => (part = "deletion" => Wsd!Init)
    BY DEF Init
<1>2. [Next]_vars => /\ part = "deletion" => (part = "deletion")' /\ [Wsd!Next]_Wsd!vars
                     /\ ~(part = "deletion") => ~(part = "deletion")'
    BY Zenon DEF Next, vars, Wsd!vars, Wsd!tenant, Wsd!access, Wsd!sending, Wsd!billing
<1> QED
    BY <1>1, <1>2, PTL DEF Spec, Wsd!Spec

LEMMA ErasureRuns == Spec => ([](part = "erasure") /\ Ers!Spec) \/ [](~(part = "erasure"))
<1>1. Init => (part = "erasure" => Ers!Init)
    BY DEF Init
<1>2. [Next]_vars => /\ part = "erasure" => (part = "erasure")' /\ [Ers!Next]_Ers!vars
                     /\ ~(part = "erasure") => ~(part = "erasure")'
    BY Zenon DEF Next, vars, Ers!vars
<1> QED
    BY <1>1, <1>2, PTL DEF Spec, Ers!Spec

LEMMA ExportRuns == Spec => ([](part = "export") /\ Exp!Spec) \/ [](~(part = "export"))
<1>1. Init => (part = "export" => Exp!Init)
    BY DEF Init
<1>2. [Next]_vars => /\ part = "export" => (part = "export")' /\ [Exp!Next]_Exp!vars
                     /\ ~(part = "export") => ~(part = "export")'
    BY Zenon DEF Next, vars, Exp!vars
<1> QED
    BY <1>1, <1>2, PTL DEF Spec, Exp!Spec
-----------------------------------------------------------------------------
(* What no step of a part may do.                                          *)
Stands ==
    /\ In("acceptance") => Acc!BeyondOnlyInFlight
    /\ In("attachments") => Att!CondemnedIsNotLoaded /\ Att!NeverRevived
    /\ In("verdicts") => Ver!CondemnedIsNotLoaded /\ Ver!NeverRevived
    /\ In("warmup") => Wrm!PinnedIsKept /\ Wrm!WaitedAtStage /\ Wrm!CleanAtStage
    /\ In("postmark") => Pmk!OperatorsPrevail
    /\ In("lock lost") => Lck!OperatorsPrevail
    /\ In("applications") => Apl!FirstReviewerKept
    /\ In("webhook") => Whk!SettledIsFinal /\ Whk!NotBeforeDue
    /\ In("deletion") => Wsd!NothingSentAfterDeletion /\ Wsd!NoAccessAfterDeletion
    /\ In("erasure") => Ers!PeopleOutliveWorkspaces /\ Ers!InvitationsOutliveInviters /\ Ers!LedgerIsKept
-----------------------------------------------------------------------------
(* The parts on the way of a message.                                      *)
Msg == INSTANCE MessageProofs WITH
    None <- Nothing, Files <- AttachedFiles, call <- v1, answer <- v2,
    created <- v3, record <- v4, owner <- v5, ready <- v6, used <- v7,
    limit <- v8, minute <- v9, spent <- v10, paid <- v11, faults <- v12,
    status <- v1, versions <- v2, current <- v3, profile <- v4, editor <- v5,
    served <- v6, passed <- v7, Window <- HealthWindow, reason <- v2,
    stage <- v3, wrmLimit <- v4, pinned <- v5, approvedAt <- v6,
    advancedAt <- v7, usage <- v8, today <- v9, worker <- v10, happened <- v11,
    provider <- v1, enabled <- v2, cached <- v3, prvStatus <- v4, pc <- v5,
    prvAnswer <- v6, sent <- v7, taken <- v8, tries <- v9,
    SecMaxFaults <- MoreFaults, env <- v1, loading <- v2, running <- v3,
    secCall <- v4, secFaults <- v5, PmkMaxFaults <- MoreFaults, MaxLost <- 0,
    binding <- v1, account <- v2, servers <- v3, param <- v4, domains <- v5,
    webhooks <- v6, late <- v7, lock <- v8, pmkWorker <- v9, reading <- v10,
    ops <- v11, lost <- v13, Runs <- SesRuns, SesMaxFaults <- MoreFaults,
    identity <- v1, mailFrom <- v2, resources <- v3, recorded <- v4, run <- v5,
    sesFaults <- v6, AttFiles <- Files, attRow <- v1, owned <- v2, object <- v3,
    window <- v4, expired <- v5, verdicts <- v6, scanner <- v7, message <- v8,
    purge <- v9, erased <- v10, condemned <- v11, Messages <- Sent, Tag <- TagOf,
    Id <- IdOf, EvpMaxFaults <- MoreFaults, EvpMaxOps <- FewOps, evpRecord <- v1,
    evpRun <- v2, ingested <- v3, applied <- v4, stored <- v5, standby <- v6,
    evpFaults <- v7, evpOps <- v8
\* The part "acceptance" is what the proofs are about.
LEMMA AcceptanceIsSame == Acc!Spec => Msg!Acc!Spec
<1>1. Acc!Init => Msg!Acc!Init
    BY Zenon DEF Acc!Init, Msg!Acc!Init, Acc!NoInput, Msg!Acc!NoInput, Acc!Unanswered,
                 Msg!Acc!Unanswered, Acc!Modes, Msg!Acc!Modes
<1>2. [Acc!Next]_Acc!vars => [Msg!Acc!Next]_Msg!Acc!vars
    BY Zenon DEF Acc!Next, Msg!Acc!Next, Acc!vars, Msg!Acc!vars, Acc!authenticateApiKey,
                 Msg!Acc!authenticateApiKey, Acc!sendConsoleTest, Msg!Acc!sendConsoleTest,
                 Acc!Handle, Msg!Acc!Handle, Acc!CommitUnheard, Msg!Acc!CommitUnheard, Acc!Fail,
                 Msg!Acc!Fail, Acc!SetLimit, Msg!Acc!SetLimit, Acc!Spoil, Msg!Acc!Spoil,
                 Acc!NextMinute, Msg!Acc!NextMinute, Acc!PurgeRecord, Msg!Acc!PurgeRecord,
                 Acc!rows, Msg!Acc!rows, Acc!env, Msg!Acc!env, Acc!At, Msg!Acc!At, Acc!Inputs,
                 Msg!Acc!Inputs, Acc!In, Msg!Acc!In, Acc!Lookup, Msg!Acc!Lookup,
                 Acc!consumeWorkspaceRateLimit, Msg!Acc!consumeWorkspaceRateLimit, Acc!Prepare,
                 Msg!Acc!Prepare, Acc!Commit, Msg!Acc!Commit, Acc!Recover, Msg!Acc!Recover,
                 Acc!OverQuota, Msg!Acc!OverQuota, Acc!KeyFree, Msg!Acc!KeyFree, Acc!Claimable,
                 Msg!Acc!Claimable, Acc!Fault, Msg!Acc!Fault, Acc!Refuse, Msg!Acc!Refuse,
                 Acc!Insert, Msg!Acc!Insert, Acc!Running, Msg!Acc!Running, Acc!Modes,
                 Msg!Acc!Modes, Acc!Goto, Msg!Acc!Goto, Acc!SameBody, Msg!Acc!SameBody,
                 Acc!Respond, Msg!Acc!Respond, Acc!BelowRate, Msg!Acc!BelowRate, Acc!RollBack,
                 Msg!Acc!RollBack, Acc!QuotaLeft, Msg!Acc!QuotaLeft, Acc!RolledBack,
                 Msg!Acc!RolledBack
<1> QED
    BY <1>1, <1>2, PTL DEF Acc!Spec, Msg!Acc!Spec

LEMMA AcceptanceFits == Msg!Acc!AcceptanceAssumption
BY Assumptions DEF Acc!AcceptanceAssumption, Msg!Acc!AcceptanceAssumption, Acc!Modes,
                   Msg!Acc!Modes, Acc!IsFiniteSet, Msg!Acc!IsFiniteSet

\* The part "attachments" is what the proofs are about.
LEMMA AttachmentsIsSame == Att!Spec => Msg!Att!Spec
<1>1. Att!Init => Msg!Att!Init
    BY Zenon DEF Att!Init, Msg!Att!Init, Att!Idle, Msg!Att!Idle
<1>2. [Att!Next]_Att!vars => [Msg!Att!Next]_Msg!Att!vars
    BY Zenon DEF Att!Next, Msg!Att!Next, Att!vars, Msg!Att!vars, Att!Client, Msg!Att!Client,
                 Att!Scan, Msg!Att!Scan, Att!ScanFails, Msg!Att!ScanFails, Att!ScanReceive,
                 Msg!Att!ScanReceive, Att!Delivery, Msg!Att!Delivery, Att!Purge, Msg!Att!Purge,
                 Att!PurgeFails, Msg!Att!PurgeFails, Att!clock, Msg!Att!clock,
                 Att!createAttachmentUpload, Msg!Att!createAttachmentUpload, Att!Upload,
                 Msg!Att!Upload, Att!CloseWindow, Msg!Att!CloseWindow, Att!Expire, Msg!Att!Expire,
                 Att!BucketExpires, Msg!Att!BucketExpires, Att!ScanReject, Msg!Att!ScanReject,
                 Att!ScanClaim, Msg!Att!ScanClaim, Att!ScanObject, Msg!Att!ScanObject,
                 Att!ScanWrite, Msg!Att!ScanWrite, Att!Idle, Msg!Att!Idle, Att!Fault,
                 Msg!Att!Fault, Att!Become, Msg!Att!Become, Att!Status, Msg!Att!Status,
                 Att!AcceptRead, Msg!Att!AcceptRead, Att!AcceptCommit, Msg!Att!AcceptCommit,
                 Att!loadAttachments, Msg!Att!loadAttachments, Att!Send, Msg!Att!Send,
                 Att!purgeAttachments, Msg!Att!purgeAttachments, Att!PurgeSelect,
                 Msg!Att!PurgeSelect, Att!PurgeObject, Msg!Att!PurgeObject, Att!PurgeRow,
                 Msg!Att!PurgeRow, Att!Set, Msg!Att!Set, Att!UrlFor, Msg!Att!UrlFor, Att!Clean,
                 Msg!Att!Clean, Att!Threat, Msg!Att!Threat, Att!Rejectable, Msg!Att!Rejectable,
                 Att!Scannable, Msg!Att!Scannable, Att!Verified, Msg!Att!Verified,
                 Att!StillScanning, Msg!Att!StillScanning, Att!Loadable, Msg!Att!Loadable,
                 Att!EraseObject, Msg!Att!EraseObject, Att!EraseRow, Msg!Att!EraseRow,
                 Att!Purgeable, Msg!Att!Purgeable, Att!Cardinality, Msg!Att!Cardinality,
                 Att!IsFiniteSet, Msg!Att!IsFiniteSet
<1> QED
    BY <1>1, <1>2, PTL DEF Att!Spec, Msg!Att!Spec

LEMMA AttachmentsFits == Msg!Att!AttachmentsAssumption
BY Assumptions DEF Att!AttachmentsAssumption, Msg!Att!AttachmentsAssumption, Att!IsFiniteSet,
                   Msg!Att!IsFiniteSet

\* The part "warmup" is what the proofs are about.
LEMMA WarmupIsSame == Wrm!Spec => Msg!Wrm!Spec
<1>1. Wrm!Init => Msg!Wrm!Init
    BY Zenon DEF Wrm!Init, Msg!Wrm!Init, Wrm!Days, Msg!Wrm!Days, Wrm!NoUsage, Msg!Wrm!NoUsage,
                 Wrm!Idle, Msg!Wrm!Idle
<1>2. [Wrm!Next]_Wrm!vars => [Msg!Wrm!Next]_Msg!Wrm!vars
    BY Zenon DEF Wrm!Next, Msg!Wrm!Next, Wrm!vars, Msg!Wrm!vars, Wrm!NextDay, Msg!Wrm!NextDay,
                 Wrm!SendToday, Msg!Wrm!SendToday, Wrm!SafetyEvent, Msg!Wrm!SafetyEvent,
                 Wrm!BillingEvent, Msg!Wrm!BillingEvent, Wrm!reviewWorkspace,
                 Msg!Wrm!reviewWorkspace, Wrm!setWorkspaceDailyLimit,
                 Msg!Wrm!setWorkspaceDailyLimit, Wrm!WorkerReads, Msg!Wrm!WorkerReads,
                 Wrm!WorkerDecides, Msg!Wrm!WorkerDecides, Wrm!WorkerAdvances,
                 Msg!Wrm!WorkerAdvances, Wrm!review, Msg!Wrm!review, Wrm!level, Msg!Wrm!level,
                 Wrm!Intervene, Msg!Wrm!Intervene, Wrm!Recent, Msg!Wrm!Recent, Wrm!shouldAutoPause,
                 Msg!Wrm!shouldAutoPause, Wrm!Accepted, Msg!Wrm!Accepted, Wrm!Bounces,
                 Msg!Wrm!Bounces, Wrm!Complaints, Msg!Wrm!Complaints, Wrm!warmupLimitForStage,
                 Msg!Wrm!warmupLimitForStage, Wrm!Overridden, Msg!Wrm!Overridden, Wrm!Idle,
                 Msg!Wrm!Idle, Wrm!MaxStage, Msg!Wrm!MaxStage, Wrm!warmupDecision,
                 Msg!Wrm!warmupDecision, Wrm!StillFree, Msg!Wrm!StillFree, Wrm!Days, Msg!Wrm!Days,
                 Wrm!Sample, Msg!Wrm!Sample, Wrm!Reference, Msg!Wrm!Reference, Wrm!Healthy,
                 Msg!Wrm!Healthy, Wrm!Total, Msg!Wrm!Total, Wrm!Rows, Msg!Wrm!Rows, Wrm!NoUsage,
                 Msg!Wrm!NoUsage, Wrm!FoldSet, Msg!Wrm!FoldSet, Wrm!MapThenFoldSet,
                 Msg!Wrm!MapThenFoldSet, Wrm!Cardinality, Msg!Wrm!Cardinality, Wrm!IsFiniteSet,
                 Msg!Wrm!IsFiniteSet
<1> QED
    BY <1>1, <1>2, PTL DEF Wrm!Spec, Msg!Wrm!Spec

LEMMA WarmupFits == Msg!Wrm!WarmupAssumption
BY Assumptions DEF Wrm!WarmupAssumption, Msg!Wrm!WarmupAssumption, Wrm!Step, Msg!Wrm!Step,
                   Wrm!MaxStage, Msg!Wrm!MaxStage

\* The part "postmark" is what the proofs are about.
LEMMA ProvisioningIsSame == Pmk!Spec => Msg!Pmk!Spec
<1>1. Pmk!Init => Msg!Pmk!Init
    BY Zenon DEF Pmk!Init, Msg!Pmk!Init, Pmk!None, Msg!Pmk!None, Pmk!NoServer, Msg!Pmk!NoServer,
                 Pmk!Idle, Msg!Pmk!Idle
<1>2. [Pmk!Next]_Pmk!vars => [Msg!Pmk!Next]_Msg!Pmk!vars
    BY Zenon DEF Pmk!Next, Msg!Pmk!Next, Pmk!vars, Msg!Pmk!vars, Pmk!Work, Msg!Pmk!Work,
                 Pmk!LoseLock, Msg!Pmk!LoseLock, Pmk!TakesEffect, Msg!Pmk!TakesEffect,
                 Pmk!provisionDomain, Msg!Pmk!provisionDomain, Pmk!disableDomainBinding,
                 Msg!Pmk!disableDomainBinding, Pmk!ReadToActivate, Msg!Pmk!ReadToActivate,
                 Pmk!activateDomainBinding, Msg!Pmk!activateDomainBinding, Pmk!ReadToCheck,
                 Msg!Pmk!ReadToCheck, Pmk!checkBinding, Msg!Pmk!checkBinding,
                 Pmk!setProviderAccountStatus, Msg!Pmk!setProviderAccountStatus, Pmk!rows,
                 Msg!Pmk!rows, Pmk!postmark, Msg!Pmk!postmark, Pmk!counts, Msg!Pmk!counts,
                 Pmk!Start, Msg!Pmk!Start, Pmk!FindServer, Msg!Pmk!FindServer, Pmk!Reserve,
                 Msg!Pmk!Reserve, Pmk!CreateServer, Msg!Pmk!CreateServer, Pmk!RecordServer,
                 Msg!Pmk!RecordServer, Pmk!createCredentialOnce, Msg!Pmk!createCredentialOnce,
                 Pmk!RecordCredential, Msg!Pmk!RecordCredential, Pmk!CreateDomain,
                 Msg!Pmk!CreateDomain, Pmk!ListWebhooks, Msg!Pmk!ListWebhooks,
                 Pmk!beforeWebhookCreate, Msg!Pmk!beforeWebhookCreate, Pmk!CreateWebhook,
                 Msg!Pmk!CreateWebhook, Pmk!Finish, Msg!Pmk!Finish, Pmk!RecordFailure,
                 Msg!Pmk!RecordFailure, Pmk!Killed, Msg!Pmk!Killed, Pmk!None, Msg!Pmk!None,
                 Pmk!Decide, Msg!Pmk!Decide, Pmk!Open, Msg!Pmk!Open, Pmk!Marked, Msg!Pmk!Marked,
                 Pmk!Checked, Msg!Pmk!Checked, Pmk!StillChecked, Msg!Pmk!StillChecked,
                 Pmk!NoServer, Msg!Pmk!NoServer, Pmk!At, Msg!Pmk!At, Pmk!Writable,
                 Msg!Pmk!Writable, Pmk!findUnique, Msg!Pmk!findUnique, Pmk!Found, Msg!Pmk!Found,
                 Pmk!Ambiguous, Msg!Pmk!Ambiguous, Pmk!Go, Msg!Pmk!Go, Pmk!MayCreateServer,
                 Msg!Pmk!MayCreateServer, Pmk!Checkpoint, Msg!Pmk!Checkpoint, Pmk!Fault,
                 Msg!Pmk!Fault, Pmk!Job, Msg!Pmk!Job, Pmk!MayCreateWebhook,
                 Msg!Pmk!MayCreateWebhook, Pmk!Leave, Msg!Pmk!Leave, Pmk!SameAccount,
                 Msg!Pmk!SameAccount, Pmk!KeptError, Msg!Pmk!KeptError, Pmk!Idle, Msg!Pmk!Idle
<1> QED
    BY <1>1, <1>2, PTL DEF Pmk!Spec, Msg!Pmk!Spec

LEMMA ProvisioningFits == Msg!Pmk!ProvisioningAssumption
BY Assumptions DEF Pmk!ProvisioningAssumption, Msg!Pmk!ProvisioningAssumption

\* The part "ses" is what the proofs are about.
LEMMA SesDomainIsSame == Ses!Spec => Msg!Ses!Spec
<1>1. Ses!Init => Msg!Ses!Init
    BY Zenon DEF Ses!Init, Msg!Ses!Init, Ses!Absent, Msg!Ses!Absent, Ses!Untagged,
                 Msg!Ses!Untagged, Ses!Environments, Msg!Ses!Environments, Ses!Resting,
                 Msg!Ses!Resting
<1>2. [Ses!Next]_Ses!vars => [Msg!Ses!Next]_Msg!Ses!vars
    BY Zenon DEF Ses!Next, Msg!Ses!Next, Ses!vars, Msg!Ses!vars, Ses!provisionSesDomain,
                 Msg!Ses!provisionSesDomain, Ses!CreateIdentity, Msg!Ses!CreateIdentity,
                 Ses!CheckTag, Msg!Ses!CheckTag, Ses!PutMailFrom, Msg!Ses!PutMailFrom, Ses!Record,
                 Msg!Ses!Record, Ses!Fail, Msg!Ses!Fail, Ses!Again, Msg!Ses!Again, Ses!Kinds,
                 Msg!Ses!Kinds, Ses!CreateResource, Msg!Ses!CreateResource, Ses!Resting,
                 Msg!Ses!Resting, Ses!SameTenant, Msg!Ses!SameTenant, Ses!Refused, Msg!Ses!Refused,
                 Ses!At, Msg!Ses!At, Ses!Advance, Msg!Ses!Advance, Ses!Absent, Msg!Ses!Absent,
                 Ses!Ours, Msg!Ses!Ours, Ses!Done, Msg!Ses!Done, Ses!ignoreExisting,
                 Msg!Ses!ignoreExisting, Ses!Calls, Msg!Ses!Calls
<1> QED
    BY <1>1, <1>2, PTL DEF Ses!Spec, Msg!Ses!Spec

LEMMA SesDomainFits == Msg!Ses!SesDomainAssumption
BY Assumptions DEF Ses!SesDomainAssumption, Msg!Ses!SesDomainAssumption, Ses!Environments,
                   Msg!Ses!Environments

\* The part "call" is what the proofs are about.
LEMMA ProviderCallIsSame == Prv!Spec => Msg!Prv!Spec
<1>1. Prv!Init => Msg!Prv!Init
    BY Zenon DEF Prv!Init, Msg!Prv!Init
<1>2. [Prv!Next]_Prv!vars => [Msg!Prv!Next]_Msg!Prv!vars
    BY Zenon DEF Prv!Next, Msg!Prv!Next, Prv!vars, Msg!Prv!vars, Prv!Call, Msg!Prv!Call,
                 Prv!getSecureParameter, Msg!Prv!getSecureParameter, Prv!Request, Msg!Prv!Request,
                 Prv!Settle, Msg!Prv!Settle, Prv!Recycle, Msg!Prv!Recycle, Prv!At, Msg!Prv!At,
                 Prv!Ends, Msg!Prv!Ends, Prv!maxAttempts, Msg!Prv!maxAttempts, Prv!Answers,
                 Msg!Prv!Answers, Prv!Taken, Msg!Prv!Taken, Prv!Uncertain, Msg!Prv!Uncertain,
                 Prv!NotTaken, Msg!Prv!NotTaken, Prv!Repeatable, Msg!Prv!Repeatable, Prv!Kind,
                 Msg!Prv!Kind, Prv!PostmarkKind, Msg!Prv!PostmarkKind, Prv!SesKind, Msg!Prv!SesKind
<1> QED
    BY <1>1, <1>2, PTL DEF Prv!Spec, Msg!Prv!Spec

LEMMA ProviderCallFits == Msg!Prv!ProviderCallAssumption
BY Assumptions DEF Prv!ProviderCallAssumption, Msg!Prv!ProviderCallAssumption

\* The part "secrets" is what the proofs are about.
LEMMA RuntimeSecretsIsSame == Sec!Spec => Msg!Sec!Spec
<1>1. Sec!Init => Msg!Sec!Init
    BY Zenon DEF Sec!Init, Msg!Sec!Init, Sec!Nobody, Msg!Sec!Nobody, Sec!Idle, Msg!Sec!Idle
<1>2. [Sec!Next]_Sec!vars => [Msg!Sec!Next]_Msg!Sec!vars
    BY Zenon DEF Sec!Next, Msg!Sec!Next, Sec!vars, Msg!Sec!vars, Sec!loadRuntimeSecrets,
                 Msg!Sec!loadRuntimeSecrets, Sec!Again, Msg!Sec!Again, Sec!Loaded, Msg!Sec!Loaded,
                 Sec!Failed, Msg!Sec!Failed, Sec!Missing, Msg!Sec!Missing, Sec!Joined,
                 Msg!Sec!Joined, Sec!Idle, Msg!Sec!Idle, Sec!Forgotten, Msg!Sec!Forgotten,
                 Sec!Failing, Msg!Sec!Failing, Sec!Nobody, Msg!Sec!Nobody
<1> QED
    BY <1>1, <1>2, PTL DEF Sec!Spec, Msg!Sec!Spec

LEMMA RuntimeSecretsFits == Msg!Sec!SecretsAssumption
BY Assumptions DEF Sec!SecretsAssumption, Msg!Sec!SecretsAssumption

\* The part "templates" is what the proofs are about.
LEMMA TemplatesIsSame == Tpl!Spec => Msg!Tpl!Spec
<1>1. Tpl!Init => Msg!Tpl!Init
    BY Zenon DEF Tpl!Init, Msg!Tpl!Init, Tpl!Idle, Msg!Tpl!Idle
<1>2. [Tpl!Next]_Tpl!vars => [Msg!Tpl!Next]_Msg!Tpl!vars
    BY Zenon DEF Tpl!Next, Msg!Tpl!Next, Tpl!vars, Msg!Tpl!vars, Tpl!BeginEdit, Msg!Tpl!BeginEdit,
                 Tpl!CommitEdit, Msg!Tpl!CommitEdit, Tpl!AbortEdit, Msg!Tpl!AbortEdit,
                 Tpl!reviewTemplate, Msg!Tpl!reviewTemplate, Tpl!disableTemplate,
                 Msg!Tpl!disableTemplate, Tpl!reviewTransactionalProfile,
                 Msg!Tpl!reviewTransactionalProfile, Tpl!disableTransactionalProfile,
                 Msg!Tpl!disableTransactionalProfile, Tpl!Serve, Msg!Tpl!Serve, Tpl!Free,
                 Msg!Tpl!Free, Tpl!StatusOfEdit, Msg!Tpl!StatusOfEdit, Tpl!Idle, Msg!Tpl!Idle
<1> QED
    BY <1>1, <1>2, PTL DEF Tpl!Spec, Msg!Tpl!Spec

LEMMA TemplatesFits == Msg!Tpl!TemplatesAssumption
BY Assumptions DEF Tpl!TemplatesAssumption, Msg!Tpl!TemplatesAssumption

\* The part "events" is what the proofs are about.
LEMMA EventPipelineIsSame == Evp!Spec => Msg!Evp!Spec
<1>1. Evp!Init => Msg!Evp!Init
    BY Zenon DEF Evp!Init, Msg!Evp!Init, Evp!Unused, Msg!Evp!Unused, Evp!Resting, Msg!Evp!Resting,
                 Evp!None, Msg!Evp!None
<1>2. [Evp!Next]_Evp!vars => [Msg!Evp!Next]_Msg!Evp!vars
    BY Zenon DEF Evp!Next, Msg!Evp!Next, Evp!vars, Msg!Evp!vars, Evp!Publish, Msg!Evp!Publish,
                 Evp!Bury, Msg!Evp!Bury, Evp!Redrive, Msg!Evp!Redrive, Evp!Receive,
                 Msg!Evp!Receive, Evp!Handle, Msg!Evp!Handle, Evp!Respond, Msg!Evp!Respond,
                 Evp!Die, Msg!Evp!Die, Evp!StoreId, Msg!Evp!StoreId, Evp!Tick, Msg!Evp!Tick,
                 Evp!Deploy, Msg!Evp!Deploy, Evp!effects, Msg!Evp!effects, Evp!Unused,
                 Msg!Evp!Unused, Evp!Located, Msg!Evp!Located, Evp!Visible, Msg!Evp!Visible,
                 Evp!Running, Msg!Evp!Running, Evp!HiddenFor, Msg!Evp!HiddenFor, Evp!Normalizes,
                 Msg!Evp!Normalizes, Evp!ingestProviderEvent, Msg!Evp!ingestProviderEvent,
                 Evp!Fault, Msg!Evp!Fault, Evp!Returned, Msg!Evp!Returned, Evp!Resting,
                 Msg!Evp!Resting, Evp!None, Msg!Evp!None, Evp!Matches, Msg!Evp!Matches,
                 Evp!Inserts, Msg!Evp!Inserts, Evp!Cardinality, Msg!Evp!Cardinality,
                 Evp!IsFiniteSet, Msg!Evp!IsFiniteSet
<1> QED
    BY <1>1, <1>2, PTL DEF Evp!Spec, Msg!Evp!Spec

LEMMA EventPipelineFits == Msg!Evp!PipelineAssumption
BY Assumptions DEF Evp!PipelineAssumption, Msg!Evp!PipelineAssumption

(* Concurrent requests of one workspace: one message for each key, answers *)
(* that tell the truth, counters and rates that hold (emails/accept.ts).   *)
THEOREM OneMessagePerRequest == Spec => []AcceptedOnce
<1>1. Msg!Acc!Spec => [](/\ Msg!Acc!OneMessagePerKey
                         /\ Msg!Acc!AnswersNameTheRequest
                         /\ Msg!Acc!FilesFollowTheMessage
                         /\ Msg!Acc!ReservationsAreMessages
                         /\ Msg!Acc!WithinRate)
    BY AcceptanceFits, Msg!MessagesAreOnce, PTL
<1>2. /\ Msg!Acc!OneMessagePerKey
      /\ Msg!Acc!AnswersNameTheRequest
      /\ Msg!Acc!FilesFollowTheMessage
      /\ Msg!Acc!ReservationsAreMessages
      /\ Msg!Acc!WithinRate
      => AcceptedOnce
    BY Zenon DEF AcceptedOnce, Acc!OneMessagePerKey, Msg!Acc!OneMessagePerKey,
                 Acc!AnswersNameTheRequest, Msg!Acc!AnswersNameTheRequest,
                 Acc!FilesFollowTheMessage, Msg!Acc!FilesFollowTheMessage,
                 Acc!ReservationsAreMessages, Msg!Acc!ReservationsAreMessages, Acc!WithinRate,
                 Msg!Acc!WithinRate, Acc!In, Msg!Acc!In, Acc!LiveIn, Msg!Acc!LiveIn, Acc!Modes,
                 Msg!Acc!Modes, Acc!Cardinality, Msg!Acc!Cardinality, Acc!IsFiniteSet,
                 Msg!Acc!IsFiniteSet
<1>3. ~(part = "acceptance") => AcceptedOnce
    BY DEF AcceptedOnce, In
<1> QED
    BY <1>1, <1>2, <1>3, AcceptanceRuns, AcceptanceIsSame, PTL

(* A limit that nobody pinned was earned (sending/warmup.ts).              *)
THEOREM LimitsAreEarned == Spec => []LimitIsEarned
<1>1. Msg!Wrm!Spec => []Msg!Wrm!LimitIsEarned
    BY WarmupFits, Msg!LimitsAreEarned, PTL
<1>2. Msg!Wrm!LimitIsEarned => LimitIsEarned
    BY Zenon DEF LimitIsEarned, Wrm!LimitIsEarned, Msg!Wrm!LimitIsEarned
<1>3. ~(part = "warmup") => LimitIsEarned
    BY DEF LimitIsEarned, In
<1> QED
    BY <1>1, <1>2, <1>3, WarmupRuns, WarmupIsSame, PTL

(* What is served was approved (templates/versioning.ts, emails/accept.ts).*)
THEOREM ServedAfterApproval == Spec => []ServedWasApproved
<1>1. Msg!Tpl!Spec => [](Msg!Tpl!TypeOK /\ Msg!Tpl!ServedWasApproved)
    BY TemplatesFits, Msg!TemplatesServeApproved, PTL
<1>2. Msg!Tpl!ServedWasApproved => ServedWasApproved
    BY Zenon DEF ServedWasApproved, Tpl!ServedWasApproved, Msg!Tpl!ServedWasApproved
<1>3. ~(part = "templates") => ServedWasApproved
    BY DEF ServedWasApproved, In
<1> QED
    BY <1>1, <1>2, <1>3, TemplatesRuns, TemplatesIsSame, PTL

(* A provider takes a message once (providers/postmark.ts, ses.ts).        *)
THEOREM ProvidersTakeOnce == Spec => []TakenOnce
<1>1. Msg!Prv!Spec => [](Msg!Prv!TypeOK /\ Msg!Prv!TakenOnce)
    BY ProviderCallFits, Msg!CallTakesOnce, PTL
<1>2. Msg!Prv!TakenOnce => TakenOnce
    BY Zenon DEF TakenOnce, Prv!TakenOnce, Msg!Prv!TakenOnce
<1>3. ~(part = "call") => TakenOnce
    BY DEF TakenOnce, In
<1> QED
    BY <1>1, <1>2, <1>3, ProviderCallRuns, ProviderCallIsSame, PTL

\* What no step of these parts may do.
LEMMA AcceptanceStands == Spec /\ [](part = "acceptance") /\ Acc!Spec => [][Stands]_vars
<1>1. Msg!Acc!Spec => [][Msg!Acc!BeyondOnlyInFlight]_Msg!Acc!vars
    BY AcceptanceFits, Msg!BeyondTheLimit, PTL
<1>2. [Msg!Acc!BeyondOnlyInFlight]_Msg!Acc!vars => [Acc!BeyondOnlyInFlight]_Acc!vars
    BY Zenon DEF Acc!BeyondOnlyInFlight, Msg!Acc!BeyondOnlyInFlight, Acc!vars, Msg!Acc!vars,
                 Acc!rows, Msg!Acc!rows, Acc!env, Msg!Acc!env
<1>3. part = "acceptance" /\ [Next]_vars /\ UNCHANGED Acc!vars => UNCHANGED vars
    BY Zenon DEF Next, vars, Acc!vars, Acc!rows, Acc!env, After12, After13
<1>4. part = "acceptance" /\ [Next]_vars /\ [Acc!BeyondOnlyInFlight]_Acc!vars => [Stands]_vars
    BY <1>3 DEF Stands, In
<1> QED
    BY <1>1, <1>2, <1>4, AcceptanceIsSame, PTL DEF Spec

LEMMA AttachmentsStands == Spec /\ [](part = "attachments") /\ Att!Spec => [][Stands]_vars
<1>1. Msg!Att!Spec => [][Msg!Att!CondemnedIsNotLoaded /\ Msg!Att!NeverRevived]_Msg!Att!vars
    BY AttachmentsFits, Msg!VerdictsStand, PTL
<1>2. [/\ Msg!Att!CondemnedIsNotLoaded
       /\ Msg!Att!NeverRevived]_Msg!Att!vars
      => [/\ Att!CondemnedIsNotLoaded
          /\ Att!NeverRevived]_Att!vars
    BY Zenon DEF Att!CondemnedIsNotLoaded, Msg!Att!CondemnedIsNotLoaded, Att!NeverRevived,
                 Msg!Att!NeverRevived, Att!vars, Msg!Att!vars, Att!Status, Msg!Att!Status,
                 Att!clock, Msg!Att!clock
<1>3. part = "attachments" /\ [Next]_vars /\ UNCHANGED Att!vars => UNCHANGED vars
    BY Zenon DEF Next, vars, Att!vars, Att!clock, After12, After13
<1>4. part = "attachments" /\ [Next]_vars /\ [Att!CondemnedIsNotLoaded /\ Att!NeverRevived]_Att!vars => [Stands]_vars
    BY <1>3 DEF Stands, In
<1> QED
    BY <1>1, <1>2, <1>4, AttachmentsIsSame, PTL DEF Spec

LEMMA WarmupStands == Spec /\ [](part = "warmup") /\ Wrm!Spec => [][Stands]_vars
<1>1. Msg!Wrm!Spec => /\ [][Msg!Wrm!PinnedIsKept]_Msg!Wrm!vars
                      /\ [][Msg!Wrm!WaitedAtStage]_Msg!Wrm!vars
                      /\ [][Msg!Wrm!CleanAtStage]_Msg!Wrm!vars
    BY WarmupFits, Msg!PinsAreKept, Msg!StagesAreWaitedFor, Msg!SamplesAreClean, PTL
<1>2. [Msg!Wrm!PinnedIsKept]_Msg!Wrm!vars => [Wrm!PinnedIsKept]_Wrm!vars
    BY Zenon DEF Wrm!PinnedIsKept, Msg!Wrm!PinnedIsKept, Wrm!vars, Msg!Wrm!vars, Wrm!review,
                 Msg!Wrm!review, Wrm!level, Msg!Wrm!level
<1>3. [Msg!Wrm!WaitedAtStage]_Msg!Wrm!vars => [Wrm!WaitedAtStage]_Wrm!vars
    BY Zenon DEF Wrm!WaitedAtStage, Msg!Wrm!WaitedAtStage, Wrm!vars, Msg!Wrm!vars, Wrm!review,
                 Msg!Wrm!review, Wrm!level, Msg!Wrm!level
<1>4. [Msg!Wrm!CleanAtStage]_Msg!Wrm!vars => [Wrm!CleanAtStage]_Wrm!vars
    BY Zenon DEF Wrm!CleanAtStage, Msg!Wrm!CleanAtStage, Wrm!vars, Msg!Wrm!vars, Wrm!Days,
                 Msg!Wrm!Days, Wrm!review, Msg!Wrm!review, Wrm!level, Msg!Wrm!level
<1>5. part = "warmup" /\ [Next]_vars /\ UNCHANGED Wrm!vars => UNCHANGED vars
    BY Zenon DEF Next, vars, Wrm!vars, Wrm!review, Wrm!level, After11, After12, After13
<1>6. /\ part = "warmup" /\ [Next]_vars
      /\ [Wrm!PinnedIsKept]_Wrm!vars
      /\ [Wrm!WaitedAtStage]_Wrm!vars
      /\ [Wrm!CleanAtStage]_Wrm!vars
      => [Stands]_vars
    BY <1>5 DEF Stands, In
<1> QED
    BY <1>1, <1>2, <1>3, <1>4, <1>6, WarmupIsSame, PTL DEF Spec

LEMMA ProvisioningStands == Spec /\ [](part = "postmark") /\ Pmk!Spec => [][Stands]_vars
<1>1. Msg!Pmk!Spec => [][Msg!Pmk!OperatorsPrevail]_Msg!Pmk!vars
    BY ProvisioningFits, Msg!DecisionsOfOperators, PTL
<1>2. [Msg!Pmk!OperatorsPrevail]_Msg!Pmk!vars => [Pmk!OperatorsPrevail]_Pmk!vars
    BY Zenon DEF Pmk!OperatorsPrevail, Msg!Pmk!OperatorsPrevail, Pmk!vars, Msg!Pmk!vars, Pmk!rows,
                 Msg!Pmk!rows, Pmk!postmark, Msg!Pmk!postmark, Pmk!counts, Msg!Pmk!counts
<1>3. part = "postmark" /\ [Next]_vars /\ UNCHANGED Pmk!vars => UNCHANGED vars
    BY Zenon DEF Next, vars, Pmk!vars, Pmk!rows, Pmk!postmark, Pmk!counts, After13
<1>4. part = "postmark" /\ [Next]_vars /\ [Pmk!OperatorsPrevail]_Pmk!vars => [Stands]_vars
    BY <1>3 DEF Stands, In
<1> QED
    BY <1>1, <1>2, <1>4, ProvisioningIsSame, PTL DEF Spec
-----------------------------------------------------------------------------
(* Two of them again, with the other bounds.                               *)
Lsg == INSTANCE MessageProofs WITH
    None <- Nothing, Files <- AttachedFiles, call <- v1, answer <- v2,
    created <- v3, record <- v4, owner <- v5, ready <- v6, used <- v7,
    limit <- v8, minute <- v9, spent <- v10, paid <- v11, faults <- v12,
    status <- v1, versions <- v2, current <- v3, profile <- v4, editor <- v5,
    served <- v6, passed <- v7, Window <- HealthWindow, reason <- v2,
    stage <- v3, wrmLimit <- v4, pinned <- v5, approvedAt <- v6,
    advancedAt <- v7, usage <- v8, today <- v9, worker <- v10, happened <- v11,
    provider <- v1, enabled <- v2, cached <- v3, prvStatus <- v4, pc <- v5,
    prvAnswer <- v6, sent <- v7, taken <- v8, tries <- v9,
    SecMaxFaults <- MoreFaults, env <- v1, loading <- v2, running <- v3,
    secCall <- v4, secFaults <- v5, MaxOps <- FewOps, PmkMaxFaults <- 0,
    binding <- v1, account <- v2, servers <- v3, param <- v4, domains <- v5,
    webhooks <- v6, late <- v7, lock <- v8, pmkWorker <- v9, reading <- v10,
    ops <- v11, lost <- v13, Runs <- SesRuns, SesMaxFaults <- MoreFaults,
    identity <- v1, mailFrom <- v2, resources <- v3, recorded <- v4, run <- v5,
    sesFaults <- v6, AttFiles <- Typed, MaxVerdicts <- MoreVerdicts,
    attRow <- v1, owned <- v2, object <- v3, window <- v4, expired <- v5,
    verdicts <- v6, scanner <- v7, message <- v8, purge <- v9, erased <- v10,
    condemned <- v11, Messages <- Sent, Tag <- TagOf, Id <- IdOf,
    EvpMaxFaults <- MoreFaults, EvpMaxOps <- FewOps, evpRecord <- v1,
    evpRun <- v2, ingested <- v3, applied <- v4, stored <- v5, standby <- v6,
    evpFaults <- v7, evpOps <- v8
\* The part "verdicts" is what the proofs are about.
LEMMA VerIsSame == Ver!Spec => Lsg!Att!Spec
<1>1. Ver!Init => Lsg!Att!Init
    BY Zenon DEF Ver!Init, Lsg!Att!Init, Ver!Idle, Lsg!Att!Idle
<1>2. [Ver!Next]_Ver!vars => [Lsg!Att!Next]_Lsg!Att!vars
    BY Zenon DEF Ver!Next, Lsg!Att!Next, Ver!vars, Lsg!Att!vars, Ver!Client, Lsg!Att!Client,
                 Ver!Scan, Lsg!Att!Scan, Ver!ScanFails, Lsg!Att!ScanFails, Ver!ScanReceive,
                 Lsg!Att!ScanReceive, Ver!Delivery, Lsg!Att!Delivery, Ver!Purge, Lsg!Att!Purge,
                 Ver!PurgeFails, Lsg!Att!PurgeFails, Ver!clock, Lsg!Att!clock,
                 Ver!createAttachmentUpload, Lsg!Att!createAttachmentUpload, Ver!Upload,
                 Lsg!Att!Upload, Ver!CloseWindow, Lsg!Att!CloseWindow, Ver!Expire, Lsg!Att!Expire,
                 Ver!BucketExpires, Lsg!Att!BucketExpires, Ver!ScanReject, Lsg!Att!ScanReject,
                 Ver!ScanClaim, Lsg!Att!ScanClaim, Ver!ScanObject, Lsg!Att!ScanObject,
                 Ver!ScanWrite, Lsg!Att!ScanWrite, Ver!Idle, Lsg!Att!Idle, Ver!Fault,
                 Lsg!Att!Fault, Ver!Become, Lsg!Att!Become, Ver!Status, Lsg!Att!Status,
                 Ver!AcceptRead, Lsg!Att!AcceptRead, Ver!AcceptCommit, Lsg!Att!AcceptCommit,
                 Ver!loadAttachments, Lsg!Att!loadAttachments, Ver!Send, Lsg!Att!Send,
                 Ver!purgeAttachments, Lsg!Att!purgeAttachments, Ver!PurgeSelect,
                 Lsg!Att!PurgeSelect, Ver!PurgeObject, Lsg!Att!PurgeObject, Ver!PurgeRow,
                 Lsg!Att!PurgeRow, Ver!Set, Lsg!Att!Set, Ver!UrlFor, Lsg!Att!UrlFor, Ver!Clean,
                 Lsg!Att!Clean, Ver!Threat, Lsg!Att!Threat, Ver!Rejectable, Lsg!Att!Rejectable,
                 Ver!Scannable, Lsg!Att!Scannable, Ver!Verified, Lsg!Att!Verified,
                 Ver!StillScanning, Lsg!Att!StillScanning, Ver!Loadable, Lsg!Att!Loadable,
                 Ver!EraseObject, Lsg!Att!EraseObject, Ver!EraseRow, Lsg!Att!EraseRow,
                 Ver!Purgeable, Lsg!Att!Purgeable, Ver!Cardinality, Lsg!Att!Cardinality,
                 Ver!IsFiniteSet, Lsg!Att!IsFiniteSet
<1> QED
    BY <1>1, <1>2, PTL DEF Ver!Spec, Lsg!Att!Spec

LEMMA VerFits == Lsg!Att!AttachmentsAssumption
BY Assumptions DEF Ver!AttachmentsAssumption, Lsg!Att!AttachmentsAssumption, Ver!IsFiniteSet,
                   Lsg!Att!IsFiniteSet

\* The part "lock lost" is what the proofs are about.
LEMMA LckIsSame == Lck!Spec => Lsg!Pmk!Spec
<1>1. Lck!Init => Lsg!Pmk!Init
    BY Zenon DEF Lck!Init, Lsg!Pmk!Init, Lck!None, Lsg!Pmk!None, Lck!NoServer, Lsg!Pmk!NoServer,
                 Lck!Idle, Lsg!Pmk!Idle
<1>2. [Lck!Next]_Lck!vars => [Lsg!Pmk!Next]_Lsg!Pmk!vars
    BY Zenon DEF Lck!Next, Lsg!Pmk!Next, Lck!vars, Lsg!Pmk!vars, Lck!Work, Lsg!Pmk!Work,
                 Lck!LoseLock, Lsg!Pmk!LoseLock, Lck!TakesEffect, Lsg!Pmk!TakesEffect,
                 Lck!provisionDomain, Lsg!Pmk!provisionDomain, Lck!disableDomainBinding,
                 Lsg!Pmk!disableDomainBinding, Lck!ReadToActivate, Lsg!Pmk!ReadToActivate,
                 Lck!activateDomainBinding, Lsg!Pmk!activateDomainBinding, Lck!ReadToCheck,
                 Lsg!Pmk!ReadToCheck, Lck!checkBinding, Lsg!Pmk!checkBinding,
                 Lck!setProviderAccountStatus, Lsg!Pmk!setProviderAccountStatus, Lck!rows,
                 Lsg!Pmk!rows, Lck!postmark, Lsg!Pmk!postmark, Lck!counts, Lsg!Pmk!counts,
                 Lck!Start, Lsg!Pmk!Start, Lck!FindServer, Lsg!Pmk!FindServer, Lck!Reserve,
                 Lsg!Pmk!Reserve, Lck!CreateServer, Lsg!Pmk!CreateServer, Lck!RecordServer,
                 Lsg!Pmk!RecordServer, Lck!createCredentialOnce, Lsg!Pmk!createCredentialOnce,
                 Lck!RecordCredential, Lsg!Pmk!RecordCredential, Lck!CreateDomain,
                 Lsg!Pmk!CreateDomain, Lck!ListWebhooks, Lsg!Pmk!ListWebhooks,
                 Lck!beforeWebhookCreate, Lsg!Pmk!beforeWebhookCreate, Lck!CreateWebhook,
                 Lsg!Pmk!CreateWebhook, Lck!Finish, Lsg!Pmk!Finish, Lck!RecordFailure,
                 Lsg!Pmk!RecordFailure, Lck!Killed, Lsg!Pmk!Killed, Lck!None, Lsg!Pmk!None,
                 Lck!Decide, Lsg!Pmk!Decide, Lck!Open, Lsg!Pmk!Open, Lck!Marked, Lsg!Pmk!Marked,
                 Lck!Checked, Lsg!Pmk!Checked, Lck!StillChecked, Lsg!Pmk!StillChecked,
                 Lck!NoServer, Lsg!Pmk!NoServer, Lck!At, Lsg!Pmk!At, Lck!Writable,
                 Lsg!Pmk!Writable, Lck!findUnique, Lsg!Pmk!findUnique, Lck!Found, Lsg!Pmk!Found,
                 Lck!Ambiguous, Lsg!Pmk!Ambiguous, Lck!Go, Lsg!Pmk!Go, Lck!MayCreateServer,
                 Lsg!Pmk!MayCreateServer, Lck!Checkpoint, Lsg!Pmk!Checkpoint, Lck!Fault,
                 Lsg!Pmk!Fault, Lck!Job, Lsg!Pmk!Job, Lck!MayCreateWebhook,
                 Lsg!Pmk!MayCreateWebhook, Lck!Leave, Lsg!Pmk!Leave, Lck!SameAccount,
                 Lsg!Pmk!SameAccount, Lck!KeptError, Lsg!Pmk!KeptError, Lck!Idle, Lsg!Pmk!Idle
<1> QED
    BY <1>1, <1>2, PTL DEF Lck!Spec, Lsg!Pmk!Spec

LEMMA LckFits == Lsg!Pmk!ProvisioningAssumption
BY Assumptions DEF Lck!ProvisioningAssumption, Lsg!Pmk!ProvisioningAssumption

(* Provider resources are created once, by their owner, and what the rows  *)
(* say of them is true (workers/provider-provisioning.ts,                  *)
(* domains/provision-ses-domain.ts).                                       *)
THEOREM ResourcesAreOurs == Spec => []ProviderResourcesAreOurs
<1>1. Msg!Pmk!Spec => [](Msg!Pmk!TypeOK /\ Msg!Pmk!CreatedOnce /\ Msg!Pmk!CredentialIsOfServer)
    BY ProvisioningFits, Msg!ResourcesAreCreatedOnce, PTL
<1>2. /\ Msg!Pmk!CreatedOnce
      /\ Msg!Pmk!CredentialIsOfServer
      => /\ Pmk!CreatedOnce
         /\ Pmk!CredentialIsOfServer
    BY Zenon DEF Pmk!CreatedOnce, Msg!Pmk!CreatedOnce, Pmk!CredentialIsOfServer,
                 Msg!Pmk!CredentialIsOfServer, Pmk!NoServer, Msg!Pmk!NoServer, Pmk!Checked,
                 Msg!Pmk!Checked
<1>3. Spec => [](part = "postmark" => Pmk!CreatedOnce /\ Pmk!CredentialIsOfServer)
    BY <1>1, <1>2, ProvisioningRuns, ProvisioningIsSame, PTL
<1>4. Lsg!Pmk!Spec => [](Lsg!Pmk!TypeOK /\ Lsg!Pmk!CreatedOnce /\ Lsg!Pmk!CredentialIsOfServer)
    BY LckFits, Lsg!ResourcesAreCreatedOnce, PTL
<1>5. /\ Lsg!Pmk!CreatedOnce
      /\ Lsg!Pmk!CredentialIsOfServer
      => /\ Lck!CreatedOnce
         /\ Lck!CredentialIsOfServer
    BY Zenon DEF Lck!CreatedOnce, Lsg!Pmk!CreatedOnce, Lck!CredentialIsOfServer,
                 Lsg!Pmk!CredentialIsOfServer, Lck!NoServer, Lsg!Pmk!NoServer, Lck!Checked,
                 Lsg!Pmk!Checked
<1>6. Spec => [](part = "lock lost" => Lck!CreatedOnce /\ Lck!CredentialIsOfServer)
    BY <1>4, <1>5, LckRuns, LckIsSame, PTL
<1>7. Msg!Ses!Spec => [](Msg!Ses!TypeOK /\ Msg!Ses!IdentityHasOneOwner)
    BY SesDomainFits, Msg!IdentitiesHaveOneOwner, PTL
<1>8. Msg!Ses!IdentityHasOneOwner => Ses!IdentityHasOneOwner
    BY Zenon DEF Ses!IdentityHasOneOwner, Msg!Ses!IdentityHasOneOwner, Ses!Environments,
                 Msg!Ses!Environments, Ses!Owns, Msg!Ses!Owns, Ses!Done, Msg!Ses!Done, Ses!Kinds,
                 Msg!Ses!Kinds, Ses!Calls, Msg!Ses!Calls
<1>9. Spec => [](part = "ses" => Ses!IdentityHasOneOwner)
    BY <1>7, <1>8, SesDomainRuns, SesDomainIsSame, PTL
<1>10. /\ part = "postmark" => Pmk!CreatedOnce /\ Pmk!CredentialIsOfServer
       /\ part = "lock lost" => Lck!CreatedOnce /\ Lck!CredentialIsOfServer
       /\ part = "ses" => Ses!IdentityHasOneOwner
       => ProviderResourcesAreOurs
    BY DEF ProviderResourcesAreOurs, In
<1> QED
    BY <1>3, <1>6, <1>9, <1>10, PTL

\* What no step of these parts may do.
LEMMA VerStands == Spec /\ [](part = "verdicts") /\ Ver!Spec => [][Stands]_vars
<1>1. Lsg!Att!Spec => [][Lsg!Att!CondemnedIsNotLoaded /\ Lsg!Att!NeverRevived]_Lsg!Att!vars
    BY VerFits, Lsg!VerdictsStand, PTL
<1>2. [/\ Lsg!Att!CondemnedIsNotLoaded
       /\ Lsg!Att!NeverRevived]_Lsg!Att!vars
      => [/\ Ver!CondemnedIsNotLoaded
          /\ Ver!NeverRevived]_Ver!vars
    BY Zenon DEF Ver!CondemnedIsNotLoaded, Lsg!Att!CondemnedIsNotLoaded, Ver!NeverRevived,
                 Lsg!Att!NeverRevived, Ver!vars, Lsg!Att!vars, Ver!Status, Lsg!Att!Status,
                 Ver!clock, Lsg!Att!clock
<1>3. part = "verdicts" /\ [Next]_vars /\ UNCHANGED Ver!vars => UNCHANGED vars
    BY Zenon DEF Next, vars, Ver!vars, Ver!clock, After12, After13
<1>4. part = "verdicts" /\ [Next]_vars /\ [Ver!CondemnedIsNotLoaded /\ Ver!NeverRevived]_Ver!vars => [Stands]_vars
    BY <1>3 DEF Stands, In
<1> QED
    BY <1>1, <1>2, <1>4, VerIsSame, PTL DEF Spec

LEMMA LckStands == Spec /\ [](part = "lock lost") /\ Lck!Spec => [][Stands]_vars
<1>1. Lsg!Pmk!Spec => [][Lsg!Pmk!OperatorsPrevail]_Lsg!Pmk!vars
    BY LckFits, Lsg!DecisionsOfOperators, PTL
<1>2. [Lsg!Pmk!OperatorsPrevail]_Lsg!Pmk!vars => [Lck!OperatorsPrevail]_Lck!vars
    BY Zenon DEF Lck!OperatorsPrevail, Lsg!Pmk!OperatorsPrevail, Lck!vars, Lsg!Pmk!vars, Lck!rows,
                 Lsg!Pmk!rows, Lck!postmark, Lsg!Pmk!postmark, Lck!counts, Lsg!Pmk!counts
<1>3. part = "lock lost" /\ [Next]_vars /\ UNCHANGED Lck!vars => UNCHANGED vars
    BY Zenon DEF Next, vars, Lck!vars, Lck!rows, Lck!postmark, Lck!counts, After13
<1>4. part = "lock lost" /\ [Next]_vars /\ [Lck!OperatorsPrevail]_Lck!vars => [Stands]_vars
    BY <1>3 DEF Stands, In
<1> QED
    BY <1>1, <1>2, <1>4, LckIsSame, PTL DEF Spec
-----------------------------------------------------------------------------
(* The webhooks of customers.                                              *)
Whp == INSTANCE WebhookDeliveryProofs WITH
    Nobody <- Unclaimed, MaxAttempts <- WebhookAttempts, Timeout <- CallTimeout,
    Visibility <- CallVisibility, MaxFaults <- MoreFaults, endpoint <- v1,
    state <- v2, attempt <- v3, due <- v4, claim <- v5, claimAge <- v6,
    queue <- v7, run <- v8, calls <- v9, faults <- v10
\* The part "webhook" is what the proofs are about.
LEMMA WebhookDeliveryIsSame == Whk!Spec => Whp!Spec
<1>1. Whk!Init => Whp!Init
    BY Zenon DEF Whk!Init, Whp!Init, Whk!Idle, Whp!Idle
<1>2. [Whk!Next]_Whk!vars => [Whp!Next]_Whp!vars
    BY Zenon DEF Whk!Next, Whp!Next, Whk!vars, Whp!vars, Whk!ReadEndpoints, Whp!ReadEndpoints,
                 Whk!queuePublicEmailEvent, Whp!queuePublicEmailEvent, Whk!Duplicate,
                 Whp!Duplicate, Whk!toggleWebhook, Whp!toggleWebhook, Whk!deleteWebhook,
                 Whp!deleteWebhook, Whk!Receive, Whp!Receive, Whk!Step, Whp!Step, Whk!Crash,
                 Whp!Crash, Whk!Tick, Whp!Tick, Whk!delivery, Whp!delivery, Whk!Publish,
                 Whp!Publish, Whk!Fault, Whp!Fault, Whk!Abandoned, Whp!Abandoned, Whk!Idle,
                 Whp!Idle, Whk!ToDeliver, Whp!ToDeliver, Whk!Become, Whp!Become, Whk!Claim,
                 Whp!Claim, Whk!Post, Whp!Post, Whk!RecordDelivered, Whp!RecordDelivered,
                 Whk!recordExpectedFailure, Whp!recordExpectedFailure, Whk!OldAge, Whp!OldAge,
                 Whk!DueAt, Whp!DueAt, Whk!Claimable, Whp!Claimable, Whk!Goto, Whp!Goto,
                 Whk!StillMine, Whp!StillMine, Whk!NoFault, Whp!NoFault, Whk!Terminal,
                 Whp!Terminal, Whk!NextDue, Whp!NextDue, Whk!RetryRow, Whp!RetryRow, Whk!Stale,
                 Whp!Stale, Whk!RemoveAt, Whp!RemoveAt
<1> QED
    BY <1>1, <1>2, PTL DEF Whk!Spec, Whp!Spec

LEMMA WebhookDeliveryFits == Whp!WebhookAssumption
BY Assumptions DEF Whk!WebhookAssumption, Whp!WebhookAssumption, Whk!IsFiniteSet, Whp!IsFiniteSet

(* However deliveries are repeated, late and overlapping: a webhook has    *)
(* one sender, which counts its calls, a provider event is applied once,   *)
(* what is clean was scanned and verified (workers/deliver-webhook.ts,     *)
(* ses-events.ts, attachment-scan.ts).                                     *)
THEOREM DeliveriesAreHandledOnce == Spec => []HandledOnce
<1>1. Whp!Spec => [](Whp!OneSender /\ Whp!AttemptIsCurrent /\ Whp!CallsAreBounded)
    BY WebhookDeliveryFits, Whp!SendersAreAlone, Whp!AttemptsAreCurrent, Whp!CallsStayBounded, PTL
<1>2. /\ Whp!OneSender
      /\ Whp!AttemptIsCurrent
      /\ Whp!CallsAreBounded
      => /\ Whk!OneSender
         /\ Whk!AttemptIsCurrent
         /\ Whk!CallsAreBounded
    BY Zenon DEF Whk!OneSender, Whp!OneSender, Whk!AttemptIsCurrent, Whp!AttemptIsCurrent,
                 Whk!CallsAreBounded, Whp!CallsAreBounded, Whk!Past, Whp!Past, Whk!Idle, Whp!Idle,
                 Whk!StillMine, Whp!StillMine, Whk!Working, Whp!Working, Whk!Cardinality,
                 Whp!Cardinality, Whk!IsFiniteSet, Whp!IsFiniteSet
<1>3. Spec => [](part = "webhook" => Whk!OneSender /\ Whk!AttemptIsCurrent /\ Whk!CallsAreBounded)
    BY <1>1, <1>2, WebhookDeliveryRuns, WebhookDeliveryIsSame, PTL
<1>4. Msg!Evp!Spec => [](Msg!Evp!TypeOK /\ Msg!Evp!HandledOnce /\ Msg!Evp!OnlyBadIsBuried)
    BY EventPipelineFits, Msg!EventsAreHandledOnce, PTL
<1>5. Msg!Evp!HandledOnce /\ Msg!Evp!OnlyBadIsBuried => Evp!HandledOnce /\ Evp!OnlyBadIsBuried
    BY Zenon DEF Evp!HandledOnce, Msg!Evp!HandledOnce, Evp!OnlyBadIsBuried,
                 Msg!Evp!OnlyBadIsBuried, Evp!None, Msg!Evp!None, Evp!MaySkip, Msg!Evp!MaySkip,
                 Evp!Normalizes, Msg!Evp!Normalizes
<1>6. Spec => [](part = "events" => Evp!HandledOnce /\ Evp!OnlyBadIsBuried)
    BY <1>4, <1>5, EventPipelineRuns, EventPipelineIsSame, PTL
<1>7. Msg!Att!Spec => [](Msg!Att!TypeOK /\ Msg!Att!CleanWasVerified)
    BY AttachmentsFits, Msg!AttachmentsAreScanned, PTL
<1>8. Msg!Att!CleanWasVerified => Att!CleanWasVerified
    BY Zenon DEF Att!CleanWasVerified, Msg!Att!CleanWasVerified, Att!Status, Msg!Att!Status,
                 Att!Clean, Msg!Att!Clean
<1>9. Spec => [](part = "attachments" => Att!CleanWasVerified)
    BY <1>7, <1>8, AttachmentsRuns, AttachmentsIsSame, PTL
<1>10. Lsg!Att!Spec => [](Lsg!Att!TypeOK /\ Lsg!Att!CleanWasVerified)
    BY VerFits, Lsg!AttachmentsAreScanned, PTL
<1>11. Lsg!Att!CleanWasVerified => Ver!CleanWasVerified
    BY Zenon DEF Ver!CleanWasVerified, Lsg!Att!CleanWasVerified, Ver!Status, Lsg!Att!Status,
                 Ver!Clean, Lsg!Att!Clean
<1>12. Spec => [](part = "verdicts" => Ver!CleanWasVerified)
    BY <1>10, <1>11, VerRuns, VerIsSame, PTL
<1>13. /\ part = "webhook" => Whk!OneSender /\ Whk!AttemptIsCurrent /\ Whk!CallsAreBounded
       /\ part = "events" => Evp!HandledOnce /\ Evp!OnlyBadIsBuried
       /\ part = "attachments" => Att!CleanWasVerified
       /\ part = "verdicts" => Ver!CleanWasVerified
       => HandledOnce
    BY DEF HandledOnce, In
<1> QED
    BY <1>3, <1>6, <1>9, <1>12, <1>13, PTL

\* What no step of these parts may do.
LEMMA WebhookDeliveryStands == Spec /\ [](part = "webhook") /\ Whk!Spec => [][Stands]_vars
<1>1. Whp!Spec => [][Whp!SettledIsFinal /\ Whp!NotBeforeDue]_Whp!vars
    BY WebhookDeliveryFits, Whp!SettledForGood, PTL
<1>2. [/\ Whp!SettledIsFinal
       /\ Whp!NotBeforeDue]_Whp!vars
      => [/\ Whk!SettledIsFinal
          /\ Whk!NotBeforeDue]_Whk!vars
    BY Zenon DEF Whk!SettledIsFinal, Whp!SettledIsFinal, Whk!NotBeforeDue, Whp!NotBeforeDue,
                 Whk!vars, Whp!vars, Whk!delivery, Whp!delivery
<1>3. part = "webhook" /\ [Next]_vars /\ UNCHANGED Whk!vars => UNCHANGED vars
    BY Zenon DEF Next, vars, Whk!vars, Whk!delivery, After10, After11, After12, After13
<1>4. part = "webhook" /\ [Next]_vars /\ [Whk!SettledIsFinal /\ Whk!NotBeforeDue]_Whk!vars => [Stands]_vars
    BY <1>3 DEF Stands, In
<1> QED
    BY <1>1, <1>2, <1>4, WebhookDeliveryIsSame, PTL DEF Spec
-----------------------------------------------------------------------------
(* The parts of a workspace.                                               *)
Wsp == INSTANCE WorkspaceProofs WITH
    attempts <- v1, sessions <- v2, events <- v3, local <- v4, click <- v5,
    now <- v6, faults <- v7, env <- v1, archived <- v2, registrations <- v3,
    attempt <- v4, subscription <- v5, catLocal <- v6, changed <- v7,
    changes <- v8, People <- Users, org <- v1, deleted <- v2, orgs <- v3,
    made <- v4, members <- v5, active <- v6, request <- v7, since <- v8,
    MemPeople <- People, run <- v1, courier <- v2, invitation <- v3, live <- v4,
    accounts <- v6, bound <- v7, hook <- v8, approved <- v9, revived <- v10,
    sends <- v11, memFaults <- v12, Free <- FreeName, domApproved <- v1,
    owner <- v2, form <- v3, lock <- v4, AplForms <- Submissions,
    Window <- RateWindow, aplForm <- v1, reviewed <- v2, aplLock <- v3,
    clock <- v4, endpoint <- v1, endLock <- v2, action <- v3, known <- v4,
    log <- v5, Keys <- LiveKeys, Users <- Senders, workspace <- v1, gate <- v2,
    keys <- v3, wsdOwner <- v4, page <- v5, wsdRequest <- v6, message <- v7,
    worker <- v8, handed <- v9, job <- v10, wsdLocal <- v11, stripe <- v12,
    session <- v13, wsdEvents <- v14, purger <- v15, wsdFaults <- v16,
    rows <- v1, cleared <- v2, role <- v3, place <- v4, late <- v5,
    inserts <- v6, deletes <- v7, ExpMaxTime <- MaxDate, created <- v1,
    expNow <- v2, section <- v3, cursor <- v4, out <- v5, whole <- v6,
    refused <- v7
\* The part "checkout" is what the proofs are about.
LEMMA CheckoutIsSame == Chk!Spec => Wsp!Chk!Spec
<1>1. Chk!Init => Wsp!Chk!Init
    BY Zenon DEF Chk!Init, Wsp!Chk!Init, Chk!Idle, Wsp!Chk!Idle, Chk!None, Wsp!Chk!None
<1>2. [Chk!Next]_Chk!vars => [Wsp!Chk!Next]_Wsp!Chk!vars
    BY Zenon DEF Chk!Next, Wsp!Chk!Next, Chk!vars, Wsp!Chk!vars, Chk!Tick, Wsp!Chk!Tick, Chk!Check,
                 Wsp!Chk!Check, Chk!ReadAttempt, Wsp!Chk!ReadAttempt, Chk!Retrieve,
                 Wsp!Chk!Retrieve, Chk!CloseAttempt, Wsp!Chk!CloseAttempt, Chk!Reserve,
                 Wsp!Chk!Reserve, Chk!Select, Wsp!Chk!Select, Chk!Create, Wsp!Chk!Create,
                 Chk!Store, Wsp!Chk!Store, Chk!Killed, Wsp!Chk!Killed, Chk!Again, Wsp!Chk!Again,
                 Chk!CloseSession, Wsp!Chk!CloseSession, Chk!ingestStripeWebhook,
                 Wsp!Chk!ingestStripeWebhook, Chk!At, Wsp!Chk!At, Chk!End, Wsp!Chk!End, Chk!Step,
                 Wsp!Chk!Step, Chk!None, Wsp!Chk!None, Chk!Pending, Wsp!Chk!Pending, Chk!Open,
                 Wsp!Chk!Open, Chk!ClosedAs, Wsp!Chk!ClosedAs, Chk!StillPending,
                 Wsp!Chk!StillPending, Chk!Reservable, Wsp!Chk!Reservable, Chk!Key, Wsp!Chk!Key,
                 Chk!Outcomes, Wsp!Chk!Outcomes, Chk!Idle, Wsp!Chk!Idle
<1> QED
    BY <1>1, <1>2, PTL DEF Chk!Spec, Wsp!Chk!Spec

LEMMA CheckoutFits == Wsp!Chk!CheckoutAssumption
BY Assumptions DEF Chk!CheckoutAssumption, Wsp!Chk!CheckoutAssumption

\* The part "catalog" is what the proofs are about.
LEMMA StripeCatalogIsSame == Cat!Spec => Wsp!Cat!Spec
<1>1. Cat!Init => Wsp!Cat!Init
    BY Zenon DEF Cat!Init, Wsp!Cat!Init, Cat!Configurations, Wsp!Cat!Configurations,
                 Cat!NoSubscription, Wsp!Cat!NoSubscription, Cat!TaxModes, Wsp!Cat!TaxModes,
                 Cat!Live, Wsp!Cat!Live
<1>2. [Cat!Next]_Cat!vars => [Wsp!Cat!Next]_Wsp!Cat!vars
    BY Zenon DEF Cat!Next, Wsp!Cat!Next, Cat!vars, Wsp!Cat!vars, Cat!prepareCheckout,
                 Wsp!Cat!prepareCheckout, Cat!Pay, Wsp!Cat!Pay, Cat!MadeByHand, Wsp!Cat!MadeByHand,
                 Cat!buildStripeSubscriptionSnapshot, Wsp!Cat!buildStripeSubscriptionSnapshot,
                 Cat!Deploy, Wsp!Cat!Deploy, Cat!Register, Wsp!Cat!Register, Cat!Archive,
                 Wsp!Cat!Archive, Cat!NoSubscription, Wsp!Cat!NoSubscription,
                 Cat!validateStripeCatalog, Wsp!Cat!validateStripeCatalog,
                 Cat!validateStripeTaxConfiguration, Wsp!Cat!validateStripeTaxConfiguration,
                 Cat!Live, Wsp!Cat!Live, Cat!Change, Wsp!Cat!Change, Cat!SnapshotErrors,
                 Wsp!Cat!SnapshotErrors, Cat!Configurations, Wsp!Cat!Configurations, Cat!TaxModes,
                 Wsp!Cat!TaxModes, Cat!Cardinality, Wsp!Cat!Cardinality, Cat!IsFiniteSet,
                 Wsp!Cat!IsFiniteSet
<1> QED
    BY <1>1, <1>2, PTL DEF Cat!Spec, Wsp!Cat!Spec

LEMMA StripeCatalogFits == Wsp!Cat!CatalogAssumption
BY Assumptions DEF Cat!CatalogAssumption, Wsp!Cat!CatalogAssumption

\* The part "access" is what the proofs are about.
LEMMA AccessIsSame == Acs!Spec => Wsp!Acs!Spec
<1>1. Acs!Init => Wsp!Acs!Init
    BY Zenon DEF Acs!Init, Wsp!Acs!Init, Acs!NoOrg, Wsp!Acs!NoOrg, Acs!Idle, Wsp!Acs!Idle,
                 Acs!NoWs, Wsp!Acs!NoWs, Acs!Cardinality, Wsp!Acs!Cardinality, Acs!IsFiniteSet,
                 Wsp!Acs!IsFiniteSet
<1>2. [Acs!Next]_Acs!vars => [Wsp!Acs!Next]_Wsp!Acs!vars
    BY Zenon DEF Acs!Next, Wsp!Acs!Next, Acs!vars, Wsp!Acs!vars, Acs!Arrive, Wsp!Acs!Arrive,
                 Acs!Lookup, Wsp!Acs!Lookup, Acs!ReadBootstrap, Wsp!Acs!ReadBootstrap,
                 Acs!bootstrapOwner, Wsp!Acs!bootstrapOwner, Acs!Join, Wsp!Acs!Join, Acs!Remember,
                 Wsp!Acs!Remember, Acs!ReadMembership, Wsp!Acs!ReadMembership, Acs!ReadWorkspace,
                 Wsp!Acs!ReadWorkspace, Acs!Leave, Wsp!Acs!Leave, Acs!acceptInvitation,
                 Wsp!Acs!acceptInvitation, Acs!setActive, Wsp!Acs!setActive,
                 Acs!removeWorkspaceMember, Wsp!Acs!removeWorkspaceMember,
                 Acs!requestWorkspaceDeletion, Wsp!Acs!requestWorkspaceDeletion, Acs!At,
                 Wsp!Acs!At, Acs!NoOrg, Wsp!Acs!NoOrg, Acs!NoWs, Wsp!Acs!NoWs, Acs!OrgsOf,
                 Wsp!Acs!OrgsOf, Acs!Who, Wsp!Acs!Who, Acs!Go, Wsp!Acs!Go, Acs!Live, Wsp!Acs!Live,
                 Acs!SlugFree, Wsp!Acs!SlugFree, Acs!Joined, Wsp!Acs!Joined, Acs!IsMember,
                 Wsp!Acs!IsMember, Acs!Found, Wsp!Acs!Found, Acs!Idle, Wsp!Acs!Idle, Acs!Slugged,
                 Wsp!Acs!Slugged, Acs!Cardinality, Wsp!Acs!Cardinality, Acs!IsFiniteSet,
                 Wsp!Acs!IsFiniteSet
<1> QED
    BY <1>1, <1>2, PTL DEF Acs!Spec, Wsp!Acs!Spec

LEMMA AccessFits == Wsp!Acs!AccessAssumption
BY Assumptions DEF Acs!AccessAssumption, Wsp!Acs!AccessAssumption, Acs!IsFiniteSet,
                   Wsp!Acs!IsFiniteSet, Acs!Cardinality, Wsp!Acs!Cardinality

\* The part "domains" is what the proofs are about.
LEMMA DomainsIsSame == Dom!Spec => Wsp!Dom!Spec
<1>1. Dom!Init => Wsp!Dom!Init
    BY Zenon DEF Dom!Init, Wsp!Dom!Init, Dom!Idle, Wsp!Dom!Idle
<1>2. [Dom!Next]_Dom!vars => [Wsp!Dom!Next]_Wsp!Dom!vars
    BY Zenon DEF Dom!Next, Wsp!Dom!Next, Dom!vars, Wsp!Dom!vars, Dom!Submit, Wsp!Dom!Submit,
                 Dom!AcquireLock, Wsp!Dom!AcquireLock, Dom!CheckNames, Wsp!Dom!CheckNames,
                 Dom!addDomain, Wsp!Dom!addDomain, Dom!ChangeStatus, Wsp!Dom!ChangeStatus,
                 Dom!Purged, Wsp!Dom!Purged, Dom!At, Wsp!Dom!At, Dom!Limit, Wsp!Dom!Limit,
                 Dom!Available, Wsp!Dom!Available, Dom!Allowed, Wsp!Dom!Allowed, Dom!Idle,
                 Wsp!Dom!Idle, Dom!Of, Wsp!Dom!Of, Dom!Overlaps, Wsp!Dom!Overlaps, Dom!Cardinality,
                 Wsp!Dom!Cardinality, Dom!IsFiniteSet, Wsp!Dom!IsFiniteSet
<1> QED
    BY <1>1, <1>2, PTL DEF Dom!Spec, Wsp!Dom!Spec

LEMMA DomainsFits == Wsp!Dom!DomainsAssumption
BY Assumptions DEF Dom!DomainsAssumption, Wsp!Dom!DomainsAssumption

\* The part "applications" is what the proofs are about.
LEMMA ApplicationsIsSame == Apl!Spec => Wsp!Apl!Spec
<1>1. Apl!Init => Wsp!Apl!Init
    BY Zenon DEF Apl!Init, Wsp!Apl!Init, Apl!Idle, Wsp!Apl!Idle
<1>2. [Apl!Next]_Apl!vars => [Wsp!Apl!Next]_Wsp!Apl!vars
    BY Zenon DEF Apl!Next, Wsp!Apl!Next, Apl!vars, Wsp!Apl!vars, Apl!Tick, Wsp!Apl!Tick,
                 Apl!Submit, Wsp!Apl!Submit, Apl!AcquireLock, Wsp!Apl!AcquireLock, Apl!Count,
                 Wsp!Apl!Count, Apl!recordBetaApplication, Wsp!Apl!recordBetaApplication,
                 Apl!markBetaApplicationReviewed, Wsp!Apl!markBetaApplicationReviewed, Apl!At,
                 Wsp!Apl!At, Apl!Available, Wsp!Apl!Available, Apl!RateLimited,
                 Wsp!Apl!RateLimited, Apl!Idle, Wsp!Apl!Idle, Apl!Rows, Wsp!Apl!Rows, Apl!StillNew,
                 Wsp!Apl!StillNew, Apl!Since, Wsp!Apl!Since, Apl!Cardinality, Wsp!Apl!Cardinality,
                 Apl!IsFiniteSet, Wsp!Apl!IsFiniteSet
<1> QED
    BY <1>1, <1>2, PTL DEF Apl!Spec, Wsp!Apl!Spec

LEMMA ApplicationsFits == Wsp!Apl!ApplicationsAssumption
BY Assumptions DEF Apl!ApplicationsAssumption, Wsp!Apl!ApplicationsAssumption

\* The part "endpoints" is what the proofs are about.
LEMMA EndpointsIsSame == End!Spec => Wsp!End!Spec
<1>1. End!Init => Wsp!End!Init
    BY Zenon DEF End!Init, Wsp!End!Init, End!Nobody, Wsp!End!Nobody, End!Idle, Wsp!End!Idle
<1>2. [End!Next]_End!vars => [Wsp!End!Next]_Wsp!End!vars
    BY Zenon DEF End!Next, Wsp!End!Next, End!vars, Wsp!End!vars, End!Tick, Wsp!End!Tick,
                 End!createWebhook, Wsp!End!createWebhook, End!LockToToggle, Wsp!End!LockToToggle,
                 End!toggleWebhook, Wsp!End!toggleWebhook, End!Rollback, Wsp!End!Rollback,
                 End!rotateWebhookSecret, Wsp!End!rotateWebhookSecret, End!deleteWebhook,
                 Wsp!End!deleteWebhook, End!ReadToTest, Wsp!End!ReadToTest, End!sendWebhookTest,
                 Wsp!End!sendWebhookTest, End!Idle, Wsp!End!Idle, End!Audit, Wsp!End!Audit,
                 End!Free, Wsp!End!Free, End!Nobody, Wsp!End!Nobody, End!TooSoon, Wsp!End!TooSoon,
                 End!Recent, Wsp!End!Recent
<1> QED
    BY <1>1, <1>2, PTL DEF End!Spec, Wsp!End!Spec

LEMMA EndpointsFits == Wsp!End!EndpointsAssumption
BY Assumptions DEF End!EndpointsAssumption, Wsp!End!EndpointsAssumption

\* The part "members" is what the proofs are about.
LEMMA MembershipIsSame == Mem!Spec => Wsp!Mem!Spec
<1>1. Mem!Init => Wsp!Mem!Init
    BY Zenon DEF Mem!Init, Wsp!Mem!Init
<1>2. [Mem!Next]_Mem!vars => [Wsp!Mem!Next]_Wsp!Mem!vars
    BY Zenon DEF Mem!Next, Wsp!Mem!Next, Mem!vars, Wsp!Mem!vars, Mem!ClaimDelivery,
                 Wsp!Mem!ClaimDelivery, Mem!SendInvitation, Wsp!Mem!SendInvitation,
                 Mem!RecordDelivery, Wsp!Mem!RecordDelivery, Mem!CourierDies, Wsp!Mem!CourierDies,
                 Mem!afterAcceptInvitation, Wsp!Mem!afterAcceptInvitation,
                 Mem!reconcilePendingOwnerInvitations, Wsp!Mem!reconcilePendingOwnerInvitations,
                 Mem!Review, Wsp!Mem!Review, Mem!createUser, Wsp!Mem!createUser, Mem!Accept,
                 Wsp!Mem!Accept, Mem!Expire, Wsp!Mem!Expire, Mem!WorkspaceAdmin,
                 Wsp!Mem!WorkspaceAdmin, Mem!PlatformAdmin, Wsp!Mem!PlatformAdmin, Mem!owner,
                 Wsp!Mem!owner, Mem!people, Wsp!Mem!people, Mem!counts, Wsp!Mem!counts,
                 Mem!Claimable, Wsp!Mem!Claimable, Mem!Renewed, Wsp!Mem!Renewed, Mem!Fault,
                 Wsp!Mem!Fault, Mem!reconcileAcceptedOwner, Wsp!Mem!reconcileAcceptedOwner,
                 Mem!Unreconciled, Wsp!Mem!Unreconciled, Mem!mayCreateUser, Wsp!Mem!mayCreateUser,
                 Mem!Waiting, Wsp!Mem!Waiting, Mem!inviteWorkspaceMember,
                 Wsp!Mem!inviteWorkspaceMember, Mem!issueInvitationLink,
                 Wsp!Mem!issueInvitationLink, Mem!cancelWorkspaceMemberInvitation,
                 Wsp!Mem!cancelWorkspaceMemberInvitation, Mem!removeWorkspaceMember,
                 Wsp!Mem!removeWorkspaceMember, Mem!Deliverable, Wsp!Mem!Deliverable, Mem!Full,
                 Wsp!Mem!Full, Mem!Taken, Wsp!Mem!Taken, Mem!Cardinality, Wsp!Mem!Cardinality,
                 Mem!IsFiniteSet, Wsp!Mem!IsFiniteSet
<1> QED
    BY <1>1, <1>2, PTL DEF Mem!Spec, Wsp!Mem!Spec

LEMMA MembershipFits == Wsp!Mem!MembershipAssumption
BY Assumptions DEF Mem!MembershipAssumption, Wsp!Mem!MembershipAssumption

\* The part "deletion" is what the proofs are about.
LEMMA WorkspaceDeletionIsSame == Wsd!Spec => Wsp!Wsd!Spec
<1>1. Wsd!Init => Wsp!Wsd!Init
    BY Zenon DEF Wsd!Init, Wsp!Wsd!Init
<1>2. [Wsd!Next]_Wsd!vars => [Wsp!Wsd!Next]_Wsp!Wsd!vars
    BY Zenon DEF Wsd!Next, Wsp!Wsd!Next, Wsd!vars, Wsp!Wsd!vars, Wsd!Console, Wsp!Wsd!Console,
                 Wsd!revokeApiKeyAction, Wsp!Wsd!revokeApiKeyAction, Wsd!Traffic, Wsp!Wsd!Traffic,
                 Wsd!StripeChanges, Wsp!Wsd!StripeChanges, Wsd!prepareCheckout,
                 Wsp!Wsd!prepareCheckout, Wsd!ingestStripeWebhook, Wsp!Wsd!ingestStripeWebhook,
                 Wsd!StartPurge, Wsp!Wsd!StartPurge, Wsd!Purge, Wsp!Wsd!Purge, Wsd!PurgeStops,
                 Wsp!Wsd!PurgeStops, Wsd!tenant, Wsp!Wsd!tenant, Wsd!access, Wsp!Wsd!access,
                 Wsd!sending, Wsp!Wsd!sending, Wsd!billing, Wsp!Wsd!billing, Wsd!currentWorkspace,
                 Wsp!Wsd!currentWorkspace, Wsd!createApiKeyFormAction,
                 Wsp!Wsd!createApiKeyFormAction, Wsd!HandOver, Wsp!Wsd!HandOver,
                 Wsd!requestWorkspaceDeletion, Wsp!Wsd!requestWorkspaceDeletion,
                 Wsd!authenticateApiKey, Wsp!Wsd!authenticateApiKey, Wsd!Prepare, Wsp!Wsd!Prepare,
                 Wsd!acceptEmail, Wsp!Wsd!acceptEmail, Wsd!Claim, Wsp!Wsd!Claim, Wsd!Evaluate,
                 Wsp!Wsd!Evaluate, Wsd!Transmit, Wsp!Wsd!Transmit, Wsd!CommitAccepted,
                 Wsp!Wsd!CommitAccepted, Wsd!WorkerDies, Wsp!Wsd!WorkerDies,
                 Wsd!recoverStaleSending, Wsp!Wsd!recoverStaleSending, Wsd!ingestProviderEvent,
                 Wsp!Wsd!ingestProviderEvent, Wsd!Report, Wsp!Wsd!Report, Wsd!blockingSubscription,
                 Wsp!Wsd!blockingSubscription, Wsd!Purgeable, Wsp!Wsd!Purgeable, Wsd!PurgeBatch,
                 Wsp!Wsd!PurgeBatch, Wsd!PurgeEnds, Wsp!Wsd!PurgeEnds, Wsd!Fault, Wsp!Wsd!Fault,
                 Wsd!Insertable, Wsp!Wsd!Insertable, Wsd!InFlight, Wsp!Wsd!InFlight,
                 Wsd!Unreported, Wsp!Wsd!Unreported, Wsd!Authenticates, Wsp!Wsd!Authenticates,
                 Wsd!Allowed, Wsp!Wsd!Allowed, Wsd!Become, Wsp!Wsd!Become, Wsd!Work, Wsp!Wsd!Work,
                 Wsd!Bill, Wsp!Wsd!Bill, Wsd!purgeOrder, Wsp!Wsd!purgeOrder, Wsd!Rows,
                 Wsp!Wsd!Rows, Wsd!EraseMessage, Wsp!Wsd!EraseMessage, Wsd!EraseJob,
                 Wsp!Wsd!EraseJob
<1> QED
    BY <1>1, <1>2, PTL DEF Wsd!Spec, Wsp!Wsd!Spec

LEMMA WorkspaceDeletionFits == Wsp!Wsd!DeletionAssumption
BY Assumptions DEF Wsd!DeletionAssumption, Wsp!Wsd!DeletionAssumption, Wsd!IsFiniteSet,
                   Wsp!Wsd!IsFiniteSet

\* The part "erasure" is what the proofs are about.
LEMMA ErasureIsSame == Ers!Spec => Wsp!Ers!Spec
<1>1. Ers!Init => Wsp!Ers!Init
    BY Zenon DEF Ers!Init, Wsp!Ers!Init
<1>2. [Ers!Next]_Ers!vars => [Wsp!Ers!Next]_Wsp!Ers!vars
    BY Zenon DEF Ers!Next, Wsp!Ers!Next, Ers!vars, Wsp!Ers!vars, Ers!Insert, Wsp!Ers!Insert,
                 Ers!purgeWorkspaceRetention, Wsp!Ers!purgeWorkspaceRetention, Ers!deleteWebhook,
                 Wsp!Ers!deleteWebhook, Ers!deleteUserAccount, Wsp!Ers!deleteUserAccount,
                 Ers!requestWorkspaceDeletion, Wsp!Ers!requestWorkspaceDeletion,
                 Ers!purgeDeletedWorkspace, Wsp!Ers!purgeDeletedWorkspace, Ers!retentionTables,
                 Wsp!Ers!retentionTables, Ers!Counted, Wsp!Ers!Counted, Ers!Delete, Wsp!Ers!Delete,
                 Ers!Last, Wsp!Ers!Last, Ers!Victims, Wsp!Ers!Victims, Ers!Refused,
                 Wsp!Ers!Refused, Ers!Doomed, Wsp!Ers!Doomed, Ers!purgeOrder, Wsp!Ers!purgeOrder,
                 Ers!Referring, Wsp!Ers!Referring
<1> QED
    BY <1>1, <1>2, PTL DEF Ers!Spec, Wsp!Ers!Spec

LEMMA ErasureFits == Wsp!Ers!ErasureAssumption
BY Assumptions DEF Ers!ErasureAssumption, Wsp!Ers!ErasureAssumption

\* The part "export" is what the proofs are about.
LEMMA ExportIsSame == Exp!Spec => Wsp!Exp!Spec
<1>1. Exp!Init => Wsp!Exp!Init
    BY Zenon DEF Exp!Init, Wsp!Exp!Init, Exp!None, Wsp!Exp!None
<1>2. [Exp!Next]_Exp!vars => [Wsp!Exp!Next]_Wsp!Exp!vars
    BY Zenon DEF Exp!Next, Wsp!Exp!Next, Exp!vars, Wsp!Exp!vars, Exp!Authorize, Wsp!Exp!Authorize,
                 Exp!ReadAtOnce, Wsp!Exp!ReadAtOnce, Exp!ReadNewest, Wsp!Exp!ReadNewest,
                 Exp!ReadPage, Wsp!Exp!ReadPage, Exp!EndSection, Wsp!Exp!EndSection, Exp!Tick,
                 Wsp!Exp!Tick, Exp!Insert, Wsp!Exp!Insert, Exp!Delete, Wsp!Exp!Delete, Exp!Rows,
                 Wsp!Exp!Rows, Exp!Reading, Wsp!Exp!Reading, Exp!Kind, Wsp!Exp!Kind, Exp!InOrder,
                 Wsp!Exp!InOrder, Exp!FirstOf, Wsp!Exp!FirstOf, Exp!after, Wsp!Exp!after,
                 Exp!cursorText, Wsp!Exp!cursorText, Exp!Row, Wsp!Exp!Row, Exp!Complete,
                 Wsp!Exp!Complete, Exp!NextSection, Wsp!Exp!NextSection, Exp!Sections,
                 Wsp!Exp!Sections, Exp!Sorted, Wsp!Exp!Sorted, Exp!Before, Wsp!Exp!Before,
                 Exp!None, Wsp!Exp!None, Exp!Cardinality, Wsp!Exp!Cardinality, Exp!IsFiniteSet,
                 Wsp!Exp!IsFiniteSet, Exp!Range, Wsp!Exp!Range, Exp!Reverse, Wsp!Exp!Reverse,
                 Exp!Last, Wsp!Exp!Last
<1> QED
    BY <1>1, <1>2, PTL DEF Exp!Spec, Wsp!Exp!Spec

LEMMA ExportFits == Wsp!Exp!ExportAssumption
BY Assumptions DEF Exp!ExportAssumption, Wsp!Exp!ExportAssumption, Exp!IsFiniteSet,
                   Wsp!Exp!IsFiniteSet

\* The schema of the parts is that of the proofs.
LEMMA SchemaIsSame == Wsp!SchemaIs
BY Zenon DEF Wsp!SchemaIs, With, Wsp!Sch!With, Nulls, Wsp!Sch!Nulls, Needs, Wsp!Sch!Needs, Refuses,
             Wsp!Sch!Refuses, OfWorkspace, Wsp!Sch!OfWorkspace, authUsers, Wsp!Sch!authUsers,
             authOrganizations, Wsp!Sch!authOrganizations, authSessions, Wsp!Sch!authSessions,
             authAccounts, Wsp!Sch!authAccounts, authVerifications, Wsp!Sch!authVerifications,
             authMembers, Wsp!Sch!authMembers, authInvitations, Wsp!Sch!authInvitations,
             authPasskeys, Wsp!Sch!authPasskeys, authRateLimits, Wsp!Sch!authRateLimits,
             workspaces, Wsp!Sch!workspaces, workspaceSettings, Wsp!Sch!workspaceSettings,
             subscriptions, Wsp!Sch!subscriptions, usageMonths, Wsp!Sch!usageMonths,
             stripeUsageReports, Wsp!Sch!stripeUsageReports, stripeUsageReportJobs,
             Wsp!Sch!stripeUsageReportJobs, stripeCheckoutAttempts, Wsp!Sch!stripeCheckoutAttempts,
             usageDays, Wsp!Sch!usageDays, domains, Wsp!Sch!domains, workspaceProviderAccounts,
             Wsp!Sch!workspaceProviderAccounts, domainProviderBindings,
             Wsp!Sch!domainProviderBindings, sesResources, Wsp!Sch!sesResources, suppressions,
             Wsp!Sch!suppressions, transactionalProfiles, Wsp!Sch!transactionalProfiles, templates,
             Wsp!Sch!templates, templateVersions, Wsp!Sch!templateVersions, messages,
             Wsp!Sch!messages, usageLedger, Wsp!Sch!usageLedger, outboxJobs, Wsp!Sch!outboxJobs,
             messageAttempts, Wsp!Sch!messageAttempts, emailEvents, Wsp!Sch!emailEvents,
             attachments, Wsp!Sch!attachments, apiKeys, Wsp!Sch!apiKeys, apiRateLimits,
             Wsp!Sch!apiRateLimits, idempotencyKeys, Wsp!Sch!idempotencyKeys, webhookEndpoints,
             Wsp!Sch!webhookEndpoints, webhookDeliveries, Wsp!Sch!webhookDeliveries, stripeEvents,
             Wsp!Sch!stripeEvents, auditEvents, Wsp!Sch!auditEvents, adminReviews,
             Wsp!Sch!adminReviews, clientProvisioningRuns, Wsp!Sch!clientProvisioningRuns,
             betaApplications, Wsp!Sch!betaApplications, References, Wsp!Sch!References, Tables,
             Wsp!Sch!Tables, Twice, Wsp!Sch!Twice, Direct, Wsp!Sch!Direct, CascadesTo,
             Wsp!Sch!CascadesTo, PlatformTables, Wsp!Sch!PlatformTables

LEMMA SchemaIsFit == Wsp!SchemaFits
BY SchemaIsSame, Wsp!SchemaIsFit

(* One checkout session is open at a time, and a settled attempt tells the *)
(* outcome of its session (billing/checkout.ts).                           *)
THEOREM CheckoutsAreOne == Spec => []OneOpenSession
<1>1. Wsp!Chk!Spec => [](Wsp!Chk!TypeOK /\ Wsp!Chk!OneOpenSession)
    BY CheckoutFits, Wsp!OneSessionIsOpen, PTL
<1>2. Wsp!Chk!OneOpenSession => OneOpenSession
    BY Zenon DEF OneOpenSession, Chk!OneOpenSession, Wsp!Chk!OneOpenSession, Chk!Open,
                 Wsp!Chk!Open, Chk!None, Wsp!Chk!None, Chk!Cardinality, Wsp!Chk!Cardinality,
                 Chk!IsFiniteSet, Wsp!Chk!IsFiniteSet
<1>3. ~(part = "checkout") => OneOpenSession
    BY DEF OneOpenSession, In
<1> QED
    BY <1>1, <1>2, <1>3, CheckoutRuns, CheckoutIsSame, PTL

(* What is sold is what the environment names, and workers run on secrets  *)
(* they were given (billing/stripe-catalog.ts, workers/runtime-secrets.ts).*)
THEOREM ConfigurationsHold == Spec => []ConfigurationHolds
<1>1. Wsp!Cat!Spec => [](Wsp!Cat!TypeOK /\ Wsp!Cat!PaidIsAccepted)
    BY StripeCatalogFits, Wsp!PaymentsAreAccepted, PTL
<1>2. Wsp!Cat!PaidIsAccepted => Cat!PaidIsAccepted
    BY Zenon DEF Cat!PaidIsAccepted, Wsp!Cat!PaidIsAccepted, Cat!NoSubscription,
                 Wsp!Cat!NoSubscription, Cat!SnapshotErrors, Wsp!Cat!SnapshotErrors, Cat!Live,
                 Wsp!Cat!Live, Cat!Cardinality, Wsp!Cat!Cardinality, Cat!IsFiniteSet,
                 Wsp!Cat!IsFiniteSet
<1>3. Spec => [](part = "catalog" => Cat!PaidIsAccepted)
    BY <1>1, <1>2, StripeCatalogRuns, StripeCatalogIsSame, PTL
<1>4. Msg!Sec!Spec => [](Msg!Sec!TypeOK /\ Msg!Sec!SecretsAreLoaded)
    BY RuntimeSecretsFits, Msg!CallersGetSecrets, PTL
<1>5. Msg!Sec!SecretsAreLoaded => Sec!SecretsAreLoaded
    BY Zenon DEF Sec!SecretsAreLoaded, Msg!Sec!SecretsAreLoaded, Sec!Nobody, Msg!Sec!Nobody
<1>6. Spec => [](part = "secrets" => Sec!SecretsAreLoaded)
    BY <1>4, <1>5, RuntimeSecretsRuns, RuntimeSecretsIsSame, PTL
<1>7. ((part = "catalog" => Cat!PaidIsAccepted) /\ (part = "secrets" => Sec!SecretsAreLoaded)) => ConfigurationHolds
    BY DEF ConfigurationHolds, In
<1> QED
    BY <1>3, <1>6, <1>7, PTL

(* A check before a transaction still holds after it: who may enter, the   *)
(* last owner and the seats, claimed domains, applications in an hour, the *)
(* trail of the endpoints.                                                 *)
THEOREM ChecksKeepHolding == Spec => []ChecksStillHold
<1>1. Wsp!Acs!Spec => [](Wsp!Acs!TypeOK /\ Wsp!Acs!OrganizationsHaveWorkspaces /\ Wsp!Acs!RemovedStayOut)
    BY AccessFits, Wsp!MembersEnter, PTL
<1>2. /\ Wsp!Acs!OrganizationsHaveWorkspaces
      /\ Wsp!Acs!RemovedStayOut
      => /\ Acs!OrganizationsHaveWorkspaces
         /\ Acs!RemovedStayOut
    BY Zenon DEF Acs!OrganizationsHaveWorkspaces, Wsp!Acs!OrganizationsHaveWorkspaces,
                 Acs!RemovedStayOut, Wsp!Acs!RemovedStayOut, Acs!At, Wsp!Acs!At
<1>3. Spec => [](part = "access" => Acs!OrganizationsHaveWorkspaces /\ Acs!RemovedStayOut)
    BY <1>1, <1>2, AccessRuns, AccessIsSame, PTL
<1>4. Wsp!Mem!Spec => [](Wsp!Mem!TypeOK /\ Wsp!Mem!SeatsHold)
    BY MembershipFits, Wsp!SeatsAreKept, PTL
<1>5. Wsp!Mem!SeatsHold => Mem!SeatsHold
    BY Zenon DEF Mem!SeatsHold, Wsp!Mem!SeatsHold, Mem!Taken, Wsp!Mem!Taken, Mem!Waiting,
                 Wsp!Mem!Waiting, Mem!Cardinality, Wsp!Mem!Cardinality, Mem!IsFiniteSet,
                 Wsp!Mem!IsFiniteSet
<1>6. Spec => [](part = "members" => Mem!SeatsHold)
    BY <1>4, <1>5, MembershipRuns, MembershipIsSame, PTL
<1>7. Wsp!Dom!Spec => [](Wsp!Dom!TypeOK /\ Wsp!Dom!DomainsAreDisjoint)
    BY DomainsFits, Wsp!DomainsStayDisjoint, PTL
<1>8. Wsp!Dom!DomainsAreDisjoint => Dom!DomainsAreDisjoint
    BY Zenon DEF Dom!DomainsAreDisjoint, Wsp!Dom!DomainsAreDisjoint, Dom!Of, Wsp!Dom!Of,
                 Dom!Cardinality, Wsp!Dom!Cardinality, Dom!IsFiniteSet, Wsp!Dom!IsFiniteSet
<1>9. Spec => [](part = "domains" => Dom!DomainsAreDisjoint)
    BY <1>7, <1>8, DomainsRuns, DomainsIsSame, PTL
<1>10. Wsp!Apl!Spec => [](Wsp!Apl!TypeOK /\ Wsp!Apl!ThrottledInAnyWindow)
    BY ApplicationsFits, Wsp!HoursAreThrottled, PTL
<1>11. Wsp!Apl!ThrottledInAnyWindow => Apl!ThrottledInAnyWindow
    BY Zenon DEF Apl!ThrottledInAnyWindow, Wsp!Apl!ThrottledInAnyWindow, Apl!Rows, Wsp!Apl!Rows,
                 Apl!At, Wsp!Apl!At, Apl!Cardinality, Wsp!Apl!Cardinality, Apl!IsFiniteSet,
                 Wsp!Apl!IsFiniteSet
<1>12. Spec => [](part = "applications" => Apl!ThrottledInAnyWindow)
    BY <1>10, <1>11, ApplicationsRuns, ApplicationsIsSame, PTL
<1>13. Wsp!End!Spec => [](Wsp!End!TypeOK /\ Wsp!End!TrailIsTrue)
    BY EndpointsFits, Wsp!TrailTellsTheTruth, PTL
<1>14. Wsp!End!TrailIsTrue => End!TrailIsTrue
    BY Zenon DEF End!TrailIsTrue, Wsp!End!TrailIsTrue, End!Switches, Wsp!End!Switches,
                 End!Switched, Wsp!End!Switched, End!Cardinality, Wsp!End!Cardinality,
                 End!IsFiniteSet, Wsp!End!IsFiniteSet
<1>15. Spec => [](part = "endpoints" => End!TrailIsTrue)
    BY <1>13, <1>14, EndpointsRuns, EndpointsIsSame, PTL
<1>16. /\ part = "access" => Acs!OrganizationsHaveWorkspaces /\ Acs!RemovedStayOut
       /\ part = "members" => Mem!SeatsHold
       /\ part = "domains" => Dom!DomainsAreDisjoint
       /\ part = "applications" => Apl!ThrottledInAnyWindow
       /\ part = "endpoints" => End!TrailIsTrue
       => ChecksStillHold
    BY DEF ChecksStillHold, In
<1> QED
    BY <1>3, <1>6, <1>9, <1>12, <1>15, <1>16, PTL

(* A deleted workspace is gone for good and its usage is reported: nothing *)
(* comes back, and the purge is never refused and leaves nothing, in       *)
(* batches (workspaces/deletion.ts, retention/purge.ts, db/schema.ts).     *)
(* Premises: no provider confirms an unknown message of a workspace that   *)
(* is being deleted, and no checkout session is left open.                 *)
THEOREM DeletionsStayClean ==
    ASSUME ~LateEvents, ~Checkouts
    PROVE  Spec => []DeletionIsClean
<1>1. Wsp!Wsd!Spec => [](Wsp!Wsd!TypeOK /\ Wsp!Wsd!UsageIsReported /\ Wsp!Wsd!GoneIsEmpty)
    BY WorkspaceDeletionFits, Wsp!DeletionsAreClean, PTL
<1>2. Wsp!Wsd!UsageIsReported /\ Wsp!Wsd!GoneIsEmpty => Wsd!UsageIsReported /\ Wsd!GoneIsEmpty
    BY Zenon DEF Wsd!UsageIsReported, Wsp!Wsd!UsageIsReported, Wsd!GoneIsEmpty, Wsp!Wsd!GoneIsEmpty
<1>3. Spec => [](part = "deletion" => Wsd!UsageIsReported /\ Wsd!GoneIsEmpty)
    BY <1>1, <1>2, WorkspaceDeletionRuns, WorkspaceDeletionIsSame, PTL
<1>4. Wsp!Ers!Spec => [](/\ Wsp!Ers!TypeOK
                         /\ Wsp!Ers!PurgeIsNeverRefused
                         /\ Wsp!Ers!NothingIsLeft
                         /\ Wsp!Ers!BatchesAreBounded)
    BY ErasureFits, Wsp!PurgesAreClean, SchemaIsFit, PTL
<1>5. /\ Wsp!Ers!PurgeIsNeverRefused
      /\ Wsp!Ers!NothingIsLeft
      /\ Wsp!Ers!BatchesAreBounded
      => /\ Ers!PurgeIsNeverRefused
         /\ Ers!NothingIsLeft
         /\ Ers!BatchesAreBounded
    BY Zenon DEF Ers!PurgeIsNeverRefused, Wsp!Ers!PurgeIsNeverRefused, Ers!NothingIsLeft,
                 Wsp!Ers!NothingIsLeft, Ers!BatchesAreBounded, Wsp!Ers!BatchesAreBounded, Ers!Last,
                 Wsp!Ers!Last, Ers!Refused, Wsp!Ers!Refused, Ers!Victims, Wsp!Ers!Victims,
                 Ers!Gone, Wsp!Ers!Gone, Ers!Doomed, Wsp!Ers!Doomed, Ers!purgeOrder,
                 Wsp!Ers!purgeOrder, Ers!Referring, Wsp!Ers!Referring
<1>6. Spec => [](part = "erasure" => Ers!PurgeIsNeverRefused /\ Ers!NothingIsLeft /\ Ers!BatchesAreBounded)
    BY <1>4, <1>5, ErasureRuns, ErasureIsSame, PTL
<1>7. /\ part = "deletion" => Wsd!UsageIsReported /\ Wsd!GoneIsEmpty
      /\ part = "erasure" => Ers!PurgeIsNeverRefused /\ Ers!NothingIsLeft /\ Ers!BatchesAreBounded
      => DeletionIsClean
    BY DEF DeletionIsClean, In
<1> QED
    BY <1>3, <1>6, <1>7, PTL

(* An export has every row once, whatever is inserted and deleted between  *)
(* its pages (workspace-data/export.ts).                                   *)
THEOREM ExportsStayExact == Spec => []ExportIsExact
<1>1. Wsp!Exp!Spec => [](Wsp!Exp!TypeOK /\ Wsp!Exp!ExportIsExact)
    BY ExportFits, Wsp!ExportsAreExact, PTL
<1>2. Wsp!Exp!ExportIsExact => ExportIsExact
    BY Zenon DEF ExportIsExact, Exp!ExportIsExact, Wsp!Exp!ExportIsExact, Exp!Complete,
                 Wsp!Exp!Complete, Exp!Kind, Wsp!Exp!Kind, Exp!Reading, Wsp!Exp!Reading, Exp!Rows,
                 Wsp!Exp!Rows, Exp!Sections, Wsp!Exp!Sections, Exp!Range, Wsp!Exp!Range,
                 Exp!IsInjective, Wsp!Exp!IsInjective
<1>3. ~(part = "export") => ExportIsExact
    BY DEF ExportIsExact, In
<1> QED
    BY <1>1, <1>2, <1>3, ExportRuns, ExportIsSame, PTL

(* The types of every part: what its tables and its queue may hold, and how *)
(* far its clocks and counters go. Each part by its own invariant.         *)
THEOREM TypesHold == Spec => []TypeOK
<1>1. Msg!Acc!Spec => [](Msg!Acc!TypeOK /\ Msg!AcceptanceInvariant)
    BY AcceptanceFits, Msg!AcceptanceHolds, PTL
<1>2. Msg!Acc!TypeOK => Acc!TypeOK
    BY Zenon DEF Acc!TypeOK, Msg!Acc!TypeOK, Acc!Calls, Msg!Acc!Calls, Acc!Answers,
                 Msg!Acc!Answers, Acc!Modes, Msg!Acc!Modes, Acc!NoInput, Msg!Acc!NoInput,
                 Acc!Inputs, Msg!Acc!Inputs, Acc!Unanswered, Msg!Acc!Unanswered, Acc!Codes,
                 Msg!Acc!Codes
<1>3. Spec => [](part = "acceptance" => Acc!TypeOK)
    BY <1>1, <1>2, AcceptanceRuns, AcceptanceIsSame, PTL
<1>4. Msg!Att!Spec => [](Msg!Att!TypeOK /\ Msg!Att!CleanWasVerified)
    BY AttachmentsFits, Msg!AttachmentsAreScanned, PTL
<1>5. Msg!Att!TypeOK => Att!TypeOK
    BY Zenon DEF Att!TypeOK, Msg!Att!TypeOK, Att!Statuses, Msg!Att!Statuses, Att!Results,
                 Msg!Att!Results, Att!Clean, Msg!Att!Clean, Att!Threat, Msg!Att!Threat,
                 Att!ScannerStates, Msg!Att!ScannerStates, Att!Stages, Msg!Att!Stages, Att!Status,
                 Msg!Att!Status, Att!Idle, Msg!Att!Idle
<1>6. Spec => [](part = "attachments" => Att!TypeOK)
    BY <1>4, <1>5, AttachmentsRuns, AttachmentsIsSame, PTL
<1>7. Lsg!Att!Spec => [](Lsg!Att!TypeOK /\ Lsg!Att!CleanWasVerified)
    BY VerFits, Lsg!AttachmentsAreScanned, PTL
<1>8. Lsg!Att!TypeOK => Ver!TypeOK
    BY Zenon DEF Ver!TypeOK, Lsg!Att!TypeOK, Ver!Statuses, Lsg!Att!Statuses, Ver!Results,
                 Lsg!Att!Results, Ver!Clean, Lsg!Att!Clean, Ver!Threat, Lsg!Att!Threat,
                 Ver!ScannerStates, Lsg!Att!ScannerStates, Ver!Stages, Lsg!Att!Stages, Ver!Status,
                 Lsg!Att!Status, Ver!Idle, Lsg!Att!Idle
<1>9. Spec => [](part = "verdicts" => Ver!TypeOK)
    BY <1>7, <1>8, VerRuns, VerIsSame, PTL
<1>10. Msg!Wrm!Spec => [](Msg!Wrm!TypeOK /\ Msg!WarmupInvariant)
    BY WarmupFits, Msg!WarmupHolds, PTL
<1>11. Msg!Wrm!TypeOK => Wrm!TypeOK
    BY Zenon DEF Wrm!TypeOK, Msg!Wrm!TypeOK, Wrm!Statuses, Msg!Wrm!Statuses, Wrm!Reasons,
                 Msg!Wrm!Reasons, Wrm!MaxStage, Msg!Wrm!MaxStage, Wrm!Days, Msg!Wrm!Days, Wrm!Idle,
                 Msg!Wrm!Idle
<1>12. Spec => [](part = "warmup" => Wrm!TypeOK)
    BY <1>10, <1>11, WarmupRuns, WarmupIsSame, PTL
<1>13. Wsp!Chk!Spec => [](Wsp!Chk!TypeOK /\ Wsp!Chk!OneOpenSession)
    BY CheckoutFits, Wsp!OneSessionIsOpen, PTL
<1>14. Wsp!Chk!TypeOK => Chk!TypeOK
    BY Zenon DEF Chk!TypeOK, Wsp!Chk!TypeOK, Chk!Attempt, Wsp!Chk!Attempt, Chk!Session,
                 Wsp!Chk!Session, Chk!Pcs, Wsp!Chk!Pcs, Chk!Outcomes, Wsp!Chk!Outcomes
<1>15. Spec => [](part = "checkout" => Chk!TypeOK)
    BY <1>13, <1>14, CheckoutRuns, CheckoutIsSame, PTL
<1>16. Wsp!Cat!Spec => [](Wsp!Cat!TypeOK /\ Wsp!Cat!PaidIsAccepted)
    BY StripeCatalogFits, Wsp!PaymentsAreAccepted, PTL
<1>17. Wsp!Cat!TypeOK => Cat!TypeOK
    BY Zenon DEF Cat!TypeOK, Wsp!Cat!TypeOK, Cat!Configurations, Wsp!Cat!Configurations,
                 Cat!TaxModes, Wsp!Cat!TaxModes
<1>18. Spec => [](part = "catalog" => Cat!TypeOK)
    BY <1>16, <1>17, StripeCatalogRuns, StripeCatalogIsSame, PTL
<1>19. Msg!Pmk!Spec => [](Msg!Pmk!TypeOK /\ Msg!Pmk!CreatedOnce /\ Msg!Pmk!CredentialIsOfServer)
    BY ProvisioningFits, Msg!ResourcesAreCreatedOnce, PTL
<1>20. Msg!Pmk!TypeOK => Pmk!TypeOK
    BY Zenon DEF Pmk!TypeOK, Msg!Pmk!TypeOK, Pmk!BindingRow, Msg!Pmk!BindingRow, Pmk!AccountRow,
                 Msg!Pmk!AccountRow, Pmk!None, Msg!Pmk!None, Pmk!Pcs, Msg!Pmk!Pcs, Pmk!Accounts,
                 Msg!Pmk!Accounts, Pmk!Open, Msg!Pmk!Open, Pmk!Checked, Msg!Pmk!Checked
<1>21. Spec => [](part = "postmark" => Pmk!TypeOK)
    BY <1>19, <1>20, ProvisioningRuns, ProvisioningIsSame, PTL
<1>22. Lsg!Pmk!Spec => [](Lsg!Pmk!TypeOK /\ Lsg!Pmk!CreatedOnce /\ Lsg!Pmk!CredentialIsOfServer)
    BY LckFits, Lsg!ResourcesAreCreatedOnce, PTL
<1>23. Lsg!Pmk!TypeOK => Lck!TypeOK
    BY Zenon DEF Lck!TypeOK, Lsg!Pmk!TypeOK, Lck!BindingRow, Lsg!Pmk!BindingRow, Lck!AccountRow,
                 Lsg!Pmk!AccountRow, Lck!None, Lsg!Pmk!None, Lck!Pcs, Lsg!Pmk!Pcs, Lck!Accounts,
                 Lsg!Pmk!Accounts, Lck!Open, Lsg!Pmk!Open, Lck!Checked, Lsg!Pmk!Checked
<1>24. Spec => [](part = "lock lost" => Lck!TypeOK)
    BY <1>22, <1>23, LckRuns, LckIsSame, PTL
<1>25. Msg!Ses!Spec => [](Msg!Ses!TypeOK /\ Msg!Ses!IdentityHasOneOwner)
    BY SesDomainFits, Msg!IdentitiesHaveOneOwner, PTL
<1>26. Msg!Ses!TypeOK => Ses!TypeOK
    BY Zenon DEF Ses!TypeOK, Msg!Ses!TypeOK, Ses!Absent, Msg!Ses!Absent, Ses!Untagged,
                 Msg!Ses!Untagged, Ses!Environments, Msg!Ses!Environments, Ses!Kinds,
                 Msg!Ses!Kinds, Ses!Refused, Msg!Ses!Refused, Ses!Calls, Msg!Ses!Calls
<1>27. Spec => [](part = "ses" => Ses!TypeOK)
    BY <1>25, <1>26, SesDomainRuns, SesDomainIsSame, PTL
<1>28. Msg!Prv!Spec => [](Msg!Prv!TypeOK /\ Msg!Prv!TakenOnce)
    BY ProviderCallFits, Msg!CallTakesOnce, PTL
<1>29. Msg!Prv!TypeOK => Prv!TypeOK
    BY Zenon DEF Prv!TypeOK, Msg!Prv!TypeOK, Prv!Answers, Msg!Prv!Answers, Prv!Taken, Msg!Prv!Taken
<1>30. Spec => [](part = "call" => Prv!TypeOK)
    BY <1>28, <1>29, ProviderCallRuns, ProviderCallIsSame, PTL
<1>31. Msg!Sec!Spec => [](Msg!Sec!TypeOK /\ Msg!Sec!SecretsAreLoaded)
    BY RuntimeSecretsFits, Msg!CallersGetSecrets, PTL
<1>32. Msg!Sec!TypeOK => Sec!TypeOK
    BY Zenon DEF Sec!TypeOK, Msg!Sec!TypeOK, Sec!Nobody, Msg!Sec!Nobody
<1>33. Spec => [](part = "secrets" => Sec!TypeOK)
    BY <1>31, <1>32, RuntimeSecretsRuns, RuntimeSecretsIsSame, PTL
<1>34. Msg!Tpl!Spec => [](Msg!Tpl!TypeOK /\ Msg!Tpl!ServedWasApproved)
    BY TemplatesFits, Msg!TemplatesServeApproved, PTL
<1>35. Msg!Tpl!TypeOK => Tpl!TypeOK
    BY Zenon DEF Tpl!TypeOK, Msg!Tpl!TypeOK, Tpl!Statuses, Msg!Tpl!Statuses
<1>36. Spec => [](part = "templates" => Tpl!TypeOK)
    BY <1>34, <1>35, TemplatesRuns, TemplatesIsSame, PTL
<1>37. Wsp!Acs!Spec => [](Wsp!Acs!TypeOK /\ Wsp!Acs!OrganizationsHaveWorkspaces /\ Wsp!Acs!RemovedStayOut)
    BY AccessFits, Wsp!MembersEnter, PTL
<1>38. Wsp!Acs!TypeOK => Acs!TypeOK
    BY Zenon DEF Acs!TypeOK, Wsp!Acs!TypeOK, Acs!Pcs, Wsp!Acs!Pcs, Acs!NoWs, Wsp!Acs!NoWs
<1>39. Spec => [](part = "access" => Acs!TypeOK)
    BY <1>37, <1>38, AccessRuns, AccessIsSame, PTL
<1>40. Wsp!Dom!Spec => [](Wsp!Dom!TypeOK /\ Wsp!Dom!DomainsAreDisjoint)
    BY DomainsFits, Wsp!DomainsStayDisjoint, PTL
<1>41. Wsp!Dom!TypeOK => Dom!TypeOK
    BY Zenon DEF Dom!TypeOK, Wsp!Dom!TypeOK
<1>42. Spec => [](part = "domains" => Dom!TypeOK)
    BY <1>40, <1>41, DomainsRuns, DomainsIsSame, PTL
<1>43. Wsp!Apl!Spec => [](Wsp!Apl!TypeOK /\ Wsp!Apl!ThrottledInAnyWindow)
    BY ApplicationsFits, Wsp!HoursAreThrottled, PTL
<1>44. Wsp!Apl!TypeOK => Apl!TypeOK
    BY Zenon DEF Apl!TypeOK, Wsp!Apl!TypeOK
<1>45. Spec => [](part = "applications" => Apl!TypeOK)
    BY <1>43, <1>44, ApplicationsRuns, ApplicationsIsSame, PTL
<1>46. Wsp!End!Spec => [](Wsp!End!TypeOK /\ Wsp!End!TrailIsTrue)
    BY EndpointsFits, Wsp!TrailTellsTheTruth, PTL
<1>47. Wsp!End!TypeOK => End!TypeOK
    BY Zenon DEF End!TypeOK, Wsp!End!TypeOK, End!Nobody, Wsp!End!Nobody, End!Operations,
                 Wsp!End!Operations, End!Switches, Wsp!End!Switches
<1>48. Spec => [](part = "endpoints" => End!TypeOK)
    BY <1>46, <1>47, EndpointsRuns, EndpointsIsSame, PTL
<1>49. Whp!Spec => []Whp!TypeOK
    BY WebhookDeliveryFits, Whp!TypeCorrect, PTL
<1>50. Whp!TypeOK => Whk!TypeOK
    BY Zenon DEF Whk!TypeOK, Whp!TypeOK, Whk!States, Whp!States, Whk!MaxDue, Whp!MaxDue,
                 Whk!OldAge, Whp!OldAge, Whk!Runs, Whp!Runs, Whk!Delays, Whp!Delays, Whk!Idle,
                 Whp!Idle, Whk!Pcs, Whp!Pcs, Whk!Elapsed, Whp!Elapsed
<1>51. Spec => [](part = "webhook" => Whk!TypeOK)
    BY <1>49, <1>50, WebhookDeliveryRuns, WebhookDeliveryIsSame, PTL
<1>52. Msg!Evp!Spec => [](Msg!Evp!TypeOK /\ Msg!Evp!HandledOnce /\ Msg!Evp!OnlyBadIsBuried)
    BY EventPipelineFits, Msg!EventsAreHandledOnce, PTL
<1>53. Msg!Evp!TypeOK => Evp!TypeOK
    BY Zenon DEF Evp!TypeOK, Msg!Evp!TypeOK, Evp!Queued, Msg!Evp!Queued, Evp!Batches,
                 Msg!Evp!Batches, Evp!None, Msg!Evp!None
<1>54. Spec => [](part = "events" => Evp!TypeOK)
    BY <1>52, <1>53, EventPipelineRuns, EventPipelineIsSame, PTL
<1>55. Wsp!Mem!Spec => [](Wsp!Mem!TypeOK /\ Wsp!Mem!SeatsHold)
    BY MembershipFits, Wsp!SeatsAreKept, PTL
<1>56. Wsp!Mem!TypeOK => Mem!TypeOK
    BY Zenon DEF Mem!TypeOK, Wsp!Mem!TypeOK, Mem!Deliverable, Wsp!Mem!Deliverable
<1>57. Spec => [](part = "members" => Mem!TypeOK)
    BY <1>55, <1>56, MembershipRuns, MembershipIsSame, PTL
<1>58. Wsp!Wsd!Spec => [](Wsp!Wsd!TypeOK /\ Wsp!Wsd!GoneIsEmpty)
    BY WorkspaceDeletionFits, Wsp!GoneForGood, PTL
<1>59. Wsp!Wsd!TypeOK => Wsd!TypeOK
    BY Zenon DEF Wsd!TypeOK, Wsp!Wsd!TypeOK, Wsd!Gates, Wsp!Wsd!Gates, Wsd!Subscriptions,
                 Wsp!Wsd!Subscriptions, Wsd!purgeOrder, Wsp!Wsd!purgeOrder
<1>60. Spec => [](part = "deletion" => Wsd!TypeOK)
    BY <1>58, <1>59, WorkspaceDeletionRuns, WorkspaceDeletionIsSame, PTL
<1>61. Wsp!Ers!Spec => [](/\ Wsp!Ers!TypeOK
                          /\ Wsp!Ers!PurgeIsNeverRefused
                          /\ Wsp!Ers!NothingIsLeft
                          /\ Wsp!Ers!BatchesAreBounded)
    BY ErasureFits, Wsp!PurgesAreClean, SchemaIsFit, PTL
<1>62. Wsp!Ers!TypeOK => Ers!TypeOK
    BY Zenon DEF Ers!TypeOK, Wsp!Ers!TypeOK, Ers!Gone, Wsp!Ers!Gone, Ers!Last, Wsp!Ers!Last,
                 Ers!purgeOrder, Wsp!Ers!purgeOrder
<1>63. Spec => [](part = "erasure" => Ers!TypeOK)
    BY <1>61, <1>62, ErasureRuns, ErasureIsSame, PTL
<1>64. Wsp!Exp!Spec => [](Wsp!Exp!TypeOK /\ Wsp!Exp!ExportIsExact)
    BY ExportFits, Wsp!ExportsAreExact, PTL
<1>65. Wsp!Exp!TypeOK => Exp!TypeOK
    BY Zenon DEF Exp!TypeOK, Wsp!Exp!TypeOK, Exp!Sections, Wsp!Exp!Sections
<1>66. Spec => [](part = "export" => Exp!TypeOK)
    BY <1>64, <1>65, ExportRuns, ExportIsSame, PTL
<1> DEFINE Types1 == /\ part = "acceptance" => Acc!TypeOK
                     /\ part = "attachments" => Att!TypeOK
                     /\ part = "verdicts" => Ver!TypeOK
                     /\ part = "warmup" => Wrm!TypeOK
           Types2 == /\ part = "checkout" => Chk!TypeOK
                     /\ part = "catalog" => Cat!TypeOK
                     /\ part = "postmark" => Pmk!TypeOK
                     /\ part = "lock lost" => Lck!TypeOK
           Types3 == /\ part = "ses" => Ses!TypeOK
                     /\ part = "call" => Prv!TypeOK
                     /\ part = "secrets" => Sec!TypeOK
                     /\ part = "templates" => Tpl!TypeOK
           Types4 == /\ part = "access" => Acs!TypeOK
                     /\ part = "domains" => Dom!TypeOK
                     /\ part = "applications" => Apl!TypeOK
                     /\ part = "endpoints" => End!TypeOK
           Types5 == /\ part = "webhook" => Whk!TypeOK
                     /\ part = "events" => Evp!TypeOK
                     /\ part = "members" => Mem!TypeOK
                     /\ part = "deletion" => Wsd!TypeOK
           Types6 == /\ part = "erasure" => Ers!TypeOK
                     /\ part = "export" => Exp!TypeOK
<1>67. Spec => []Types1
    BY <1>3, <1>6, <1>9, <1>12, PTL
<1>68. Spec => []Types2
    BY <1>15, <1>18, <1>21, <1>24, PTL
<1>69. Spec => []Types3
    BY <1>27, <1>30, <1>33, <1>36, PTL
<1>70. Spec => []Types4
    BY <1>39, <1>42, <1>45, <1>48, PTL
<1>71. Spec => []Types5
    BY <1>51, <1>54, <1>57, <1>60, PTL
<1>72. Spec => []Types6
    BY <1>63, <1>66, PTL
<1>73. Types1 /\ Types2 /\ Types3 /\ Types4 /\ Types5 /\ Types6 => TypeOK
    BY DEF TypeOK, In
<1> HIDE DEF Types1, Types2, Types3, Types4, Types5, Types6
<1> QED
    BY <1>67, <1>68, <1>69, <1>70, <1>71, <1>72, <1>73, PTL

\* What no step of these parts may do.
LEMMA ApplicationsStands == Spec /\ [](part = "applications") /\ Apl!Spec => [][Stands]_vars
<1>1. Wsp!Apl!Spec => [][Wsp!Apl!FirstReviewerKept]_Wsp!Apl!vars
    BY ApplicationsFits, Wsp!FirstReviewersAreKept, PTL
<1>2. [Wsp!Apl!FirstReviewerKept]_Wsp!Apl!vars => [Apl!FirstReviewerKept]_Apl!vars
    BY Zenon DEF Apl!FirstReviewerKept, Wsp!Apl!FirstReviewerKept, Apl!vars, Wsp!Apl!vars
<1>3. part = "applications" /\ [Next]_vars /\ UNCHANGED Apl!vars => UNCHANGED vars
    BY Zenon DEF Next, vars, Apl!vars, After4, After5, After6, After7, After8, After9, After10,
                 After11, After12, After13
<1>4. part = "applications" /\ [Next]_vars /\ [Apl!FirstReviewerKept]_Apl!vars => [Stands]_vars
    BY <1>3 DEF Stands, In
<1> QED
    BY <1>1, <1>2, <1>4, ApplicationsIsSame, PTL DEF Spec

LEMMA WorkspaceDeletionStands ==
    ASSUME ~Checkouts
    PROVE  Spec /\ [](part = "deletion") /\ Wsd!Spec => [][Stands]_vars
<1>1. Wsp!Wsd!Spec => [][/\ Wsp!Wsd!NothingSentAfterDeletion
                         /\ Wsp!Wsd!NoAccessAfterDeletion]_Wsp!Wsd!vars
    BY WorkspaceDeletionFits, Wsp!EveryWayIsClosed, PTL
<1>2. [/\ Wsp!Wsd!NothingSentAfterDeletion
       /\ Wsp!Wsd!NoAccessAfterDeletion]_Wsp!Wsd!vars
      => [/\ Wsd!NothingSentAfterDeletion
          /\ Wsd!NoAccessAfterDeletion]_Wsd!vars
    BY Zenon DEF Wsd!NothingSentAfterDeletion, Wsp!Wsd!NothingSentAfterDeletion,
                 Wsd!NoAccessAfterDeletion, Wsp!Wsd!NoAccessAfterDeletion, Wsd!vars, Wsp!Wsd!vars,
                 Wsd!tenant, Wsp!Wsd!tenant, Wsd!access, Wsp!Wsd!access, Wsd!sending,
                 Wsp!Wsd!sending, Wsd!billing, Wsp!Wsd!billing
<1>3. part = "deletion" /\ [Next]_vars /\ UNCHANGED Wsd!vars => UNCHANGED vars
    BY Zenon DEF Next, vars, Wsd!vars, Wsd!tenant, Wsd!access, Wsd!sending, Wsd!billing
<1>4. /\ part = "deletion" /\ [Next]_vars
      /\ [/\ Wsd!NothingSentAfterDeletion
          /\ Wsd!NoAccessAfterDeletion]_Wsd!vars
      => [Stands]_vars
    BY <1>3 DEF Stands, In
<1> QED
    BY <1>1, <1>2, <1>4, WorkspaceDeletionIsSame, PTL DEF Spec

LEMMA ErasureStands == Spec /\ [](part = "erasure") /\ Ers!Spec => [][Stands]_vars
<1>1. Wsp!Ers!Spec => [][/\ Wsp!Ers!PeopleOutliveWorkspaces
                         /\ Wsp!Ers!InvitationsOutliveInviters
                         /\ Wsp!Ers!LedgerIsKept]_Wsp!Ers!vars
    BY ErasureFits, Wsp!OthersAreKept, SchemaIsFit, PTL
<1>2. [/\ Wsp!Ers!PeopleOutliveWorkspaces
       /\ Wsp!Ers!InvitationsOutliveInviters
       /\ Wsp!Ers!LedgerIsKept]_Wsp!Ers!vars
      => [/\ Ers!PeopleOutliveWorkspaces
          /\ Ers!InvitationsOutliveInviters
          /\ Ers!LedgerIsKept]_Ers!vars
    BY Zenon DEF Ers!PeopleOutliveWorkspaces, Wsp!Ers!PeopleOutliveWorkspaces,
                 Ers!InvitationsOutliveInviters, Wsp!Ers!InvitationsOutliveInviters,
                 Ers!LedgerIsKept, Wsp!Ers!LedgerIsKept, Ers!vars, Wsp!Ers!vars
<1>3. part = "erasure" /\ [Next]_vars /\ UNCHANGED Ers!vars => UNCHANGED vars
    BY Zenon DEF Next, vars, Ers!vars, After7, After8, After9, After10, After11, After12, After13
<1>4. /\ part = "erasure" /\ [Next]_vars
      /\ [/\ Ers!PeopleOutliveWorkspaces
          /\ Ers!InvitationsOutliveInviters
          /\ Ers!LedgerIsKept]_Ers!vars
      => [Stands]_vars
    BY <1>3 DEF Stands, In
<1> QED
    BY <1>1, <1>2, <1>4, ErasureIsSame, PTL DEF Spec

(* No part takes back what was decided: a limit is exceeded only by what   *)
(* was in flight, what was condemned is not loaded, pins, operators and    *)
(* first reviewers prevail, settled webhooks stay so, nothing is sent for  *)
(* a workspace that is being deleted, and its purge spares the others.     *)
(* Premise: no checkout session is left open when a workspace is deleted.  *)
THEOREM DecisionsAlwaysStand ==
    ASSUME ~Checkouts
    PROVE  Spec => DecisionsStand
<1>1. /\ ~(part = "acceptance")
      /\ ~(part = "attachments")
      /\ ~(part = "verdicts")
      /\ ~(part = "warmup")
      /\ ~(part = "postmark")
      /\ ~(part = "lock lost")
      /\ ~(part = "applications")
      /\ ~(part = "webhook")
      /\ ~(part = "deletion")
      /\ ~(part = "erasure")
      => Stands
    BY DEF Stands, In
<1>2. Spec => [][Stands]_vars
    BY <1>1, AcceptanceRuns, AcceptanceStands, AttachmentsRuns, AttachmentsStands, VerRuns,
       VerStands, WarmupRuns, WarmupStands, ProvisioningRuns, ProvisioningStands, LckRuns,
       LckStands, ApplicationsRuns, ApplicationsStands, WebhookDeliveryRuns, WebhookDeliveryStands,
       WorkspaceDeletionRuns, WorkspaceDeletionStands, ErasureRuns, ErasureStands, PTL
<1>3. [][Stands]_vars => DecisionsStand
    BY DEF Stands, DecisionsStand
<1> QED
    BY <1>2, <1>3
=============================================================================
