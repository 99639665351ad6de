------------------------------- MODULE Schema -------------------------------
(***************************************************************************)
(* The tables of db/schema.ts, each as the set of its foreign keys: the    *)
(* table a key refers to and what the database does with a row when the    *)
(* row it refers to is deleted.  A definition has the name of its table in *)
(* the source; a column that names a user or a row without a foreign key   *)
(* is no reference.                                                        *)
(***************************************************************************)
EXTENDS FiniteSets

With(t)    == [to |-> t, onDelete |-> "cascade"]
Nulls(t)   == [to |-> t, onDelete |-> "set null"]
Needs(t)   == [to |-> t, onDelete |-> "no action"]
Refuses(t) == [to |-> t, onDelete |-> "restrict"]

OfWorkspace == With("workspaces")

-----------------------------------------------------------------------------
authUsers         == {}
authOrganizations == {}
authSessions      == {With("authUsers"), Nulls("authOrganizations")}
authAccounts      == {With("authUsers")}
authVerifications == {}
authMembers       == {With("authOrganizations"), With("authUsers")}
authInvitations   == {With("authOrganizations"), Nulls("authUsers")}
authPasskeys      == {With("authUsers")}
authRateLimits    == {}

workspaces        == {}
workspaceSettings == {OfWorkspace}
subscriptions     == {OfWorkspace}
usageMonths       == {OfWorkspace}
stripeUsageReports     == {OfWorkspace}
stripeUsageReportJobs  == {OfWorkspace, Nulls("stripeUsageReports")}
stripeCheckoutAttempts == {OfWorkspace, With("subscriptions")}
usageDays         == {OfWorkspace}

domains                   == {OfWorkspace}
workspaceProviderAccounts == {OfWorkspace}
domainProviderBindings    == {OfWorkspace, With("domains")}
sesResources              == {OfWorkspace, With("domains")}
suppressions              == {OfWorkspace}
transactionalProfiles     == {OfWorkspace}
templates                 == {OfWorkspace, Needs("transactionalProfiles")}
templateVersions          == {OfWorkspace, With("templates")}

(* NO ACTION and not RESTRICT, so that the deletion of a workspace may     *)
(* remove a message's domain before the message.                           *)
messagesBug       == {OfWorkspace, Refuses("domains"), Refuses("transactionalProfiles")}
messages          == {OfWorkspace, Needs("domains"), Needs("transactionalProfiles")}
usageLedger       == {With("messages"), OfWorkspace}
outboxJobs        == {OfWorkspace}
messageAttempts   == {OfWorkspace, With("messages")}
emailEvents       == {OfWorkspace, With("messages")}
attachments       == {OfWorkspace, Nulls("messages")}

apiKeys           == {OfWorkspace}
apiRateLimits     == {OfWorkspace}
idempotencyKeys   == {OfWorkspace}
webhookEndpoints  == {OfWorkspace}
webhookDeliveries == {OfWorkspace, With("webhookEndpoints"), With("emailEvents")}
stripeEvents      == {}
auditEvents       == {OfWorkspace}
adminReviews      == {OfWorkspace}
clientProvisioningRuns == {OfWorkspace, With("authInvitations")}
betaApplications  == {}

-----------------------------------------------------------------------------
References ==
    [authUsers |-> authUsers, authOrganizations |-> authOrganizations, authSessions |-> authSessions,
     authAccounts |-> authAccounts, authVerifications |-> authVerifications, authMembers |-> authMembers,
     authInvitations |-> authInvitations, authPasskeys |-> authPasskeys, authRateLimits |-> authRateLimits,
     workspaces |-> workspaces, workspaceSettings |-> workspaceSettings, subscriptions |-> subscriptions,
     usageMonths |-> usageMonths, stripeUsageReports |-> stripeUsageReports,
     stripeUsageReportJobs |-> stripeUsageReportJobs, stripeCheckoutAttempts |-> stripeCheckoutAttempts,
     usageDays |-> usageDays, domains |-> domains, workspaceProviderAccounts |-> workspaceProviderAccounts,
     domainProviderBindings |-> domainProviderBindings, sesResources |-> sesResources,
     suppressions |-> suppressions, transactionalProfiles |-> transactionalProfiles, templates |-> templates,
     templateVersions |-> templateVersions, messages |-> messages, usageLedger |-> usageLedger,
     outboxJobs |-> outboxJobs, messageAttempts |-> messageAttempts, emailEvents |-> emailEvents,
     attachments |-> attachments, apiKeys |-> apiKeys, apiRateLimits |-> apiRateLimits,
     idempotencyKeys |-> idempotencyKeys, webhookEndpoints |-> webhookEndpoints,
     webhookDeliveries |-> webhookDeliveries, stripeEvents |-> stripeEvents, auditEvents |-> auditEvents,
     adminReviews |-> adminReviews, clientProvisioningRuns |-> clientProvisioningRuns,
     betaApplications |-> betaApplications]

Tables == DOMAIN References

(* Where a deletion in each table cascades to, in chains of up to eight.   *)
Twice(f)   == [t \in Tables |-> UNION {f[u] : u \in f[t]}]
Direct     == [t \in Tables |-> {t} \cup {u \in Tables : With(t) \in References[u]}]
CascadesTo == Twice(Twice(Twice(Direct)))

(* Records of the platform or of a person, which no workspace owns.        *)
PlatformTables ==
    {"authUsers", "authSessions", "authAccounts", "authVerifications", "authPasskeys", "authRateLimits",
     "stripeEvents", "betaApplications"}
=============================================================================
