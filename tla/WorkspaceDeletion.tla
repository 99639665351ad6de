------------------------- MODULE WorkspaceDeletion -------------------------
(***************************************************************************)
(* Deletion of a workspace (workspace-data/deletion.ts, actions.ts) and    *)
(* the purge that follows (workspace-data/purge.ts, called by the request  *)
(* and by workers/purge-retention.ts), among everything that may still be  *)
(* under way: requests past their authentication, an administrator about   *)
(* to create an API key, the send worker, provider events, the usage       *)
(* reporter and Stripe.                                                    *)
(*                                                                         *)
(* The deletion locks the workspace's row; what inserts a row that refers  *)
(* to it waits for that lock, so each of them is one action, before or     *)
(* after it.  A request creates the message that has its name.             *)
(***************************************************************************)
EXTENDS Integers, Sequences, FiniteSets

CONSTANTS
    Messages,    \* requests and the messages they become
    Keys,        \* API keys
    Users,       \* members who administrate the workspace
    Purgers,     \* the request's own purge and retention workers
    Pilot,       \* whether the workspace has pilot access
    LateEvents,  \* whether a provider confirms an unknown message
    Checkouts,   \* whether a checkout session may have been left open
    MaxEvents,   \* bound: Stripe events handled
    MaxFaults    \* bound: crashes, lost answers and purges out of time

DeletionAssumption ==
    /\ \A S \in {Messages, Keys, Users, Purgers} : IsFiniteSet(S) /\ S # {}
    /\ {Pilot, LateEvents, Checkouts} \subseteq BOOLEAN /\ {MaxEvents, MaxFaults} \subseteq Nat

VARIABLES
    workspace,  \* live, deleted (deleted_at and purge_requested_at set) or gone
    gate,       \* workspaces.status and pause_reason
    keys,       \* api_keys: none, active or revoked
    owner,      \* who has the role owner
    page,       \* what each user's console action read and is about to do
    request,    \* how far each API request is
    message,    \* messages.status
    worker,     \* the send worker's step with each message
    handed,     \* messages a provider took
    job,        \* the message's usage job
    local,      \* subscriptions.status
    stripe,     \* the subscription at Stripe
    session,    \* whether a checkout session is open at Stripe
    events,     \* Stripe events handled so far
    purger,     \* each purge's place in purgeOrder, 0 when it does not run
    faults

tenant  == <<workspace, gate>>
access  == <<keys, owner, page>>
sending == <<request, message, worker, handed>>
billing == <<local, stripe, session, events>>
vars == <<tenant, access, sending, job, billing, purger, faults>>

Fault == faults < MaxFaults /\ faults' = faults + 1

-----------------------------------------------------------------------------
Subscriptions == {"none", "active", "canceled"}
Gates == [status : {"approved", "paused"}, reason : {"none", "billing", "workspace_deleted"}]

(* The tables whose rows other components wait for; the other nine behave  *)
(* as these two.  A reported job that is purged is still reported.         *)
purgeOrder == <<"stripe_usage_report_jobs", "messages">>
Rows(t) == CASE t = "stripe_usage_report_jobs" -> {m \in Messages : job[m] \in {"pending", "processing"}}
             [] t = "messages"                 -> {m \in Messages : message[m] \notin {"none", "erased"}}

(* deletedAt is null, in the query that finds the key.                     *)
Authenticates(k)    == keys[k] = "active" /\ workspace = "live"

Allowed == gate.status = "approved" /\ (Pilot \/ local = "active")

blockingSubscription == local = "active"
InFlight    == \E m \in Messages : message[m] \in {"queued", "sending"}
Unreported    == \E m \in Messages : job[m] \in {"pending", "processing"}

(* Messages refer to their workspace.                                      *)
Insertable    == workspace # "gone"

(* pendingWorkspacePurges: purge_requested_at is set.                      *)
Purgeable    == workspace = "deleted"

-----------------------------------------------------------------------------
Init ==
    /\ workspace = "live" /\ gate = [status |-> "approved", reason |-> "none"]
    /\ keys    \in [Keys -> {"none", "active"}]
    /\ owner   \in Users
    /\ page    = [u \in Users |-> "none"]
    /\ request = [m \in Messages |-> "idle"]
    /\ message = [m \in Messages |-> "none"]
    /\ worker  = [m \in Messages |-> "idle"]
    /\ handed  = {}
    /\ job     = [m \in Messages |-> "none"]
    /\ local   \in {"none", "active"} /\ stripe = local
    /\ session = FALSE /\ events = 0
    /\ purger  = [p \in Purgers |-> 0]
    /\ faults  = 0

(* A console action reads the session's workspace before it writes; the    *)
(* organization is gone with the deletion.                                 *)
currentWorkspace(u, intent) ==
    /\ page[u] = "none" /\ workspace = "live"
    /\ intent = "delete" => u = owner
    /\ page' = [page EXCEPT ![u] = intent]
    /\ UNCHANGED <<tenant, keys, owner, sending, job, billing, purger, faults>>

createApiKeyFormAction(u, k) ==
    /\ page[u] = "key" /\ page' = [page EXCEPT ![u] = "none"]
    /\ IF Insertable /\ keys[k] = "none" THEN keys' = [keys EXCEPT ![k] = "active"] ELSE UNCHANGED keys
    /\ UNCHANGED <<tenant, owner, sending, job, billing, purger, faults>>

revokeApiKeyAction(k) ==
    /\ workspace = "live" /\ keys[k] = "active"
    /\ keys' = [keys EXCEPT ![k] = "revoked"]
    /\ UNCHANGED <<tenant, owner, page, sending, job, billing, purger, faults>>

HandOver(u) ==
    /\ workspace = "live" /\ u # owner /\ owner' = u
    /\ UNCHANGED <<tenant, keys, page, sending, job, billing, purger, faults>>

-----------------------------------------------------------------------------
authenticateApiKey(m) ==
    /\ request[m] = "idle" /\ \E k \in Keys : Authenticates(k)
    /\ request' = [request EXCEPT ![m] = "authenticated"]
    /\ UNCHANGED <<tenant, access, message, worker, handed, job, billing, purger, faults>>

Prepare(m) ==
    /\ request[m] = "authenticated"
    /\ request' = [request EXCEPT ![m] = IF Allowed THEN "checked" ELSE "done"]
    /\ UNCHANGED <<tenant, access, message, worker, handed, job, billing, purger, faults>>

acceptEmail(m) ==
    /\ request[m] = "checked" /\ request' = [request EXCEPT ![m] = "done"]
    /\ IF Insertable THEN message' = [message EXCEPT ![m] = "queued"] ELSE UNCHANGED message
    /\ UNCHANGED <<tenant, access, worker, handed, job, billing, purger, faults>>

Work(m, step) == worker' = [worker EXCEPT ![m] = step]
Become(m, s)  == message' = [message EXCEPT ![m] = s]

Claim(m) ==
    /\ message[m] = "queued" /\ worker[m] = "idle"
    /\ Become(m, "sending") /\ Work(m, "claimed")
    /\ UNCHANGED <<tenant, access, request, handed, job, billing, purger, faults>>

Evaluate(m) ==
    /\ worker[m] = "claimed"
    /\ IF message[m] = "sending" /\ ~Allowed
       THEN Become(m, "failed") /\ Work(m, "idle")
       ELSE UNCHANGED message /\ Work(m, IF message[m] = "sending" THEN "calling" ELSE "idle")
    /\ UNCHANGED <<tenant, access, request, handed, job, billing, purger, faults>>

(* The provider takes the message; its answer may be lost.                 *)
Transmit(m) ==
    /\ worker[m] = "calling" /\ handed' = handed \cup {m}
    /\ \/ Work(m, "answered") /\ UNCHANGED <<message, faults>>
       \/ /\ Work(m, "idle") /\ Fault
          /\ IF message[m] = "sending" THEN Become(m, "unknown") ELSE UNCHANGED message
    /\ UNCHANGED <<tenant, access, request, job, billing, purger>>

Bill(m)    == Become(m, "sent") /\ job' = [job EXCEPT ![m] = "pending"]

CommitAccepted(m) ==
    /\ worker[m] = "answered" /\ Work(m, "idle")
    /\ IF message[m] = "sending" THEN Bill(m) ELSE UNCHANGED <<message, job>>
    /\ UNCHANGED <<tenant, access, request, handed, billing, purger, faults>>

WorkerDies(m) ==
    /\ worker[m] # "idle" /\ Work(m, "idle") /\ Fault
    /\ UNCHANGED <<tenant, access, request, message, handed, job, billing, purger>>

(* Fifteen minutes after a claim, longer than a worker can live.           *)
recoverStaleSending(m) ==
    /\ message[m] = "sending" /\ worker[m] = "idle" /\ Become(m, "unknown")
    /\ UNCHANGED <<tenant, access, request, worker, handed, job, billing, purger, faults>>

(* A provider's event says that an unknown message was accepted.           *)
ingestProviderEvent(m) ==
    /\ LateEvents /\ message[m] = "unknown" /\ m \in handed /\ Bill(m)
    /\ UNCHANGED <<tenant, access, request, worker, handed, billing, purger, faults>>

Report(m) ==
    /\ job[m] \in {"pending", "processing"}
    /\ job' = [job EXCEPT ![m] = IF @ = "pending" THEN "processing" ELSE "reported"]
    /\ UNCHANGED <<tenant, access, sending, billing, purger, faults>>

-----------------------------------------------------------------------------
(* At Stripe: the customer cancels, or pays the open session when no       *)
(* subscription is running.                                                *)
StripeChanges ==
    /\ \/ stripe = "active" /\ stripe' = "canceled" /\ UNCHANGED session
       \/ session /\ stripe # "active" /\ stripe' = "active" /\ session' = FALSE
    /\ UNCHANGED <<tenant, access, sending, job, local, events, purger, faults>>

prepareCheckout ==
    /\ Checkouts /\ workspace = "live" /\ gate.status = "approved"
    /\ ~session /\ ~blockingSubscription /\ session' = TRUE
    /\ UNCHANGED <<tenant, access, sending, job, local, stripe, events, purger, faults>>

(* An event makes the local subscription what Stripe's is now; pauses and  *)
(* restorations do not ask whether the workspace is deleted.               *)
ingestStripeWebhook ==
    /\ workspace # "gone" /\ stripe # "none" /\ events < MaxEvents /\ events' = events + 1
    /\ local' = stripe
    /\ gate' = IF stripe = "canceled" THEN [status |-> "paused", reason |-> "billing"]
               ELSE IF gate.reason = "billing" THEN [status |-> "approved", reason |-> "none"] ELSE gate
    /\ UNCHANGED <<workspace, access, sending, job, stripe, session, purger, faults>>

-----------------------------------------------------------------------------
requestWorkspaceDeletion(u) ==
    /\ page[u] = "delete"
    /\ IF workspace = "live" /\ u = owner /\ ~blockingSubscription /\ ~InFlight /\ ~Unreported
       THEN /\ workspace' = "deleted"
            /\ gate' = [status |-> "paused", reason |-> "workspace_deleted"]
            /\ keys' = [k \in Keys |-> IF keys[k] = "active" THEN "revoked" ELSE keys[k]]
       ELSE UNCHANGED <<workspace, gate, keys>>
    /\ page' = [page EXCEPT ![u] = "none"]
    /\ UNCHANGED <<owner, sending, job, billing, purger, faults>>

StartPurge(p) ==
    /\ purger[p] = 0 /\ Purgeable
    /\ purger' = [purger EXCEPT ![p] = 1]
    /\ UNCHANGED <<tenant, access, sending, job, billing, faults>>

EraseJob(m)     == job' = [job EXCEPT ![m] = IF @ \in {"pending", "processing"} THEN "lost" ELSE @]
EraseMessage(m) == Become(m, "erased") /\ EraseJob(m)

(* One batch of the table the purge is at; a batch that is not full is the *)
(* table's last.                                                           *)
PurgeBatch(p) ==
    /\ purger[p] \in 1 .. Len(purgeOrder)
    /\ LET t == purgeOrder[purger[p]]
       IN  \/ /\ workspace = "deleted"
              /\ \E m \in Rows(t) : IF t = "messages" THEN EraseMessage(m) ELSE EraseJob(m) /\ UNCHANGED message
              /\ UNCHANGED purger
           \/ /\ workspace = "deleted" => Rows(t) = {}
              /\ purger' = [purger EXCEPT ![p] = @ + 1]
              /\ UNCHANGED <<message, job>>
    /\ UNCHANGED <<tenant, access, request, worker, handed, billing, faults>>

(* The last statement deletes the workspace and, in cascade, what is left. *)
PurgeEnds(p) ==
    /\ purger[p] = Len(purgeOrder) + 1
    /\ purger' = [purger EXCEPT ![p] = 0]
    /\ workspace' = "gone"
    /\ message' = [m \in Messages |-> IF message[m] = "none" THEN "none" ELSE "erased"]
    /\ job' = [m \in Messages |-> IF job[m] \in {"pending", "processing"} THEN "lost" ELSE job[m]]
    /\ keys' = [k \in Keys |-> "none"]
    /\ local' = "none"
    /\ UNCHANGED <<gate, owner, page, request, worker, handed, stripe, session, events, faults>>

PurgeStops(p) ==
    /\ purger[p] # 0 /\ Fault
    /\ purger' = [purger EXCEPT ![p] = 0]
    /\ UNCHANGED <<tenant, access, sending, job, billing>>

-----------------------------------------------------------------------------
Console(u) ==
    \/ \E intent \in {"key", "delete"} : currentWorkspace(u, intent)
    \/ \E k \in Keys : createApiKeyFormAction(u, k)
    \/ HandOver(u)
    \/ requestWorkspaceDeletion(u)

Traffic(m) ==
    \/ authenticateApiKey(m) \/ Prepare(m) \/ acceptEmail(m)
    \/ Claim(m) \/ Evaluate(m) \/ Transmit(m) \/ CommitAccepted(m) \/ WorkerDies(m)
    \/ recoverStaleSending(m) \/ ingestProviderEvent(m) \/ Report(m)

Purge(p) == PurgeBatch(p) \/ PurgeEnds(p)

Next ==
    \/ \E u \in Users : Console(u)
    \/ \E k \in Keys : revokeApiKeyAction(k)
    \/ \E m \in Messages : Traffic(m)
    \/ StripeChanges \/ prepareCheckout \/ ingestStripeWebhook
    \/ \E p \in Purgers : StartPurge(p) \/ Purge(p) \/ PurgeStops(p)

Spec == Init /\ [][Next]_vars

(* Only the retention schedule keeps running.                              *)
Fairness == \A p \in Purgers : WF_vars(StartPurge(p)) /\ WF_vars(Purge(p))
FairSpec == Spec /\ Fairness

-----------------------------------------------------------------------------
(* Types; a job is of a message that was billed.                           *)
TypeOK ==
    /\ workspace \in {"live", "deleted", "gone"} /\ gate \in Gates
    /\ keys    \in [Keys -> {"none", "active", "revoked"}]
    /\ owner   \in Users
    /\ page    \in [Users -> {"none", "key", "delete"}]
    /\ request \in [Messages -> {"idle", "authenticated", "checked", "done"}]
    /\ message \in [Messages -> {"none", "queued", "sending", "sent", "failed", "unknown", "erased"}]
    /\ worker  \in [Messages -> {"idle", "claimed", "calling", "answered"}]
    /\ handed  \subseteq Messages
    /\ job     \in [Messages -> {"none", "pending", "processing", "reported", "lost"}]
    /\ {local, stripe} \subseteq Subscriptions /\ session \in BOOLEAN
    /\ events  \in 0 .. MaxEvents
    /\ purger  \in [Purgers -> 0 .. Len(purgeOrder) + 1]
    /\ faults  \in 0 .. MaxFaults
    /\ \A m \in Messages : job[m] # "none" => message[m] \in {"sent", "erased"}

(* No provider is given a message of a deleted workspace, although a       *)
(* request that was past its checks may still insert one ("every way in is *)
(* closed", deletion.ts).                                                  *)
NothingSentAfterDeletion == handed' # handed => workspace = "live"

(* No request authenticates with a deleted workspace, not even with a key  *)
(* that was created by a form opened before.                               *)
NoAccessAfterDeletion ==
    \A m \in Messages : request[m] = "idle" /\ request'[m] # "idle" => workspace = "live"

(* No usage is purged before it was reported to Stripe: a deletion is      *)
(* refused "while accepted usage has not been reported to Stripe yet".     *)
UsageIsReported == \A m \in Messages : job[m] # "lost"

(* What a late request inserts while the purge is past its table goes with *)
(* the last statement; after it, nothing comes back.                       *)
GoneIsEmpty ==
    workspace = "gone" => \A m \in Messages : message[m] \in {"none", "erased"}

(* A deletion that was accepted is carried out, by the request or by the   *)
(* retention worker, whatever is killed on the way.                        *)
Deleted == workspace = "deleted"
Gone    == workspace = "gone"
DeletedIsGone == Deleted ~> Gone
=============================================================================
