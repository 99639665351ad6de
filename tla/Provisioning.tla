---------------------------- MODULE Provisioning ----------------------------
(***************************************************************************)
(* Postmark resources of one workspace (workers/provider-provisioning.ts,  *)
(* providers/provision-postmark.ts): jobs of its bindings are redelivered  *)
(* at will, run under an advisory lock, and create at Postmark one server  *)
(* for the workspace, and one domain and webhook for each binding.  A      *)
(* creation whose answer is lost must not be issued again.                 *)
(*                                                                         *)
(* Operators request, activate and disable bindings, and pause the         *)
(* account, while a job is between two of its calls (admin/actions.ts);    *)
(* the health check reads and then writes too (workers/domain-health.ts).  *)
(***************************************************************************)
EXTENDS Integers, Sequences, FiniteSets

CONSTANTS
    Bindings,   \* bindings of the workspace to Postmark
    Workers,    \* invocations that run at the same time
    MaxOps,     \* bound: operators' decisions
    MaxFaults,  \* bound: lost answers, killed invocations
    MaxLost     \* bound: connections that lose the advisory lock

ProvisioningAssumption ==
    /\ MaxOps \in Nat /\ MaxFaults \in Nat /\ MaxLost \in Nat
    /\ "none" \notin Workers /\ "server" \notin Bindings

VARIABLES
    binding,  \* domain_provider_bindings: status, is_active, last_check_error
    account,  \* workspace_provider_accounts: status, server, credential
    servers,  \* Postmark: number of servers of this workspace
    param,    \* SSM: the server whose token is stored, 0 if none
    domains,  \* Postmark: bindings whose domain exists
    webhooks, \* Postmark: webhooks of each binding
    late,     \* Postmark: creations it completes after the caller gave up
    lock,     \* who holds the advisory lock
    worker,   \* what each invocation knows
    reading,  \* bindings a check or an activation has read as it wanted them
    ops, faults, lost

rows     == <<binding, account>>
postmark == <<servers, param, domains, webhooks, late>>
counts   == <<ops, faults, lost>>
vars     == <<rows, postmark, lock, worker, reading, counts>>

-----------------------------------------------------------------------------
None     == "none"
NoServer == 0
Ambiguous == -1
Open     == {"pending", "failed"}
Checked  == {"dns_pending", "verified"}
Idle     == [pc |-> "idle", b |-> None, account |-> None, known |-> NoServer, marked |-> FALSE, server |-> NoServer]

At(w, pc)  == worker[w].pc = pc
Job(w)     == worker[w].b
Go(w, pc)  == worker' = [worker EXCEPT ![w].pc = pc]
Found(w, pc, s) == worker' = [worker EXCEPT ![w].pc = pc, ![w].server = s]

(* Leaving the transaction of the lock gives it back.                      *)
Leave(w) ==
    /\ worker' = [worker EXCEPT ![w] = Idle]
    /\ lock' = IF lock = w THEN None ELSE lock

(* Evaluated again by every statement that writes.                         *)
Writable(b) ==
    /\ binding[b].status \in Open /\ ~binding[b].active
    /\ account.status \notin {"paused", "disabled"}

(* The guard of the account's upserts: no other server, no other secret.   *)
SameAccount(s) ==
    /\ account.status \in {None, "pending", "failed", "ready"}
    /\ s = NoServer \/ account.server \in {NoServer, s}

(* A second creation is never issued after one that may have succeeded.    *)
MayCreateServerBug(w) == TRUE
MayCreateServer(w)    == worker[w].account = None

MayCreateWebhook(w)    == ~worker[w].marked

Marked(b) == binding[b].error = "uncertain"

Fault == faults < MaxFaults /\ faults' = faults + 1 /\ UNCHANGED <<ops, lost>>
Decide == ops < MaxOps /\ ops' = ops + 1 /\ UNCHANGED <<faults, lost>>

-----------------------------------------------------------------------------
Init ==
    /\ binding = [b \in Bindings |-> [status |-> "pending", active |-> FALSE, error |-> None]]
    /\ account = [status |-> None, server |-> NoServer, credential |-> FALSE]
    /\ servers = 0 /\ param = NoServer /\ domains = {} /\ webhooks = [b \in Bindings |-> 0] /\ late = {}
    /\ lock = None /\ worker = [w \in Workers |-> Idle]
    /\ reading = [check |-> {}, activate |-> {}]
    /\ ops = 0 /\ faults = 0 /\ lost = 0

(* The lock, the rows, and what they allow.                                *)
Start(w, b) ==
    /\ At(w, "idle") /\ lock = None
    /\ Writable(b)
    /\ lock' = w
    /\ worker' = [worker EXCEPT ![w] = [pc |-> "find", b |-> b, account |-> account.status,
                      known |-> account.server, marked |-> Marked(b), server |-> NoServer]]
    /\ UNCHANGED <<rows, postmark, reading, counts>>

(* The one server with the workspace's stable name, or none: two of them   *)
(* are an error.                                                           *)
findUnique(n) == IF n > 1 THEN Ambiguous ELSE n

(* The server the account names, the one that is found, or none.           *)
FindServer(w) ==
    /\ At(w, "find")
    /\ LET found == findUnique(servers) IN
       \/ worker[w].known # NoServer /\ Found(w, "record", worker[w].known)
       \/ worker[w].known = NoServer /\ found \notin {NoServer, Ambiguous} /\ Found(w, "record", found)
       \/ worker[w].known = NoServer /\ found = Ambiguous /\ Go(w, "fail")
       \/ /\ worker[w].known = NoServer /\ found = NoServer
          /\ Go(w, IF MayCreateServer(w) THEN "reserve" ELSE "fail")
    /\ UNCHANGED <<rows, postmark, lock, reading, counts>>

(* checkpoint: the binding is still ours to write, and so is the account.  *)
Checkpoint(w, s, credential, next) ==
    IF Writable(Job(w)) /\ SameAccount(s)
    THEN /\ account' = [status |-> IF account.status = "ready" THEN "ready" ELSE "pending",
                        server |-> IF s = NoServer THEN account.server ELSE s,
                        credential |-> account.credential \/ credential]
         /\ Go(w, next) /\ UNCHANGED <<binding, lock>>
    ELSE Leave(w) /\ UNCHANGED rows

Reserve(w)          == At(w, "reserve") /\ Checkpoint(w, NoServer, FALSE, "create") /\ UNCHANGED <<postmark, reading, counts>>
RecordServer(w)     == At(w, "record") /\ Checkpoint(w, worker[w].server, FALSE, "secret") /\ UNCHANGED <<postmark, reading, counts>>
RecordCredential(w) == At(w, "recorded") /\ Checkpoint(w, worker[w].server, TRUE, "domain") /\ UNCHANGED <<postmark, reading, counts>>

CreateServer(w) ==
    /\ At(w, "create")
    /\ \/ servers' = servers + 1 /\ Found(w, "record", servers + 1) /\ UNCHANGED <<late, counts>>
       \/ Fault /\ Go(w, "fail") /\ late' = late \cup {"server"} /\ UNCHANGED servers
    /\ UNCHANGED <<rows, param, domains, webhooks, lock, reading>>

(* The parameter is created once; the one found must be a token of ours.   *)
createCredentialOnce(w) ==
    /\ At(w, "secret")
    /\ param' = IF param = NoServer THEN worker[w].server ELSE param
    /\ Go(w, IF param' = worker[w].server THEN "recorded" ELSE "fail")
    /\ UNCHANGED <<rows, servers, domains, webhooks, late, lock, reading, counts>>

CreateDomain(w) ==
    /\ At(w, "domain")
    /\ domains' = domains \cup {Job(w)}
    /\ \/ Go(w, "list") /\ UNCHANGED counts
       \/ Fault /\ Go(w, "fail")
    /\ UNCHANGED <<rows, servers, param, webhooks, late, lock, reading>>

ListWebhooks(w) ==
    /\ At(w, "list")
    /\ \/ findUnique(webhooks[Job(w)]) = 1 /\ Go(w, "finish")
       \/ findUnique(webhooks[Job(w)]) = Ambiguous /\ Go(w, "fail")
       \/ webhooks[Job(w)] = 0 /\ Go(w, IF MayCreateWebhook(w) THEN "mark" ELSE "fail")
    /\ UNCHANGED <<rows, postmark, lock, reading, counts>>

beforeWebhookCreate(w) ==
    /\ At(w, "mark")
    /\ IF Writable(Job(w))
       THEN /\ binding' = [binding EXCEPT ![Job(w)].error = "uncertain"]
            /\ Go(w, "post") /\ UNCHANGED <<account, lock>>
       ELSE Leave(w) /\ UNCHANGED rows
    /\ UNCHANGED <<postmark, reading, counts>>

CreateWebhook(w) ==
    /\ At(w, "post")
    /\ \/ webhooks' = [webhooks EXCEPT ![Job(w)] = @ + 1] /\ Go(w, "finish") /\ UNCHANGED <<late, counts>>
       \/ Fault /\ Go(w, "fail") /\ late' = late \cup {Job(w)} /\ UNCHANGED webhooks
    /\ UNCHANGED <<rows, servers, param, domains, lock, reading>>

(* The outcome, in one transaction.                                        *)
Finish(w) ==
    /\ At(w, "finish")
    /\ LET b == Job(w) IN
       IF Writable(b) /\ SameAccount(worker[w].server)
       THEN /\ binding' = [binding EXCEPT ![b].status = "dns_pending", ![b].error = None]
            /\ account' = [status |-> "ready", server |-> worker[w].server, credential |-> TRUE]
       ELSE UNCHANGED rows
    /\ Leave(w)
    /\ UNCHANGED <<postmark, reading, counts>>

KeptError(b)    == IF Marked(b) THEN "uncertain" ELSE "failed"

(* The failure is recorded; the queue delivers the job again.              *)
RecordFailure(w) ==
    /\ At(w, "fail")
    /\ binding' = IF Writable(Job(w))
                  THEN [binding EXCEPT ![Job(w)].status = "failed", ![Job(w)].error = KeptError(Job(w))]
                  ELSE binding
    /\ Leave(w)
    /\ UNCHANGED <<account, postmark, reading, counts>>

(* Killed, or out of time, before a call or after it.                      *)
Killed(w) ==
    /\ ~At(w, "idle") /\ Fault /\ Leave(w)
    /\ UNCHANGED <<rows, postmark, reading>>

LoseLock ==
    /\ lock # None /\ lost < MaxLost
    /\ lost' = lost + 1 /\ lock' = None
    /\ UNCHANGED <<rows, postmark, worker, reading, ops, faults>>

(* A creation takes effect although its caller heard of a timeout.         *)
TakesEffect(x) ==
    /\ x \in late /\ late' = late \ {x}
    /\ IF x = "server" THEN servers' = servers + 1 /\ UNCHANGED webhooks
       ELSE webhooks' = [webhooks EXCEPT ![x] = @ + 1] /\ UNCHANGED servers
    /\ UNCHANGED <<rows, param, domains, lock, worker, reading, counts>>

-----------------------------------------------------------------------------
(* provisionDomainAction: the binding is pending again.                    *)
provisionDomain(b) ==
    /\ Decide
    /\ binding[b].status \in Open /\ ~binding[b].active
    /\ binding' = [binding EXCEPT ![b].status = "pending", ![b].error = IF Marked(b) THEN @ ELSE None]
    /\ UNCHANGED <<account, postmark, lock, worker, reading>>

setProviderAccountStatus(s) ==
    /\ Decide
    /\ account.status # None /\ (s = "ready" => account.server # NoServer)
    /\ account' = [account EXCEPT !.status = s]
    /\ UNCHANGED <<binding, postmark, lock, worker, reading>>

disableDomainBinding(b) ==
    /\ Decide
    /\ binding' = [binding EXCEPT ![b].status = "disabled", ![b].active = FALSE]
    /\ UNCHANGED <<account, postmark, lock, worker, reading>>

(* Two steps: the row is read before the transaction.                      *)
ReadToActivate(b) ==
    /\ binding[b].status = "verified" /\ ~binding[b].active
    /\ reading' = [reading EXCEPT !.activate = @ \cup {b}]
    /\ UNCHANGED <<rows, postmark, lock, worker, counts>>

activateDomainBinding(b) ==
    /\ b \in reading.activate
    /\ reading' = [reading EXCEPT !.activate = @ \ {b}]
    /\ binding' = [binding EXCEPT ![b].active = TRUE]
    /\ UNCHANGED <<account, postmark, lock, worker, counts>>

(* The health check asks the provider between its read and its write.      *)
ReadToCheck(b) ==
    /\ binding[b].status \in Checked
    /\ reading' = [reading EXCEPT !.check = @ \cup {b}]
    /\ UNCHANGED <<rows, postmark, lock, worker, counts>>

StillChecked(b)    == binding[b].status \in Checked

checkBinding(b) ==
    /\ b \in reading.check
    /\ reading' = [reading EXCEPT !.check = @ \ {b}]
    /\ \/ /\ StillChecked(b)
          /\ \E s \in Checked : binding' = [binding EXCEPT ![b].status = s, ![b].error = None]
       \/ /\ StillChecked(b)
          /\ binding' = [binding EXCEPT ![b].error = "failed"]
       \/ ~StillChecked(b) /\ UNCHANGED binding
    /\ UNCHANGED <<account, postmark, lock, worker, counts>>

Work(w) ==
    \/ \E b \in Bindings : Start(w, b)
    \/ FindServer(w) \/ Reserve(w) \/ CreateServer(w) \/ RecordServer(w)
    \/ createCredentialOnce(w) \/ RecordCredential(w) \/ CreateDomain(w)
    \/ ListWebhooks(w) \/ beforeWebhookCreate(w) \/ CreateWebhook(w)
    \/ Finish(w) \/ RecordFailure(w) \/ Killed(w)

Next ==
    \/ \E w \in Workers : Work(w)
    \/ LoseLock
    \/ \E x \in late : TakesEffect(x)
    \/ \E b \in Bindings : \/ provisionDomain(b) \/ disableDomainBinding(b)
                           \/ ReadToActivate(b) \/ activateDomainBinding(b)
                           \/ ReadToCheck(b) \/ checkBinding(b)
    \/ \E s \in {"ready", "paused", "disabled"} : setProviderAccountStatus(s)

Spec == Init /\ [][Next]_vars

-----------------------------------------------------------------------------
Pcs == {"idle", "find", "reserve", "create", "record", "secret", "recorded", "domain",
        "list", "mark", "post", "finish", "fail"}
Accounts == {None, "pending", "failed", "ready", "paused", "disabled"}
BindingRow == [status : Open \cup Checked \cup {"disabled"}, active : BOOLEAN, error : {None, "uncertain", "failed"}]
AccountRow == [status : Accounts, server : Nat, credential : BOOLEAN]

TypeOK ==
    /\ binding \in [Bindings -> BindingRow]
    /\ account \in AccountRow
    /\ servers \in Nat /\ param \in 0..servers /\ domains \subseteq Bindings /\ webhooks \in [Bindings -> Nat]
    /\ late \subseteq Bindings \cup {"server"}
    /\ lock \in Workers \cup {None}
    /\ worker \in [Workers -> [pc : Pcs, b : Bindings \cup {None}, account : Accounts,
                               known : Nat, marked : BOOLEAN, server : Nat]]
    /\ reading \in [check : SUBSET Bindings, activate : SUBSET Bindings]
    /\ ops \in 0..MaxOps /\ faults \in 0..MaxFaults /\ lost \in 0..MaxLost

(* While the lock holds, redelivered jobs, lost answers and killed         *)
(* invocations never create a second server for the workspace, nor a       *)
(* second webhook for a binding.                                           *)
CreatedOnce ==
    lost = 0 => servers <= 1 /\ \A b \in Bindings : webhooks[b] <= 1

(* Even after the lock was lost and two jobs of the workspace ran          *)
(* together: the account never names a server without the stored token     *)
(* being of this server, and a provisioned binding has all its resources.  *)
CredentialIsOfServer ==
    /\ account.credential => account.server # NoServer /\ param = account.server
    /\ \A b \in Bindings : binding[b].status \in Checked => webhooks[b] > 0 /\ b \in domains /\ account.credential

(* A job or a check that was running when an operator disabled a binding,  *)
(* or paused the account, never undoes it.                                 *)
OperatorsPrevail ==
    /\ \A b \in Bindings : binding[b].status = "disabled" => binding'[b].status = "disabled"
    /\ account.status \in {"paused", "disabled"} /\ account' # account => ops' # ops
=============================================================================
