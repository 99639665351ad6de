----------------------------- MODULE Attachments -----------------------------
(***************************************************************************)
(* The life of the attachments of one message: a row in the database and   *)
(* an object in the bucket, written by the upload API and the client       *)
(* (app/v1/attachments/route.ts), the scan of each upload                  *)
(* (workers/attachment-scan.ts), the message that takes them               *)
(* (emails/accept.ts), the worker that sends and then erases them          *)
(* (workers/send-email.ts), and the purge of what has expired              *)
(* (workers/purge-attachments.ts).                                         *)
(*                                                                         *)
(* Each database statement and each call of the bucket is a step.  Of the  *)
(* clock only two instants count: the signed URL's ten minutes, and        *)
(* expiresAt, 23 hours.  The message may be sent for 24 hours.             *)
(***************************************************************************)
EXTENDS Integers, FiniteSets

CONSTANTS
    Files,      \* attachments of the message
    Typed,      \* those whose bytes are of the type they declare
    Scanners,   \* invocations of the scan worker
    MaxVerdicts,\* bound: verdicts of the scanner per attachment
    MaxFaults   \* bound: failed calls and killed invocations

AttachmentsAssumption ==
    IsFiniteSet(Files) /\ Typed \subseteq Files /\ {MaxVerdicts, MaxFaults} \subseteq Nat

VARIABLES
    row,      \* attachments: status and scan_result
    owned,    \* attachments whose message_id is the message
    object,   \* attachments whose bytes are in the bucket
    window,   \* attachments whose URL still accepts an upload
    expired,  \* attachments past expiresAt
    verdicts, \* verdicts of the scanner that may be delivered, and again
    scanner,  \* what each invocation of the scan worker is doing
    message,  \* the message: how far it is, and the attachments loaded
    purge,    \* the purge: the rows selected, and those whose object is gone
    erased,   \* the sender's loop over its attachments: the one whose object is gone, the end
    condemned,\* attachments whose row has taken a threat verdict
    faults    \* failures so far

clock  == <<window, expired>>
vars   == <<row, owned, object, clock, verdicts, scanner, message, purge, erased, condemned, faults>>

-----------------------------------------------------------------------------
Clean  == "NO_THREATS_FOUND"
Threat == "THREATS_FOUND"
Statuses  == {"none", "pending_upload", "scanning", "clean", "rejected", "expired", "deleted"}
Results   == {"none", Clean, Threat}
Stages    == {"none", "checked", "queued", "loaded", "sent", "failed", "unknown"}
Idle      == [pc |-> "idle"]
ScannerStates ==
    {Idle} \cup [pc : {"seen"}, file : Files, status : Statuses, verdict : Results]
           \cup [pc : {"read"}, file : Files]
           \cup [pc : {"write"}, file : Files, ok : BOOLEAN]

Fault == faults < MaxFaults /\ faults' = faults + 1
Become(s, state) == scanner' = [scanner EXCEPT ![s] = state]
Set(f, status, scan) == row' = [row EXCEPT ![f] = [status |-> status, scan |-> scan]]
Status(f) == row[f].status

(* The conditions of the updates.                                          *)
UrlFor(f)    == {f}

Rejectable(f)    == Status(f) \in {"pending_upload", "scanning", "clean"}

Scannable(f)    == Status(f) \in {"pending_upload", "scanning"}

StillScanning(f)    == Status(f) = "scanning" /\ row[f].scan = Clean

Verified(f)    == f \in Typed

PurgeableBug == {"pending_upload", "clean", "rejected"}
Purgeable    == {"pending_upload", "scanning", "clean", "rejected"}

Loadable(f)    == f \in owned /\ Status(f) = "clean"

-----------------------------------------------------------------------------
Init ==
    /\ row = [f \in Files |-> [status |-> "none", scan |-> "none"]]
    /\ owned = {} /\ object = {} /\ window = {} /\ expired = {}
    /\ verdicts = [f \in Files |-> {}]
    /\ scanner = [s \in Scanners |-> Idle]
    /\ message = [stage |-> "none", loaded |-> {}]
    /\ purge = [todo |-> {}, gone |-> {}]
    /\ erased = [gone |-> {}, ended |-> FALSE]
    /\ condemned = {}
    /\ faults = 0

(* The API signs a URL and inserts the row.                                *)
createAttachmentUpload(f) ==
    /\ Status(f) = "none"
    /\ Set(f, "pending_upload", "none")
    /\ window' = window \cup UrlFor(f)
    /\ UNCHANGED <<owned, object, expired, verdicts, scanner, message, purge, erased, condemned, faults>>

(* The bucket accepts only the bytes whose checksum was signed, and again  *)
(* while the URL lasts, whatever has become of the row.                    *)
Upload(f) ==
    /\ f \in window
    /\ object' = object \cup {f}
    /\ \E v \in {Clean, Threat} :
         /\ v \in verdicts[f] \/ Cardinality(verdicts[f]) < MaxVerdicts
         /\ verdicts' = [verdicts EXCEPT ![f] = @ \cup {v}]
    /\ UNCHANGED <<row, owned, clock, scanner, message, purge, erased, condemned, faults>>

CloseWindow(f) ==
    /\ f \in window
    /\ window' = window \ {f}
    /\ UNCHANGED <<row, owned, object, expired, verdicts, scanner, message, purge, erased, condemned, faults>>

Expire(f) ==
    /\ Status(f) # "none" /\ f \notin window \cup expired
    /\ expired' = expired \cup {f}
    /\ UNCHANGED <<row, owned, object, window, verdicts, scanner, message, purge, erased, condemned, faults>>

(* The bucket's own rule, a day after the upload.                          *)
BucketExpires(f) ==
    /\ f \in expired \cap object
    /\ object' = object \ {f}
    /\ UNCHANGED <<row, owned, clock, verdicts, scanner, message, purge, erased, condemned, faults>>

-----------------------------------------------------------------------------
(* The scan worker: an event is delivered at least once, in any order.     *)
ScanReceive(s, f) ==
    /\ scanner[s] = Idle
    /\ \E v \in verdicts[f] : Become(s, [pc |-> "seen", file |-> f, status |-> Status(f), verdict |-> v])
    /\ UNCHANGED <<row, owned, object, clock, verdicts, message, purge, erased, condemned, faults>>

ScanReject(s) ==
    /\ scanner[s].pc = "seen" /\ scanner[s].verdict # Clean
    /\ LET f == scanner[s].file IN
       \/ Rejectable(f) /\ Set(f, "rejected", Threat) /\ condemned' = condemned \cup {f}
       \/ ~Rejectable(f) /\ UNCHANGED <<row, condemned>>
    /\ Become(s, Idle)
    /\ UNCHANGED <<owned, object, clock, verdicts, message, purge, erased, faults>>

ScanClaim(s) ==
    /\ scanner[s].pc = "seen" /\ scanner[s].verdict = Clean
    /\ LET f == scanner[s].file
           claims == scanner[s].status # "clean" /\ Scannable(f) IN
       \/ claims /\ Set(f, "scanning", Clean) /\ Become(s, [pc |-> "read", file |-> f])
       \/ ~claims /\ UNCHANGED row /\ Become(s, Idle)
    /\ UNCHANGED <<owned, object, clock, verdicts, message, purge, erased, condemned, faults>>

(* A missing object, or a failure, throws: the event comes again.          *)
ScanObject(s) ==
    /\ scanner[s].pc = "read"
    /\ LET f == scanner[s].file IN
       \/ f \in object /\ Become(s, [pc |-> "write", file |-> f, ok |-> Verified(f)])
       \/ f \notin object /\ Become(s, Idle)
    /\ UNCHANGED <<row, owned, object, clock, verdicts, message, purge, erased, condemned, faults>>

ScanWrite(s) ==
    /\ scanner[s].pc = "write"
    /\ LET f == scanner[s].file IN
       IF StillScanning(f) THEN Set(f, IF scanner[s].ok THEN "clean" ELSE "rejected", Clean)
       ELSE UNCHANGED row
    /\ Become(s, Idle)
    /\ UNCHANGED <<owned, object, clock, verdicts, message, purge, erased, condemned, faults>>

ScanFails(s) ==
    /\ scanner[s] # Idle
    /\ Fault
    /\ Become(s, Idle)
    /\ UNCHANGED <<row, owned, object, clock, verdicts, message, purge, erased, condemned>>

-----------------------------------------------------------------------------
(* The acceptance reads clean, unexpired attachments, and later, in its    *)
(* transaction, takes them if no message has: not if they are still clean. *)
AcceptRead(fs) ==
    /\ message.stage = "none"
    /\ \A f \in fs : Status(f) = "clean" /\ f \notin expired
    /\ message' = [stage |-> "checked", loaded |-> fs]
    /\ UNCHANGED <<row, owned, object, clock, verdicts, scanner, purge, erased, condemned, faults>>

AcceptCommit ==
    /\ message.stage = "checked"
    /\ owned' = message.loaded
    /\ message' = [stage |-> "queued", loaded |-> {}]
    /\ UNCHANGED <<row, object, clock, verdicts, scanner, purge, erased, condemned, faults>>

(* The sender selects the message's clean rows and reads their objects; an *)
(* object that is not there is an error of the bucket, hence ambiguous.    *)
loadAttachments ==
    /\ message.stage = "queued"
    /\ LET fs == {f \in Files : Loadable(f)} IN
       \/ fs \subseteq object /\ message' = [stage |-> "loaded", loaded |-> fs]
       \/ ~(fs \subseteq object) /\ message' = [message EXCEPT !.stage = "unknown"]
    /\ UNCHANGED <<row, owned, object, clock, verdicts, scanner, purge, erased, condemned, faults>>

(* The provider takes the message, refuses it, or is busy: then it goes    *)
(* back to the queue and is loaded again.                                  *)
Send ==
    /\ message.stage = "loaded"
    /\ \/ message' = [message EXCEPT !.stage = "sent"] /\ UNCHANGED faults
       \/ message' = [message EXCEPT !.stage = "failed"] /\ UNCHANGED faults
       \/ message' = [stage |-> "queued", loaded |-> {}] /\ Fault
    /\ UNCHANGED <<row, owned, object, clock, verdicts, scanner, purge, erased, condemned>>

(* After a send only: object, then row, for each; an error ends the loop   *)
(* in silence, also when the call it is of was done.                       *)
EraseObject(f) ==
    /\ message.stage = "sent" /\ ~erased.ended /\ erased.gone = {}
    /\ f \in message.loaded /\ Status(f) # "deleted"
    /\ \/ object' = object \ {f} /\ erased' = [erased EXCEPT !.gone = {f}] /\ UNCHANGED faults
       \/ object' \in {object, object \ {f}} /\ erased' = [erased EXCEPT !.ended = TRUE] /\ Fault
    /\ UNCHANGED <<row, owned, clock, verdicts, scanner, message, purge, condemned>>

EraseRow(f) ==
    /\ f \in erased.gone
    /\ \/ Set(f, "deleted", row[f].scan) /\ erased' = [erased EXCEPT !.gone = {}] /\ UNCHANGED faults
       \/ UNCHANGED row /\ erased' = [gone |-> {}, ended |-> TRUE] /\ Fault
    /\ UNCHANGED <<owned, object, clock, verdicts, scanner, message, purge, condemned>>

purgeAttachments(f) == EraseObject(f) \/ EraseRow(f)

-----------------------------------------------------------------------------
(* The half-hourly purge.  It does not ask whether a message owns the row. *)
PurgeSelect ==
    /\ purge.todo = {}
    /\ LET due == {f \in expired : Status(f) \in Purgeable} IN
       due # {} /\ purge' = [todo |-> due, gone |-> {}]
    /\ UNCHANGED <<row, owned, object, clock, verdicts, scanner, message, erased, condemned, faults>>

PurgeObject(f) ==
    /\ f \in purge.todo \ purge.gone
    /\ purge.gone \cap purge.todo = {}
    /\ object' = object \ {f}
    /\ purge' = [purge EXCEPT !.gone = @ \cup {f}]
    /\ UNCHANGED <<row, owned, clock, verdicts, scanner, message, erased, condemned, faults>>

PurgeRow(f) ==
    /\ f \in purge.todo \cap purge.gone
    /\ IF Status(f) \in Purgeable THEN Set(f, "expired", row[f].scan) ELSE UNCHANGED row
    /\ purge' = [purge EXCEPT !.todo = @ \ {f}]
    /\ UNCHANGED <<owned, object, clock, verdicts, scanner, message, erased, condemned, faults>>

PurgeFails ==
    /\ purge.todo # {}
    /\ Fault
    /\ purge' = [todo |-> {}, gone |-> {}]
    /\ UNCHANGED <<row, owned, object, clock, verdicts, scanner, message, erased, condemned>>

-----------------------------------------------------------------------------
Purge == PurgeSelect \/ \E f \in Files : PurgeObject(f) \/ PurgeRow(f)
Client(f) == createAttachmentUpload(f) \/ Upload(f) \/ CloseWindow(f) \/ Expire(f) \/ BucketExpires(f)
Scan(s) == ScanReject(s) \/ ScanClaim(s) \/ ScanObject(s) \/ ScanWrite(s)
Delivery ==
    \/ \E fs \in SUBSET Files \ {{}} : AcceptRead(fs)
    \/ AcceptCommit \/ loadAttachments \/ Send
    \/ \E f \in Files : purgeAttachments(f)

Next ==
    \/ \E f \in Files : Client(f)
    \/ \E s \in Scanners : Scan(s) \/ ScanFails(s) \/ \E f \in Files : ScanReceive(s, f)
    \/ Delivery
    \/ Purge \/ PurgeFails

Spec == Init /\ [][Next]_vars

(* Time passes, and the purge is scheduled every thirty minutes.           *)
FairSpec ==
    /\ Spec
    /\ \A f \in Files : WF_vars(CloseWindow(f)) /\ WF_vars(Expire(f))
    /\ WF_vars(Purge)

-----------------------------------------------------------------------------
(* Types; what a sender loads is an attachment of the message.             *)
TypeOK ==
    /\ row \in [Files -> [status : Statuses, scan : Results]]
    /\ {owned, object, window, expired, condemned} \subseteq SUBSET Files
    /\ verdicts \in [Files -> SUBSET {Clean, Threat}]
    /\ scanner \in [Scanners -> ScannerStates]
    /\ message \in [stage : Stages, loaded : SUBSET Files]
    /\ purge \in [todo : SUBSET Files, gone : SUBSET Files]
    /\ erased \in [gone : SUBSET Files, ended : BOOLEAN]
    /\ faults \in 0..MaxFaults
    /\ \A f \in Files : Status(f) = "none" => f \notin object \cup owned

(* A clean attachment passed the scan and the verification, whatever order *)
(* verdicts arrive in and however many invocations hold the row            *)
(* (attachment-scan.ts:64-81).                                             *)
CleanWasVerified ==
    \A f \in Files : Status(f) = "clean" => f \in Typed /\ Clean \in verdicts[f] /\ f \notin condemned

(* A threat verdict that reached the row before the sender selected its    *)
(* attachments keeps the file out of the email; the provider may hold one  *)
(* condemned later, but never one loaded after (send-email.ts:42-47).      *)
CondemnedIsNotLoaded ==
    message'.stage = "loaded" /\ message.stage # "loaded" => message'.loaded \cap condemned = {}

(* A verdict that comes late, or again, never revives an attachment: a     *)
(* rejection holds until the bytes go, and an expired or deleted one is    *)
(* never scanned again (attachment-scan.ts:42-57, :76-81).                 *)
NeverRevived ==
    \A f \in Files :
        /\ Status(f) = "rejected" => Status(f)' \in {"rejected", "expired", "deleted"}
        /\ Status(f) \in {"expired", "deleted"} => Status(f)' \in {"expired", "deleted"}

(* No object outlives its row's 23 hours: whatever failed before, the      *)
(* purge erases the bytes (purge-attachments.ts:14-32), without the        *)
(* bucket's rule.  It does not for a row the sender has set to deleted:    *)
(* what the client uploaded again after that is left to the bucket.        *)
Overdue(f)   == f \in expired \cap object /\ Status(f) # "deleted"
ErasedInTime == \A f \in Files : Overdue(f) ~> ~Overdue(f)
=============================================================================
