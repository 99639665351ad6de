----------------------------- MODULE Templates ------------------------------
(***************************************************************************)
(* One template and its transactional profile (templates/versioning.ts,    *)
(* templates/actions.ts, profiles/actions.ts, admin/actions.ts): members   *)
(* edit, which appends an immutable version and returns the template to    *)
(* review; an administrator decides on it, whatever it has become meanwhile;*)
(* requests are served the latest version of an approved template          *)
(* (emails/accept.ts).                                                     *)
(***************************************************************************)
EXTENDS Integers

CONSTANTS
    Editors,     \* saves of the form that run together
    MaxVersions  \* bound: versions

TemplatesAssumption == MaxVersions \in Nat \ {0}

VARIABLES
    status,   \* templates.review_status
    versions, \* template_versions: the number of them
    current,  \* templates.current_version
    profile,  \* transactional_profiles.status
    editor,   \* transactions of createTemplateVersion: what each has read
    served,   \* versions that were sent
    passed    \* versions that existed when the template was last approved

vars == <<status, versions, current, profile, editor, served, passed>>

Statuses == {"pending_review", "approved", "rejected", "disabled"}
Idle     == [pc |-> "idle", version |-> 0]

StatusOfEditBug == status
StatusOfEdit    == "pending_review"

(* The row lock of an edit keeps other edits and reviews out.              *)
Free    == \A e \in Editors : editor[e].pc = "idle"

-----------------------------------------------------------------------------
(* createTemplate: version 1, to be reviewed.                              *)
Init ==
    /\ status = "pending_review" /\ versions = 1 /\ current = 1
    /\ profile = "pending_review"
    /\ editor = [e \in Editors |-> Idle]
    /\ served = {} /\ passed = 0

(* Lock, check, number the version.                                        *)
BeginEdit(e) ==
    /\ Free /\ editor[e].pc = "idle"
    /\ status # "disabled" /\ versions < MaxVersions
    /\ editor' = [editor EXCEPT ![e] = [pc |-> "locked", version |-> versions + 1]]
    /\ UNCHANGED <<status, versions, current, profile, served, passed>>

CommitEdit(e) ==
    /\ editor[e].pc = "locked"
    /\ versions' = editor[e].version /\ current' = editor[e].version
    /\ status' = StatusOfEdit
    /\ editor' = [editor EXCEPT ![e] = Idle]
    /\ UNCHANGED <<profile, served, passed>>

AbortEdit(e) ==
    /\ editor[e].pc = "locked"
    /\ editor' = [editor EXCEPT ![e] = Idle]
    /\ UNCHANGED <<status, versions, current, profile, served, passed>>

(* The decision names the template, not the version the administrator saw: *)
(* it waits for the row and applies to whatever is there.                  *)
reviewTemplate(verdict) ==
    /\ Free
    /\ status' = verdict
    /\ passed' = IF verdict = "approved" THEN versions ELSE passed
    /\ UNCHANGED <<versions, current, profile, editor, served>>

disableTemplate ==
    /\ Free /\ status' = "disabled"
    /\ UNCHANGED <<versions, current, profile, editor, served, passed>>

reviewTransactionalProfile ==
    /\ profile' \in {"approved", "rejected"}
    /\ UNCHANGED <<status, versions, current, editor, served, passed>>

(* By a member or an administrator; a review may bring it back.            *)
disableTransactionalProfile ==
    /\ profile' = "disabled"
    /\ UNCHANGED <<status, versions, current, editor, served, passed>>

(* One statement reads the status and the latest version.                  *)
Serve ==
    /\ status = "approved" /\ profile = "approved"
    /\ served' = served \cup {versions}
    /\ UNCHANGED <<status, versions, current, profile, editor, passed>>

Next ==
    \/ \E e \in Editors : BeginEdit(e) \/ CommitEdit(e) \/ AbortEdit(e)
    \/ \E verdict \in {"approved", "rejected"} : reviewTemplate(verdict)
    \/ disableTemplate \/ reviewTransactionalProfile \/ disableTransactionalProfile \/ Serve

Spec == Init /\ [][Next]_vars

-----------------------------------------------------------------------------
TypeOK ==
    /\ status \in Statuses /\ profile \in Statuses
    /\ versions \in 1..MaxVersions /\ current \in 1..MaxVersions
    /\ editor \in [Editors -> [pc : {"idle", "locked"}, version : 0..MaxVersions]]
    /\ served \subseteq 1..MaxVersions /\ passed \in 0..MaxVersions

(* An edit sends the template back to review, whatever saves and decisions *)
(* overlap: what is served existed when an administrator approved.         *)
ServedWasApproved ==
    /\ current = versions
    /\ status = "approved" => passed = versions
    /\ \A v \in served : v <= passed
=============================================================================
