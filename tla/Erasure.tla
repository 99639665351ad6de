------------------------------ MODULE Erasure ------------------------------
(***************************************************************************)
(* What the foreign keys of Schema make of every deletion the code does:   *)
(* the purge of a deleted workspace table by table and its last cascade    *)
(* (workspace-data/purge.ts), the organization's and an account's deletion *)
(* (workspace-data/deletion.ts), the retention (workers/purge-             *)
(* retention.ts) and that of a webhook endpoint (webhooks/actions.ts),     *)
(* while other components still insert rows.                               *)
(*                                                                         *)
(* There is one workspace with one row in each table and one member; a row *)
(* refers to the rows of its own workspace.  A statement removes its rows  *)
(* and, in cascade, those that go with them, or is refused as a whole.     *)
(***************************************************************************)
EXTENDS Integers, Sequences

CONSTANTS
    Tables, PlatformTables, References, CascadesTo, OfWorkspace, \* those of Schema
    MaxInserts, \* bound: rows inserted by other components
    MaxDeletes  \* bound: deletions by retention and of endpoints

ErasureAssumption == {MaxInserts, MaxDeletes} \subseteq Nat

VARIABLES rows,     \* the tables that have their row
          cleared,  \* references that were set to null: <<table, referred>>
          role,     \* the member's role
          place,    \* the purge's place in purgeOrder, 0 before the deletion
          late,     \* rows inserted after the deletion
          inserts, deletes

vars == <<rows, cleared, role, place, late, inserts, deletes>>

-----------------------------------------------------------------------------
(* Tables purged batch by batch before the final cascade.                  *)
purgeOrder == <<"webhookDeliveries", "emailEvents", "messageAttempts", "usageLedger", "stripeUsageReportJobs",
    "stripeUsageReports", "attachments", "outboxJobs", "idempotencyKeys", "suppressions", "messages">>

Last == Len(purgeOrder) + 1
Gone == Last + 1

(* What the retention deletes; it anonymizes messages and suppressions.    *)
retentionTables    == {"emailEvents", "idempotencyKeys", "outboxJobs", "messageAttempts", "auditEvents", "usageDays"}

(* The tables whose row refers to one of S by a key with this rule.        *)
Referring(S, rule) == {t \in rows : \E r \in References[t] : r.onDelete = rule /\ r.to \in S}

(* Rows deleted by a statement that deletes S.                             *)
DoomedBug(S) == rows \cap S
Doomed(S)    == rows \cap UNION {CascadesTo[t] : t \in S \cap rows}

(* NO ACTION looks at what is left at the end of the statement, RESTRICT   *)
(* at every row the cascade reaches.                                       *)
Refused(S) ==
    \/ Referring(Doomed(S), "no action") \ Doomed(S) # {}
    \/ Referring(Doomed(S), "restrict") # {}

Delete(S) ==
    /\ ~Refused(S)
    /\ rows' = rows \ Doomed(S)
    /\ cleared' = {c \in cleared : c[1] \in rows'}
                  \cup UNION {{<<t, r.to>> : r \in {q \in References[t] : q.onDelete = "set null" /\ q.to \in Doomed(S)}}
                              : t \in rows'}
    /\ late' = late \ Doomed(S)

Init ==
    /\ rows = Tables /\ cleared = {} /\ late = {}
    /\ role \in {"owner", "member"}
    /\ place = 0 /\ inserts = 0 /\ deletes = 0

-----------------------------------------------------------------------------
(* Another component writes a row again; the references it needs exist.    *)
Insert(t) ==
    /\ inserts < MaxInserts /\ inserts' = inserts + 1
    /\ t \notin rows /\ OfWorkspace \in References[t]
    /\ \A r \in References[t] : r.onDelete # "set null" => r.to \in rows
    /\ rows' = rows \cup {t}
    /\ cleared' = cleared \cup {<<t, r.to>> : r \in {q \in References[t] : q.to \notin rows}}
    /\ late' = IF place > 0 THEN late \cup {t} ELSE late
    /\ UNCHANGED <<role, place, deletes>>

Counted == deletes < MaxDeletes /\ deletes' = deletes + 1

(* Every workspace has its turn, deleted ones too.                         *)
purgeWorkspaceRetention(t) ==
    /\ t \in retentionTables \cap rows /\ Counted /\ Delete({t})
    /\ UNCHANGED <<role, place, inserts>>

deleteWebhook ==
    /\ place = 0 /\ "webhookEndpoints" \in rows /\ Counted /\ Delete({"webhookEndpoints"})
    /\ UNCHANGED <<role, place, inserts>>

(* Refused to an owner of a live workspace.                                *)
deleteUserAccount ==
    /\ "authUsers" \in rows
    /\ role = "owner" => "authMembers" \notin rows
    /\ Delete({"authUsers"})
    /\ UNCHANGED <<role, place, inserts, deletes>>

(* The organization goes at once: memberships and invitations with it.     *)
requestWorkspaceDeletion ==
    /\ place = 0 /\ place' = 1 /\ Delete({"authOrganizations"})
    /\ UNCHANGED <<role, inserts, deletes>>

(* A batch of the table in turn, or the last cascade.                      *)
Victims == {IF place < Last THEN purgeOrder[place] ELSE "workspaces"}

purgeDeletedWorkspace ==
    /\ place \in 1 .. Last /\ place' = place + 1 /\ Delete(Victims)
    /\ UNCHANGED <<role, inserts, deletes>>

Next ==
    \/ \E t \in Tables : Insert(t) \/ purgeWorkspaceRetention(t)
    \/ deleteWebhook \/ deleteUserAccount
    \/ requestWorkspaceDeletion \/ purgeDeletedWorkspace

Spec == Init /\ [][Next]_vars

(* The retention worker calls the purge again until it is done.            *)
FairSpec == Spec /\ WF_vars(purgeDeletedWorkspace)

-----------------------------------------------------------------------------
(* Types; a reference that was not cleared refers to a row.                *)
TypeOK ==
    /\ rows \subseteq Tables /\ late \subseteq rows /\ cleared \subseteq rows \X Tables
    /\ role \in {"owner", "member"} /\ place \in 0 .. Gone
    /\ inserts \in 0 .. MaxInserts /\ deletes \in 0 .. MaxDeletes
    /\ \A t \in rows : \A r \in References[t] : r.to \in rows \/ <<t, r.to>> \in cleared

(* No statement of a purge is refused by a foreign key, whatever is still  *)
(* there or came back ("so deleting a whole workspace cascades cleanly",   *)
(* schema.ts).                                                             *)
PurgeIsNeverRefused == place \in 1 .. Last => ~Refused(Victims)

(* Once the workspace is gone, only records of the platform and of people  *)
(* are left, and none that refers to it.                                   *)
NothingIsLeft == place = Gone => rows \subseteq PlatformTables

(* A batch removes rows of its own table: what goes with them was purged   *)
(* before, or was inserted since ("bounded per statement", purge.ts).      *)
BatchesAreBounded == place \in 1 .. Last - 1 => Doomed(Victims) \ Victims \subseteq late

(* Only the deletion of the account removes what belongs to the person: a  *)
(* deleted workspace is cleared from its sessions.                         *)
PeopleOutliveWorkspaces ==
    LET person == {"authUsers", "authSessions", "authAccounts", "authPasskeys"}
    IN  "authUsers" \in rows' => person \cap rows \subseteq rows'

(* Invitations stay when the account that sent them is deleted.            *)
InvitationsOutliveInviters ==
    place' = 0 /\ "authInvitations" \in rows => "authInvitations" \in rows'

(* While a workspace lives, nothing removes what it is billed on ("no      *)
(* ledger deletion", purge-retention.ts).                                  *)
LedgerIsKept ==
    place' = 0 => rows \cap {"usageLedger", "stripeUsageReports", "stripeUsageReportJobs"} \subseteq rows'

(* Where a deletion that was accepted begins, and where it ends.           *)
Purging == place = 1
Purged  == place = Gone
=============================================================================
