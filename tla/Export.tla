------------------------------- MODULE Export -------------------------------
(***************************************************************************)
(* The export of a workspace (workspace-data/export.ts): sections one      *)
(* after the other, each read by statements of its own while the           *)
(* workspace goes on writing and retention goes on deleting.  Small        *)
(* tables are read at once; histories page by page, each page beginning    *)
(* after the creation time and id of the last row of the previous one.     *)
(***************************************************************************)
EXTENDS Integers, Sequences, FiniteSetsExt, SequencesExt

CONSTANTS
    Ids,        \* identifiers: random, so their order says nothing
    PageSize,   \* rows of a page
    NewestOnly, \* rows of the attachments section
    MaxTime     \* bound: the clock, in microseconds

ExportAssumption ==
    /\ Ids \subseteq Nat /\ IsFiniteSet(Ids)
    /\ {PageSize, NewestOnly, MaxTime} \subseteq Nat \ {0}

(* What the sections are read with, in their order.                        *)
Sections == <<"at once", "paged", "newest", "paged">>

VARIABLES
    created, \* creation time of each row of the section's table, 0 if none
    now,     \* the clock
    section, \* the section being read, 0 before and Len(Sections)+1 after
    cursor,  \* the last row exported
    out,     \* the rows of the section, as exported
    whole,   \* rows that were there when the section began, and still are
    refused  \* the caller is not the owner

vars == <<created, now, section, cursor, out, whole, refused>>

-----------------------------------------------------------------------------
None  == [at |-> 0, id |-> 0]
Row(i) == [at |-> created[i], id |-> i]
Rows  == {i \in Ids : created[i] # 0}
Kind  == Sections[section]
Reading == section \in DOMAIN Sections

(* Row comparison of the pair (created_at, id).                            *)
Before(a, b) == a.at < b.at \/ (a.at = b.at /\ a.id < b.id)

(* A Date has milliseconds only: two microseconds here.                    *)
cursorTextBug(r) == [r EXCEPT !.at = (@ \div 2) * 2]
cursorText(r)    == r

after(i)    == Before(cursor, Row(i))

(* The rows of S, from the oldest to the newest.                           *)
Sorted(S)     == {s \in [1..Cardinality(S) -> S] :
                      \A i, j \in DOMAIN s : i < j => Before(Row(s[i]), Row(s[j]))}
InOrder(S)    == CHOOSE s \in Sorted(S) : TRUE
FirstOf(n, s) == SubSeq(s, 1, IF n < Len(s) THEN n ELSE Len(s))

-----------------------------------------------------------------------------
Init ==
    /\ created \in [Ids -> 0..1] /\ now = 1
    /\ section = 0 /\ cursor = None /\ out = <<>> /\ whole = {} /\ refused = FALSE

(* The owner only, and never without its trace in the audit.               *)
Authorize ==
    /\ section = 0 /\ ~refused
    /\ \/ section' = 1 /\ whole' = Rows /\ UNCHANGED refused
       \/ refused' = TRUE /\ UNCHANGED <<section, whole>>
    /\ UNCHANGED <<created, now, cursor, out>>

(* Every section is of another table: what it holds is not known before.   *)
NextSection ==
    /\ section' = section + 1 /\ cursor' = None /\ out' = <<>>
    /\ created' \in [Ids -> 0..now]
    /\ whole' = {i \in Ids : created'[i] # 0}

ReadAtOnce ==
    /\ Reading /\ Kind = "at once" /\ out = <<>>
    /\ out' = InOrder(Rows)
    /\ UNCHANGED <<created, now, section, cursor, whole, refused>>

ReadNewest ==
    /\ Reading /\ Kind = "newest" /\ out = <<>>
    /\ out' = FirstOf(NewestOnly, Reverse(InOrder(Rows)))
    /\ UNCHANGED <<created, now, section, cursor, whole, refused>>

(* A page that is not full is the last one.                                *)
ReadPage ==
    /\ Reading /\ Kind = "paged" /\ cursor.id # -1
    /\ LET page == FirstOf(PageSize, InOrder({i \in Rows : after(i)})) IN
       /\ out' = out \o page
       /\ cursor' = IF Len(page) < PageSize THEN [at |-> 0, id |-> -1]
                    ELSE cursorText(Row(Last(page)))
    /\ UNCHANGED <<created, now, section, whole, refused>>

Complete == Reading /\ (cursor.id = -1 \/ (Kind # "paged" /\ (out # <<>> \/ Rows = {})))

EndSection == Complete /\ NextSection /\ UNCHANGED <<now, refused>>

Tick == now < MaxTime /\ now' = now + 1 /\ UNCHANGED <<created, section, cursor, out, whole, refused>>

(* Meanwhile, rows are inserted, with the time of their transaction's      *)
(* beginning, and deleted.                                                 *)
Insert(i) ==
    /\ created[i] = 0 /\ i \notin Range(out)
    /\ \E t \in {now - 1, now} \ {0} : created' = [created EXCEPT ![i] = t]
    /\ UNCHANGED <<now, section, cursor, out, whole, refused>>

Delete(i) ==
    /\ created[i] # 0
    /\ created' = [created EXCEPT ![i] = 0]
    /\ whole' = whole \ {i}
    /\ UNCHANGED <<now, section, cursor, out, refused>>

Next ==
    \/ Authorize \/ ReadAtOnce \/ ReadNewest \/ ReadPage \/ EndSection \/ Tick
    \/ \E i \in Ids : Insert(i) \/ Delete(i)

Spec == Init /\ [][Next]_vars

-----------------------------------------------------------------------------
TypeOK ==
    /\ created \in [Ids -> 0..MaxTime] /\ now \in 1..MaxTime
    /\ section \in 0..Len(Sections) + 1
    /\ cursor \in [at : 0..MaxTime, id : Ids \cup {0, -1}]
    /\ out \in Seq(Ids) /\ whole \subseteq Ids /\ refused \in BOOLEAN

(* No row is exported twice, and a row that was there from the beginning   *)
(* of its section to the end is exported, unless the section is cut to its *)
(* newest rows; rows inserted and deleted meanwhile, of the same           *)
(* microsecond or not, change nothing.                                     *)
ExportIsExact ==
    /\ IsInjective(out)
    /\ (Complete /\ Kind # "newest") => whole \subseteq Range(out)
=============================================================================
