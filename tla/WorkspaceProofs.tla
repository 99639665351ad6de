--------------------------- MODULE WorkspaceProofs --------------------------
(***************************************************************************)
(* Theorems about the parts that a workspace is made of: its checkout and  *)
(* the prices it pays, who may enter it, its members, its domains, the     *)
(* applications that precede it, its webhook endpoints, its deletion and   *)
(* what the deletion erases, and its export.                               *)
(*                                                                         *)
(* The parts are instances of their modules, laid out as in MessageProofs. *)
(***************************************************************************)
EXTENDS Integers, Sequences, FiniteSets, FiniteSetTheorems, SequenceTheorems, TLAPS

CONSTANTS
    Clicks, Lifetime, MinAhead, MaxAttempts, MaxTick, MaxFaults, Prices,
    Price, Countries, France, MaxChanges, Workspaces, People, Admin,
    Requests, Owned, MaxOrgs, MemPeople, Owner, Couriers, Seats, MaxSends,
    Names, Under, Forms, Free, Addresses, Unhashed, Reviewers, AplForms,
    Window, PerIp, Global, MaxTime, Actions, Interval, MaxLog, Messages,
    Keys, Users, Purgers, Pilot, LateEvents, Checkouts, MaxEvents, Tables,
    PlatformTables, References, CascadesTo, OfWorkspace, MaxInserts,
    MaxDeletes, Ids, PageSize, NewestOnly, ExpMaxTime

VARIABLES
    attempts, sessions, events, local, click, now, faults, env, archived,
    registrations, attempt, subscription, catLocal, changed, changes, org,
    deleted, orgs, made, members, active, request, since, run, courier,
    invitation, live, accounts, bound, hook, approved, revived, sends,
    memFaults, domApproved, owner, form, lock, aplForm, reviewed, aplLock,
    clock, endpoint, endLock, action, known, log, workspace, gate, keys,
    wsdOwner, page, wsdRequest, message, worker, handed, job, wsdLocal,
    stripe, session, wsdEvents, purger, wsdFaults, rows, cleared, role,
    place, late, inserts, deletes, created, expNow, section, cursor, out,
    whole, refused

Chk == INSTANCE Checkout
Cat == INSTANCE StripeCatalog WITH local <- catLocal
Acs == INSTANCE Access
Mem == INSTANCE Membership WITH People <- MemPeople, faults <- memFaults
Dom == INSTANCE Domains WITH approved <- domApproved
Apl == INSTANCE Applications WITH
    Forms <- AplForms, form <- aplForm, lock <- aplLock
End == INSTANCE Endpoints WITH lock <- endLock
Wsd == INSTANCE WorkspaceDeletion WITH
    owner <- wsdOwner, request <- wsdRequest, local <- wsdLocal,
    events <- wsdEvents, faults <- wsdFaults
Ers == INSTANCE Erasure
Exp == INSTANCE Export WITH MaxTime <- ExpMaxTime, now <- expNow

-----------------------------------------------------------------------------
\* Finite sets are the same inside and outside the instance.
LEMMA CheckoutSets ==
    \A S : (Chk!IsFiniteSet(S) <=> IsFiniteSet(S)) /\ Chk!Cardinality(S) = Cardinality(S)
BY DEF Chk!IsFiniteSet, IsFiniteSet, Chk!Cardinality, Cardinality

(* What a call holds is what it has read, and stays so: a session that was *)
(* closed is closed for ever, and an attempt keeps its session.            *)
ClickHolds(c) ==
    /\ click[c].pc \in {"retrieve", "completed", "expired", "create", "store"} => click[c].attempt \in DOMAIN attempts
    /\ click[c].pc \in {"retrieve", "completed", "expired"} =>
           click[c].session # Chk!None /\ attempts[click[c].attempt].session = click[c].session
    /\ click[c].pc = "completed" => sessions[click[c].session].status = "complete"
    /\ click[c].pc = "expired" => sessions[click[c].session].status = "expired"
    /\ click[c].pc = "store" => /\ click[c].session \in DOMAIN sessions
                                /\ sessions[click[c].session].key = click[c].attempt

(* A key opens one session, and an open session's attempt is pending.      *)
SessionsHold ==
    /\ \A s \in DOMAIN sessions : sessions[s].key \in DOMAIN attempts
    /\ \A s, t \in DOMAIN sessions : sessions[s].key = sessions[t].key => s = t
    /\ \A s \in DOMAIN sessions : Chk!Open(s) => attempts[sessions[s].key].status = "pending"
    /\ \A s \in events : ~Chk!Open(s)

AttemptsHold ==
    /\ \A a, b \in DOMAIN attempts : attempts[a].status = "pending" /\ attempts[b].status = "pending" => a = b
    /\ \A a \in DOMAIN attempts : attempts[a].session # Chk!None =>
           attempts[a].session \in DOMAIN sessions /\ sessions[attempts[a].session].key = a
    /\ \A a \in DOMAIN attempts : attempts[a].status # "pending" =>
           /\ attempts[a].session # Chk!None /\ ~Chk!Open(attempts[a].session)
           /\ attempts[a].status = "completed" <=> sessions[attempts[a].session].status = "complete"

CheckoutInvariant == SessionsHold /\ AttemptsHold /\ \A c \in Clicks : ClickHolds(c)

-----------------------------------------------------------------------------
LEMMA Domains ==
    ASSUME Chk!TypeOK
    PROVE  /\ DOMAIN attempts = 1..Len(attempts) /\ Len(attempts) \in Nat
           /\ DOMAIN sessions = 1..Len(sessions) /\ Len(sessions) \in Nat
           /\ \A a \in DOMAIN attempts : attempts[a] \in Chk!Attempt
           /\ \A s \in DOMAIN sessions : sessions[s] \in Chk!Session
BY LenProperties, ElementOfSeq DEF Chk!TypeOK

(* An attempt is updated, in its status or in its session.                 *)
LEMMA AttemptUpdated ==
    ASSUME Chk!TypeOK, NEW a \in DOMAIN attempts, NEW new \in Chk!Attempt, NEW after,
           after = [attempts EXCEPT ![a] = new]
    PROVE  /\ after \in Seq(Chk!Attempt) /\ Len(after) = Len(attempts) /\ DOMAIN after = DOMAIN attempts
           /\ \A b \in DOMAIN attempts : after[b] = IF b = a THEN new ELSE attempts[b]
<1>1. a \in 1..Len(attempts)
    BY Domains
<1>2. /\ after \in Seq(Chk!Attempt) /\ Len(after) = Len(attempts)
      /\ \A b \in 1..Len(attempts) : after[b] = IF b = a THEN new ELSE attempts[b]
    BY <1>1, ExceptSeq DEF Chk!TypeOK
<1> QED
    BY <1>2, Domains, LenProperties

LEMMA AttemptStatus ==
    ASSUME Chk!TypeOK, NEW a \in DOMAIN attempts, NEW v \in {"pending", "completed", "expired"},
           attempts' = [attempts EXCEPT ![a].status = v]
    PROVE  /\ attempts' \in Seq(Chk!Attempt) /\ Len(attempts') = Len(attempts) /\ DOMAIN attempts' = DOMAIN attempts
           /\ \A b \in DOMAIN attempts : /\ attempts'[b].session = attempts[b].session
                                         /\ attempts'[b].status = IF b = a THEN v ELSE attempts[b].status
<1>1. [attempts[a] EXCEPT !.status = v] \in Chk!Attempt
    BY Domains DEF Chk!Attempt
<1>2. attempts' = [attempts EXCEPT ![a] = [attempts[a] EXCEPT !.status = v]]
    OBVIOUS
<1>3. /\ attempts' \in Seq(Chk!Attempt) /\ Len(attempts') = Len(attempts) /\ DOMAIN attempts' = DOMAIN attempts
      /\ \A b \in DOMAIN attempts : attempts'[b] = IF b = a THEN [attempts[a] EXCEPT !.status = v] ELSE attempts[b]
    BY <1>1, <1>2, AttemptUpdated
<1> QED
    BY <1>3, Domains DEF Chk!Attempt

LEMMA AttemptSession ==
    ASSUME Chk!TypeOK, NEW a \in DOMAIN attempts, NEW s \in Nat,
           attempts' = [attempts EXCEPT ![a].session = s]
    PROVE  /\ attempts' \in Seq(Chk!Attempt) /\ Len(attempts') = Len(attempts) /\ DOMAIN attempts' = DOMAIN attempts
           /\ \A b \in DOMAIN attempts : /\ attempts'[b].status = attempts[b].status
                                         /\ attempts'[b].session = IF b = a THEN s ELSE attempts[b].session
<1>1. [attempts[a] EXCEPT !.session = s] \in Chk!Attempt
    BY Domains DEF Chk!Attempt
<1>2. attempts' = [attempts EXCEPT ![a] = [attempts[a] EXCEPT !.session = s]]
    OBVIOUS
<1>3. /\ attempts' \in Seq(Chk!Attempt) /\ Len(attempts') = Len(attempts) /\ DOMAIN attempts' = DOMAIN attempts
      /\ \A b \in DOMAIN attempts : attempts'[b] = IF b = a THEN [attempts[a] EXCEPT !.session = s] ELSE attempts[b]
    BY <1>1, <1>2, AttemptUpdated
<1> QED
    BY <1>3, Domains DEF Chk!Attempt

LEMMA AttemptAppended ==
    ASSUME Chk!TypeOK, NEW new \in Chk!Attempt, attempts' = Append(attempts, new)
    PROVE  /\ attempts' \in Seq(Chk!Attempt) /\ Len(attempts') = Len(attempts) + 1
           /\ DOMAIN attempts' = DOMAIN attempts \cup {Len(attempts) + 1}
           /\ \A b \in DOMAIN attempts : attempts'[b] = attempts[b]
           /\ attempts'[Len(attempts) + 1] = new
<1>1. attempts \in Seq(Chk!Attempt)
    BY DEF Chk!TypeOK
<1>2. /\ attempts' \in Seq(Chk!Attempt) /\ Len(attempts') = Len(attempts) + 1
      /\ \A b \in 1..Len(attempts) : attempts'[b] = attempts[b]
      /\ attempts'[Len(attempts) + 1] = new
    BY <1>1, AppendProperties
<1>3. DOMAIN attempts' = 1..Len(attempts')
    BY <1>2, LenProperties
<1> QED
    BY <1>2, <1>3, Domains

LEMMA SessionAppended ==
    ASSUME Chk!TypeOK, NEW new \in Chk!Session, sessions' = Append(sessions, new)
    PROVE  /\ sessions' \in Seq(Chk!Session) /\ Len(sessions') = Len(sessions) + 1
           /\ DOMAIN sessions' = DOMAIN sessions \cup {Len(sessions) + 1}
           /\ \A s \in DOMAIN sessions : sessions'[s] = sessions[s]
           /\ sessions'[Len(sessions) + 1] = new
<1>1. sessions \in Seq(Chk!Session)
    BY DEF Chk!TypeOK
<1>2. /\ sessions' \in Seq(Chk!Session) /\ Len(sessions') = Len(sessions) + 1
      /\ \A s \in 1..Len(sessions) : sessions'[s] = sessions[s]
      /\ sessions'[Len(sessions) + 1] = new
    BY <1>1, AppendProperties
<1>3. DOMAIN sessions' = 1..Len(sessions')
    BY <1>2, LenProperties
<1> QED
    BY <1>2, <1>3, Domains

LEMMA SessionStatus ==
    ASSUME Chk!TypeOK, NEW s \in DOMAIN sessions, NEW v \in {"open", "complete", "expired"},
           sessions' = [sessions EXCEPT ![s].status = v]
    PROVE  /\ sessions' \in Seq(Chk!Session) /\ Len(sessions') = Len(sessions) /\ DOMAIN sessions' = DOMAIN sessions
           /\ \A t \in DOMAIN sessions : /\ sessions'[t].key = sessions[t].key
                                         /\ sessions'[t].status = IF t = s THEN v ELSE sessions[t].status
<1>1. [sessions[s] EXCEPT !.status = v] \in Chk!Session
    BY Domains DEF Chk!Session
<1>2. sessions' = [sessions EXCEPT ![s] = [sessions[s] EXCEPT !.status = v]]
    OBVIOUS
<1>3. sessions \in Seq(Chk!Session) /\ s \in 1..Len(sessions)
    BY Domains DEF Chk!TypeOK
<1>4. /\ sessions' \in Seq(Chk!Session) /\ Len(sessions') = Len(sessions)
      /\ \A t \in 1..Len(sessions) : sessions'[t] = IF t = s THEN [sessions[s] EXCEPT !.status = v] ELSE sessions[t]
    BY <1>1, <1>2, <1>3, ExceptSeq
<1>5. DOMAIN sessions' = 1..Len(sessions')
    BY <1>4, LenProperties
<1> QED
    BY <1>4, <1>5, Domains DEF Chk!Session

-----------------------------------------------------------------------------
(* What a step makes of the attempts and the sessions.                     *)
Extends ==
    /\ DOMAIN attempts \subseteq DOMAIN attempts' /\ DOMAIN sessions \subseteq DOMAIN sessions'
    /\ \A a \in DOMAIN attempts : attempts[a].session # Chk!None => attempts'[a].session = attempts[a].session
    /\ \A s \in DOMAIN sessions : /\ sessions'[s].key = sessions[s].key
                                  /\ ~Chk!Open(s) => sessions'[s].status = sessions[s].status

(* A call that a step leaves alone knows what it knew.                     *)
LEMMA ClickKept ==
    ASSUME Chk!TypeOK, CheckoutInvariant, Extends, NEW c \in Clicks, UNCHANGED click[c]
    PROVE  ClickHolds(c)'
<1>1. ClickHolds(c) /\ AttemptsHold
    BY DEF CheckoutInvariant
<1> DEFINE a == click[c].attempt
           s == click[c].session
<1>2. CASE click[c].pc \in {"retrieve", "completed", "expired"}
  <2>1. a \in DOMAIN attempts /\ s # Chk!None /\ attempts[a].session = s
    BY <1>1, <1>2 DEF ClickHolds
  <2>2. a \in DOMAIN attempts' /\ attempts'[a].session = s /\ s \in DOMAIN sessions
    BY <1>1, <2>1 DEF Extends, AttemptsHold
  <2>3. sessions[s].status \in {"complete", "expired"} => sessions'[s].status = sessions[s].status
    BY <2>2 DEF Extends, Chk!Open
  <2> QED
    BY <1>1, <1>2, <2>1, <2>2, <2>3 DEF ClickHolds
<1>3. CASE click[c].pc \notin {"retrieve", "completed", "expired"}
    BY <1>1, <1>3 DEF ClickHolds, Extends
<1> QED
    BY <1>2, <1>3

LEMMA StepType ==
    ASSUME Chk!TypeOK, NEW c \in Clicks, NEW pc \in Chk!Pcs, NEW a, NEW s, Chk!Step(c, pc, a, s),
           Len(attempts') >= Len(attempts), Len(sessions') >= Len(sessions),
           Len(attempts') \in Nat, Len(sessions') \in Nat,
           a \in 0..Len(attempts'), s \in 0..Len(sessions')
    PROVE  click' \in [Clicks -> [pc : Chk!Pcs, attempt : 0..Len(attempts'), session : 0..Len(sessions')]]
<1>1. \A x \in Clicks : click[x] \in [pc : Chk!Pcs, attempt : 0..Len(attempts'), session : 0..Len(sessions')]
    BY Domains DEF Chk!TypeOK
<1>2. [pc |-> pc, attempt |-> a, session |-> s] \in [pc : Chk!Pcs, attempt : 0..Len(attempts'), session : 0..Len(sessions')]
    OBVIOUS
<1> QED
    BY <1>1, <1>2 DEF Chk!TypeOK, Chk!Step

LEMMA ClickShape ==
    ASSUME Chk!TypeOK, NEW c \in Clicks
    PROVE  /\ click[c].attempt \in Nat /\ click[c].session \in Nat
           /\ click[c].attempt \in 0..Len(attempts) /\ click[c].session \in 0..Len(sessions)
           /\ click[c].pc \in Chk!Pcs
BY Domains DEF Chk!TypeOK

-----------------------------------------------------------------------------
LEMMA Bounds ==
    ASSUME Chk!CheckoutAssumption
    PROVE  /\ Lifetime \in Nat /\ MinAhead \in Nat /\ MaxAttempts \in Nat
           /\ MaxTick \in Nat /\ MaxFaults \in Nat
BY DEF Chk!CheckoutAssumption

LEMMA CheckoutInit ==
    ASSUME Chk!CheckoutAssumption, Chk!Init
    PROVE  Chk!TypeOK /\ CheckoutInvariant
<1>1. attempts \in Seq(Chk!Attempt) /\ sessions \in Seq(Chk!Session) /\ Len(attempts) = 0 /\ Len(sessions) = 0
    BY EmptySeq DEF Chk!Init
<1>2. DOMAIN attempts = {} /\ DOMAIN sessions = {}
    BY <1>1, LenProperties
<1>3. click \in [Clicks -> [pc : Chk!Pcs, attempt : 0..Len(attempts), session : 0..Len(sessions)]]
    BY <1>1 DEF Chk!Init, Chk!Idle, Chk!None, Chk!Pcs, Chk!Outcomes
<1>4. Chk!TypeOK
  <2>1. now \in 0..MaxTick /\ faults \in 0..MaxFaults
    BY Bounds DEF Chk!Init
  <2>2. events \subseteq DOMAIN sessions /\ local \in BOOLEAN
    BY DEF Chk!Init
  <2> QED
    BY <1>1, <1>3, <2>1, <2>2 DEF Chk!TypeOK
<1>5. \A c \in Clicks : click[c].pc = "idle"
    BY DEF Chk!Init, Chk!Idle
<1> QED
    BY <1>2, <1>4, <1>5 DEF CheckoutInvariant, SessionsHold, AttemptsHold, ClickHolds, Chk!Init

(* A step that leaves the attempts and the sessions alone.                 *)
LEMMA OnlyTheClick ==
    ASSUME Chk!TypeOK, CheckoutInvariant, UNCHANGED <<attempts, sessions>>, events' \subseteq events,
           \A c \in Clicks : UNCHANGED click[c] \/ ClickHolds(c)'
    PROVE  CheckoutInvariant'
<1>1. Extends
    BY DEF Extends, Chk!Open
<1>2. \A c \in Clicks : ClickHolds(c)'
    BY <1>1, ClickKept
<1> QED
    BY <1>2 DEF CheckoutInvariant, SessionsHold, AttemptsHold, Chk!Open

(* A call goes on: it is the only one that knows more than before.         *)
LEMMA CallMoves ==
    ASSUME Chk!CheckoutAssumption, Chk!TypeOK, CheckoutInvariant, NEW c \in Clicks,
           NEW pc \in Chk!Pcs, NEW a \in 0..Len(attempts), NEW s \in 0..Len(sessions), Chk!Step(c, pc, a, s),
           UNCHANGED <<attempts, sessions, events, local, now>>, faults' \in 0..MaxFaults,
           /\ pc \in {"retrieve", "completed", "expired", "create", "store"} => a \in DOMAIN attempts
           /\ pc \in {"retrieve", "completed", "expired"} => s # Chk!None /\ attempts[a].session = s
           /\ pc = "completed" => sessions[s].status = "complete"
           /\ pc = "expired" => sessions[s].status = "expired"
           /\ pc = "store" => s \in DOMAIN sessions /\ sessions[s].key = a
    PROVE  Chk!TypeOK' /\ CheckoutInvariant'
<1>1. click' \in [Clicks -> [pc : Chk!Pcs, attempt : 0..Len(attempts), session : 0..Len(sessions)]]
    BY StepType, Domains
<1>2. /\ click'[c] = [pc |-> pc, attempt |-> a, session |-> s]
      /\ \A x \in Clicks : x # c => click'[x] = click[x]
    BY DEF Chk!Step, Chk!TypeOK
<1>3. ClickHolds(c)'
    BY <1>2 DEF ClickHolds
<1>4. \A x \in Clicks : UNCHANGED click[x] \/ ClickHolds(x)'
    BY <1>2, <1>3
<1> QED
    BY <1>1, <1>4, OnlyTheClick DEF Chk!TypeOK

LEMMA ReadsHold ==
    ASSUME Chk!CheckoutAssumption, Chk!TypeOK, CheckoutInvariant, NEW c \in Clicks,
           Chk!Check(c) \/ Chk!ReadAttempt(c) \/ Chk!Retrieve(c) \/ Chk!Select(c) \/ Chk!Killed(c) \/ Chk!Again(c)
    PROVE  Chk!TypeOK' /\ CheckoutInvariant'
<1> USE Bounds
<1>0. 0 \in 0..Len(attempts) /\ 0 \in 0..Len(sessions) /\ faults \in 0..MaxFaults
    BY Domains DEF Chk!TypeOK
<1>1. CASE Chk!Check(c)
    BY <1>0, <1>1, CallMoves DEF Chk!Check, Chk!End, Chk!None, Chk!Pcs, Chk!Outcomes
<1>2. CASE Chk!ReadAttempt(c)
  <2>1. UNCHANGED <<attempts, sessions, events, local, now, faults>>
    BY <1>2 DEF Chk!ReadAttempt
  <2>2. CASE Chk!Step(c, "reserve", Chk!None, Chk!None)
    BY <1>0, <2>1, <2>2, CallMoves DEF Chk!None, Chk!Pcs
  <2>3. ASSUME NEW a \in Chk!Pending, attempts[a].session # Chk!None, Chk!Step(c, "retrieve", a, attempts[a].session)
        PROVE  Chk!TypeOK' /\ CheckoutInvariant'
    <3>1. a \in DOMAIN attempts /\ a \in 0..Len(attempts)
        BY Domains DEF Chk!Pending
    <3>2. attempts[a].session \in 0..Len(sessions)
        BY <2>3, <3>1, Domains DEF CheckoutInvariant, AttemptsHold
    <3> QED
        BY <1>0, <2>1, <2>3, <3>1, <3>2, CallMoves DEF Chk!Pcs
  <2>4. ASSUME NEW a \in Chk!Pending, Chk!Step(c, "create", a, Chk!None)
        PROVE  Chk!TypeOK' /\ CheckoutInvariant'
    <3>1. a \in DOMAIN attempts /\ a \in 0..Len(attempts)
        BY Domains DEF Chk!Pending
    <3> QED
        BY <1>0, <2>1, <2>4, <3>1, CallMoves DEF Chk!Pcs, Chk!None
  <2> QED
    BY <1>2, <2>2, <2>3, <2>4 DEF Chk!ReadAttempt
<1>3. CASE Chk!Retrieve(c)
  <2> DEFINE a == click[c].attempt
             s == click[c].session
  <2>1. UNCHANGED <<attempts, sessions, events, local, now, faults>>
    BY <1>3 DEF Chk!Retrieve
  <2>2. CASE Chk!End(c, "resumed")
    BY <1>0, <2>1, <2>2, CallMoves DEF Chk!End, Chk!None, Chk!Pcs, Chk!Outcomes
  <2>3. CASE ~Chk!Open(s) /\ Chk!Step(c, Chk!ClosedAs(s), a, s)
    <3>1. a \in DOMAIN attempts /\ s # Chk!None /\ attempts[a].session = s
        BY <1>3 DEF Chk!Retrieve, Chk!At, CheckoutInvariant, ClickHolds
    <3>2. s \in DOMAIN sessions
        BY <3>1 DEF CheckoutInvariant, AttemptsHold
    <3>3. a \in 0..Len(attempts) /\ s \in 0..Len(sessions)
        BY <3>1, <3>2, Domains
    <3>4. sessions[s].status \in {"complete", "expired"}
        BY <2>3, <3>2, Domains DEF Chk!Open, Chk!Session
    <3>5. CASE sessions[s].status = "complete"
        BY <1>0, <2>1, <2>3, <3>1, <3>3, <3>5, CallMoves DEF Chk!ClosedAs, Chk!Pcs
    <3>6. CASE sessions[s].status = "expired"
        BY <1>0, <2>1, <2>3, <3>1, <3>3, <3>6, CallMoves DEF Chk!ClosedAs, Chk!Pcs
    <3> QED
        BY <3>4, <3>5, <3>6
  <2> QED
    BY <1>3, <2>2, <2>3 DEF Chk!Retrieve
<1>4. CASE Chk!Select(c)
  <2>1. UNCHANGED <<attempts, sessions, events, local, now, faults>>
    BY <1>4 DEF Chk!Select
  <2>2. CASE Chk!End(c, "unavailable")
    BY <1>0, <2>1, <2>2, CallMoves DEF Chk!End, Chk!None, Chk!Pcs, Chk!Outcomes
  <2>3. ASSUME NEW a \in Chk!Pending, Chk!Step(c, "create", a, Chk!None)
        PROVE  Chk!TypeOK' /\ CheckoutInvariant'
    <3>1. a \in DOMAIN attempts /\ a \in 0..Len(attempts)
        BY Domains DEF Chk!Pending
    <3> QED
        BY <1>0, <2>1, <2>3, <3>1, CallMoves DEF Chk!Pcs, Chk!None
  <2> QED
    BY <1>4, <2>2, <2>3 DEF Chk!Select
<1>5. CASE Chk!Killed(c)
    BY <1>0, <1>5, CallMoves DEF Chk!Killed, Chk!End, Chk!None, Chk!Pcs, Chk!Outcomes
<1>6. CASE Chk!Again(c)
  <2>1. Chk!Step(c, "idle", Chk!None, Chk!None) /\ UNCHANGED <<attempts, sessions, events, local, now, faults>>
    BY <1>6 DEF Chk!Again, Chk!Step, Chk!Idle
  <2> QED
    BY <1>0, <2>1, CallMoves DEF Chk!None, Chk!Pcs, Chk!Outcomes
<1> QED
    BY <1>1, <1>2, <1>3, <1>4, <1>5, <1>6

(* A step that changes the attempts and the sessions keeps what the other  *)
(* calls know.                                                             *)
LEMMA TablesMove ==
    ASSUME Chk!TypeOK, CheckoutInvariant, Extends, SessionsHold', AttemptsHold',
           \A c \in Clicks : UNCHANGED click[c] \/ ClickHolds(c)'
    PROVE  CheckoutInvariant'
BY ClickKept DEF CheckoutInvariant

LEMMA CloseAttemptHolds ==
    ASSUME Chk!CheckoutAssumption, Chk!TypeOK, CheckoutInvariant, NEW c \in Clicks, Chk!CloseAttempt(c)
    PROVE  Chk!TypeOK' /\ CheckoutInvariant'
<1> DEFINE a == click[c].attempt
           s == click[c].session
           v == click[c].pc
<1>1. UNCHANGED <<sessions, events, local, now, faults>>
    BY DEF Chk!CloseAttempt
<1>2. /\ a \in DOMAIN attempts /\ s # Chk!None /\ attempts[a].session = s /\ v \in {"completed", "expired"}
      /\ v = "completed" => sessions[s].status = "complete"
      /\ v = "expired" => sessions[s].status = "expired"
    BY DEF Chk!CloseAttempt, CheckoutInvariant, ClickHolds
<1>3. s \in DOMAIN sessions /\ sessions[s].key = a
    BY <1>2 DEF CheckoutInvariant, AttemptsHold
<1>4. /\ attempts' \in Seq(Chk!Attempt) /\ Len(attempts') = Len(attempts) /\ DOMAIN attempts' = DOMAIN attempts
      /\ \A b \in DOMAIN attempts : /\ attempts'[b].session = attempts[b].session
                                    /\ attempts'[b].status = IF b = a /\ Chk!StillPending(a) THEN v ELSE attempts[b].status
  <2>1. CASE Chk!StillPending(a)
    <3>1. attempts' = [attempts EXCEPT ![a].status = v]
        BY <2>1 DEF Chk!CloseAttempt
    <3> QED
        <4>1. /\ attempts' \in Seq(Chk!Attempt) /\ Len(attempts') = Len(attempts) /\ DOMAIN attempts' = DOMAIN attempts
              /\ \A b \in DOMAIN attempts : /\ attempts'[b].session = attempts[b].session
                                            /\ attempts'[b].status = IF b = a THEN v ELSE attempts[b].status
          <5>1. a \in DOMAIN attempts /\ v \in {"pending", "completed", "expired"}
            BY <1>2
          <5> HIDE DEF a, v
          <5> QED
            BY <3>1, <5>1, AttemptStatus
        <4> QED
            BY <2>1, <4>1
  <2>2. CASE ~Chk!StillPending(a)
    BY <2>2 DEF Chk!CloseAttempt, Chk!TypeOK
  <2> QED
    BY <2>1, <2>2
<1>5. \E pc \in {"success", "reserve"} : Chk!Step(c, pc, Chk!None, Chk!None)
    BY DEF Chk!CloseAttempt, Chk!End
<1>6. click' \in [Clicks -> [pc : Chk!Pcs, attempt : 0..Len(attempts'), session : 0..Len(sessions')]]
  <2>1. Len(attempts') \in Nat /\ Len(sessions') \in Nat /\ Chk!None \in 0..Len(attempts') /\ Chk!None \in 0..Len(sessions')
    BY <1>1, <1>4, Domains DEF Chk!None
  <2> QED
    BY <1>1, <1>4, <1>5, <2>1, StepType DEF Chk!Pcs, Chk!Outcomes
<1>7. \A x \in Clicks : UNCHANGED click[x] \/ ClickHolds(x)'
    BY <1>5 DEF Chk!Step, Chk!TypeOK, ClickHolds
<1>8. Extends
    BY <1>1, <1>4 DEF Extends
<1>9. AttemptsHold'
    BY <1>1, <1>2, <1>3, <1>4 DEF CheckoutInvariant, AttemptsHold, Chk!Open, Chk!StillPending
<1>10. SessionsHold'
  <2>1. \A x \in DOMAIN sessions : Chk!Open(x) => x # s
    BY <1>2 DEF Chk!Open
  <2> QED
    BY <1>1, <1>2, <1>3, <1>4, <2>1 DEF CheckoutInvariant, SessionsHold, Chk!Open
<1>11. Chk!TypeOK'
    BY <1>1, <1>4, <1>6 DEF Chk!TypeOK
<1> QED
    BY <1>7, <1>8, <1>9, <1>10, <1>11, TablesMove

LEMMA ReserveHolds ==
    ASSUME Chk!CheckoutAssumption, Chk!TypeOK, CheckoutInvariant, NEW c \in Clicks, Chk!Reserve(c)
    PROVE  Chk!TypeOK' /\ CheckoutInvariant'
<1> DEFINE new == [status |-> "pending", session |-> Chk!None, expires |-> now + Lifetime]
           n   == Len(attempts) + 1
<1>0. new \in Chk!Attempt
    BY Bounds DEF Chk!Attempt, Chk!None, Chk!TypeOK
<1>1. UNCHANGED <<sessions, events, local, now, faults>>
    BY DEF Chk!Reserve
<1>2. CASE ~Chk!Reservable
  <2>1. Chk!Step(c, "select", Chk!None, Chk!None) /\ UNCHANGED attempts /\ faults' \in 0..MaxFaults
    BY <1>1, <1>2 DEF Chk!Reserve, Chk!TypeOK
  <2>2. Chk!None \in 0..Len(attempts) /\ Chk!None \in 0..Len(sessions)
    BY Domains DEF Chk!None
  <2> QED
    BY <1>1, <2>1, <2>2, CallMoves DEF Chk!Pcs
<1>3. CASE Chk!Reservable
  <2>1. /\ attempts' \in Seq(Chk!Attempt) /\ Len(attempts') = n
        /\ DOMAIN attempts' = DOMAIN attempts \cup {n}
        /\ \A b \in DOMAIN attempts : attempts'[b] = attempts[b]
        /\ attempts'[n] = new
    BY <1>0, <1>3, AttemptAppended DEF Chk!Reserve
  <2>2. /\ n \notin DOMAIN attempts /\ \A b \in DOMAIN attempts : attempts[b].status # "pending"
        /\ Len(attempts) \in Nat /\ Len(sessions) \in Nat
    BY <1>3, Domains DEF Chk!Reservable, Chk!Pending
  <2>3. Chk!Step(c, "select", Chk!None, Chk!None)
    BY DEF Chk!Reserve
  <2>4. click' \in [Clicks -> [pc : Chk!Pcs, attempt : 0..Len(attempts'), session : 0..Len(sessions')]]
    <3>1. Len(attempts') \in Nat /\ Len(sessions') \in Nat /\ Len(attempts') >= Len(attempts) /\ Len(sessions') >= Len(sessions)
        BY <1>1, <2>1, <2>2
    <3>2. Chk!None \in 0..Len(attempts') /\ Chk!None \in 0..Len(sessions')
        BY <3>1 DEF Chk!None
    <3> QED
        BY <2>3, <3>1, <3>2, StepType DEF Chk!Pcs
  <2>5. \A x \in Clicks : UNCHANGED click[x] \/ ClickHolds(x)'
    BY <2>3 DEF Chk!Step, Chk!TypeOK, ClickHolds
  <2>6. Extends
    BY <1>1, <2>1 DEF Extends
  <2>7. AttemptsHold'
    BY <1>1, <2>1, <2>2 DEF CheckoutInvariant, AttemptsHold, Chk!Open
  <2>8. SessionsHold'
    BY <1>1, <2>1, <2>2 DEF CheckoutInvariant, SessionsHold, Chk!Open
  <2>9. Chk!TypeOK'
    BY <1>1, <2>1, <2>4 DEF Chk!TypeOK
  <2> QED
    BY <2>5, <2>6, <2>7, <2>8, <2>9, TablesMove
<1> QED
    BY <1>2, <1>3

LEMMA CreateHolds ==
    ASSUME Chk!CheckoutAssumption, Chk!TypeOK, CheckoutInvariant, NEW c \in Clicks, Chk!Create(c)
    PROVE  Chk!TypeOK' /\ CheckoutInvariant'
<1> DEFINE a == click[c].attempt
           paired == {s \in DOMAIN sessions : sessions[s].key = Chk!Key(a)}
           n == Len(sessions) + 1
           new == [key |-> Chk!Key(a), status |-> "open", expires |-> attempts[a].expires]
<1>1. /\ UNCHANGED <<attempts, events, local, now, faults>> /\ a \in DOMAIN attempts /\ a \in 0..Len(attempts)
      /\ faults' \in 0..MaxFaults
    BY Domains DEF Chk!Create, Chk!At, CheckoutInvariant, ClickHolds, Chk!TypeOK
<1>2. CASE \E s \in paired : Chk!Step(c, "store", a, s) /\ UNCHANGED sessions
  <2>1. PICK s \in DOMAIN sessions : Chk!Step(c, "store", a, s) /\ UNCHANGED sessions /\ sessions[s].key = a
    BY <1>2 DEF Chk!Key
  <2>2. s \in 0..Len(sessions)
    BY <2>1, Domains
  <2> QED
    BY <1>1, <2>1, <2>2, CallMoves DEF Chk!Pcs
<1>3. CASE Chk!End(c, "unavailable") /\ UNCHANGED sessions
  <2>1. Chk!None \in 0..Len(attempts) /\ Chk!None \in 0..Len(sessions)
    BY Domains DEF Chk!None
  <2> QED
    BY <1>1, <1>3, <2>1, CallMoves DEF Chk!End, Chk!Pcs, Chk!Outcomes
<1>4. CASE paired = {} /\ sessions' = Append(sessions, new) /\ Chk!Step(c, "store", a, n)
  <2>1. new \in Chk!Session /\ a \in Nat
    BY <1>1, Domains DEF Chk!Key, Chk!Session, Chk!Attempt
  <2>2. /\ sessions' \in Seq(Chk!Session) /\ Len(sessions') = n
        /\ DOMAIN sessions' = DOMAIN sessions \cup {n}
        /\ \A s \in DOMAIN sessions : sessions'[s] = sessions[s]
        /\ sessions'[n].key = a /\ sessions'[n].status = "open"
    BY <1>4, <2>1, SessionAppended DEF Chk!Key
  <2>3. /\ n \notin DOMAIN sessions /\ \A s \in DOMAIN sessions : sessions[s].key # a
        /\ Len(attempts) \in Nat /\ Len(sessions) \in Nat
    BY <1>4, Domains DEF Chk!Key
  <2>4. attempts[a].status = "pending"
    BY <1>1, <2>3 DEF CheckoutInvariant, AttemptsHold
  <2>5. click' \in [Clicks -> [pc : Chk!Pcs, attempt : 0..Len(attempts'), session : 0..Len(sessions')]]
    <3>1. Len(attempts') \in Nat /\ Len(sessions') \in Nat /\ Len(attempts') >= Len(attempts) /\ Len(sessions') >= Len(sessions)
        BY <1>1, <2>2, <2>3
    <3>2. a \in 0..Len(attempts') /\ n \in 0..Len(sessions')
        BY <1>1, <2>2, <2>3
    <3> QED
        BY <1>4, <3>1, <3>2, StepType DEF Chk!Pcs
  <2>6. \A x \in Clicks : UNCHANGED click[x] \/ ClickHolds(x)'
    <3>1. click'[c] = [pc |-> "store", attempt |-> a, session |-> n]
        BY <1>4 DEF Chk!Step, Chk!TypeOK
    <3>2. ClickHolds(c)'
        BY <1>1, <2>2, <3>1 DEF ClickHolds
    <3> QED
        BY <1>4, <3>2 DEF Chk!Step, Chk!TypeOK
  <2>7. Extends
    BY <1>1, <2>2 DEF Extends
  <2>8. AttemptsHold'
    BY <1>1, <2>2 DEF CheckoutInvariant, AttemptsHold, Chk!Open
  <2>9. SessionsHold'
    <3>1. \A s \in events : s \in DOMAIN sessions
        BY DEF Chk!TypeOK
    <3> QED
        BY <1>1, <2>2, <2>3, <2>4, <3>1 DEF CheckoutInvariant, SessionsHold, Chk!Open
  <2>10. Chk!TypeOK'
    BY <1>1, <2>2, <2>5 DEF Chk!TypeOK
  <2> QED
    BY <2>6, <2>7, <2>8, <2>9, <2>10, TablesMove
<1> QED
    BY <1>2, <1>3, <1>4 DEF Chk!Create

LEMMA StoreHolds ==
    ASSUME Chk!CheckoutAssumption, Chk!TypeOK, CheckoutInvariant, NEW c \in Clicks, Chk!Store(c)
    PROVE  Chk!TypeOK' /\ CheckoutInvariant'
<1> DEFINE a == click[c].attempt
           s == click[c].session
<1>1. UNCHANGED <<sessions, events, local, now, faults>> /\ Chk!End(c, "opened")
    BY DEF Chk!Store
<1>2. a \in DOMAIN attempts /\ s \in DOMAIN sessions /\ sessions[s].key = a /\ s \in Nat
    BY ClickShape DEF Chk!Store, Chk!At, CheckoutInvariant, ClickHolds
<1>3. /\ attempts' \in Seq(Chk!Attempt) /\ Len(attempts') = Len(attempts) /\ DOMAIN attempts' = DOMAIN attempts
      /\ \A b \in DOMAIN attempts :
            /\ attempts'[b].status = attempts[b].status
            /\ attempts'[b].session = IF b = a /\ attempts[b].session = Chk!None THEN s ELSE attempts[b].session
  <2>1. CASE attempts[a].session = Chk!None
    <3>1. attempts' = [attempts EXCEPT ![a].session = s]
        BY <2>1 DEF Chk!Store
    <3> QED
        <4>1. /\ attempts' \in Seq(Chk!Attempt) /\ Len(attempts') = Len(attempts) /\ DOMAIN attempts' = DOMAIN attempts
              /\ \A b \in DOMAIN attempts : /\ attempts'[b].status = attempts[b].status
                                            /\ attempts'[b].session = IF b = a THEN s ELSE attempts[b].session
            BY <1>2, <3>1, AttemptSession
        <4> QED
            BY <2>1, <4>1
  <2>2. CASE attempts[a].session # Chk!None
    BY <2>2 DEF Chk!Store, Chk!TypeOK
  <2> QED
    BY <2>1, <2>2
<1>4. click' \in [Clicks -> [pc : Chk!Pcs, attempt : 0..Len(attempts'), session : 0..Len(sessions')]]
  <2>1. Len(attempts') \in Nat /\ Len(sessions') \in Nat /\ Chk!None \in 0..Len(attempts') /\ Chk!None \in 0..Len(sessions')
    BY <1>1, <1>3, Domains DEF Chk!None
  <2> QED
    BY <1>1, <1>3, <2>1, StepType DEF Chk!Pcs, Chk!Outcomes, Chk!End
<1>5. \A x \in Clicks : UNCHANGED click[x] \/ ClickHolds(x)'
    BY <1>1 DEF Chk!End, Chk!Step, Chk!TypeOK, ClickHolds
<1>6. Extends
    BY <1>1, <1>3 DEF Extends
<1>7. AttemptsHold'
    BY <1>1, <1>2, <1>3 DEF CheckoutInvariant, AttemptsHold, Chk!Open
<1>8. SessionsHold'
    BY <1>1, <1>3 DEF CheckoutInvariant, SessionsHold, Chk!Open
<1>9. Chk!TypeOK'
    BY <1>1, <1>3, <1>4 DEF Chk!TypeOK
<1> QED
    BY <1>5, <1>6, <1>7, <1>8, <1>9, TablesMove

LEMMA CloseSessionHolds ==
    ASSUME Chk!CheckoutAssumption, Chk!TypeOK, CheckoutInvariant, NEW s \in DOMAIN sessions, Chk!CloseSession(s)
    PROVE  Chk!TypeOK' /\ CheckoutInvariant'
<1>1. UNCHANGED <<attempts, local, click, now, faults>> /\ events' = events \cup {s} /\ Chk!Open(s)
    BY DEF Chk!CloseSession
<1>2. PICK v \in {"complete", "expired"} : sessions' = [sessions EXCEPT ![s].status = v]
    BY DEF Chk!CloseSession
<1>3. /\ sessions' \in Seq(Chk!Session) /\ Len(sessions') = Len(sessions) /\ DOMAIN sessions' = DOMAIN sessions
      /\ \A t \in DOMAIN sessions : /\ sessions'[t].key = sessions[t].key
                                    /\ sessions'[t].status = IF t = s THEN v ELSE sessions[t].status
    BY <1>2, SessionStatus
<1>4. Extends
    BY <1>1, <1>3 DEF Extends, Chk!Open
<1>5. AttemptsHold'
  <2>1. \A a \in DOMAIN attempts : attempts[a].status # "pending" => attempts[a].session # s
    BY <1>1 DEF CheckoutInvariant, AttemptsHold
  <2> QED
    BY <1>1, <1>3, <2>1 DEF CheckoutInvariant, AttemptsHold, Chk!Open
<1>6. SessionsHold'
    BY <1>1, <1>3 DEF CheckoutInvariant, SessionsHold, Chk!Open, Chk!TypeOK
<1>7. Chk!TypeOK'
    BY <1>1, <1>3 DEF Chk!TypeOK
<1> QED
    BY <1>1, <1>4, <1>5, <1>6, <1>7, TablesMove

LEMMA IngestHolds ==
    ASSUME Chk!CheckoutAssumption, Chk!TypeOK, CheckoutInvariant, NEW s \in DOMAIN sessions, Chk!ingestStripeWebhook(s)
    PROVE  Chk!TypeOK' /\ CheckoutInvariant'
<1>1. UNCHANGED <<sessions, click, now, faults>> /\ events' \subseteq events /\ s \in events
    BY DEF Chk!ingestStripeWebhook
<1>2. ~Chk!Open(s) /\ Chk!ClosedAs(s) \in {"completed", "expired"}
    BY <1>1 DEF CheckoutInvariant, SessionsHold, Chk!ClosedAs
<1>3. /\ attempts' \in Seq(Chk!Attempt) /\ Len(attempts') = Len(attempts) /\ DOMAIN attempts' = DOMAIN attempts
      /\ \A a \in DOMAIN attempts :
            /\ attempts'[a].session = attempts[a].session
            /\ attempts'[a].status = IF attempts[a].session = s /\ (sessions[s].status = "complete" \/ Chk!StillPending(a))
                                     THEN Chk!ClosedAs(s) ELSE attempts[a].status
  <2>1. attempts' = [a \in 1..Len(attempts) |->
            IF attempts[a].session = s /\ (sessions[s].status = "complete" \/ Chk!StillPending(a))
            THEN [attempts[a] EXCEPT !.status = Chk!ClosedAs(s)] ELSE attempts[a]]
    BY Domains DEF Chk!ingestStripeWebhook
  <2>2. \A a \in DOMAIN attempts : [attempts[a] EXCEPT !.status = Chk!ClosedAs(s)] \in Chk!Attempt /\ attempts[a] \in Chk!Attempt
    BY <1>2, Domains DEF Chk!Attempt
  <2>3. attempts' \in [1..Len(attempts) -> Chk!Attempt]
    BY <2>1, <2>2, Domains
  <2>4. attempts' \in Seq(Chk!Attempt)
    BY <2>3, Domains, SeqDef
  <2>5. Len(attempts') = Len(attempts)
    BY <2>3, <2>4, Domains, LenProperties
  <2>6. ASSUME NEW a \in DOMAIN attempts
        PROVE  /\ attempts'[a].session = attempts[a].session
               /\ attempts'[a].status = IF attempts[a].session = s /\ (sessions[s].status = "complete" \/ Chk!StillPending(a))
                                        THEN Chk!ClosedAs(s) ELSE attempts[a].status
    BY <2>1, Domains DEF Chk!Attempt
  <2> QED
    BY <2>3, <2>4, <2>5, <2>6, Domains
<1>4. Extends
    BY <1>1, <1>3 DEF Extends
<1>5. AttemptsHold'
  <2>1. Chk!ClosedAs(s) = "completed" <=> sessions[s].status = "complete"
    BY DEF Chk!ClosedAs
  <2>2. s # Chk!None
    BY Domains DEF Chk!None
  <2>3. \A a \in DOMAIN attempts : attempts'[a].status = "pending" => attempts[a].status = "pending"
    BY <1>2, <1>3 DEF Chk!StillPending
  <2>4. ASSUME NEW a \in DOMAIN attempts, attempts'[a].status # "pending"
        PROVE  /\ attempts[a].session # Chk!None /\ ~Chk!Open(attempts[a].session)
               /\ attempts'[a].status = "completed" <=> sessions[attempts[a].session].status = "complete"
    <3>1. CASE attempts'[a].status = attempts[a].status
        BY <2>4, <3>1 DEF CheckoutInvariant, AttemptsHold
    <3>2. CASE attempts'[a].status # attempts[a].status
        BY <1>2, <1>3, <2>1, <2>2, <3>2
    <3> QED
        BY <3>1, <3>2
  <2> QED
    BY <1>1, <1>3, <2>3, <2>4 DEF CheckoutInvariant, AttemptsHold, Chk!Open
<1>6. SessionsHold'
    <2>1. \A t \in DOMAIN sessions : Chk!Open(t) => attempts[sessions[t].key].session # s
        BY <1>2 DEF CheckoutInvariant, SessionsHold, AttemptsHold, Chk!None
    <2> QED
        BY <1>1, <1>3, <2>1 DEF CheckoutInvariant, SessionsHold, Chk!Open
<1>7. Chk!TypeOK'
    BY <1>1, <1>3 DEF Chk!TypeOK, Chk!ingestStripeWebhook
<1> QED
    BY <1>1, <1>4, <1>5, <1>6, <1>7, TablesMove

LEMMA CheckoutNext ==
    ASSUME Chk!CheckoutAssumption, Chk!TypeOK, CheckoutInvariant, [Chk!Next]_Chk!vars
    PROVE  Chk!TypeOK' /\ CheckoutInvariant'
<1>1. CASE Chk!Tick
  <2>1. now' \in 0..MaxTick
    BY <1>1, Bounds DEF Chk!Tick, Chk!TypeOK
  <2> QED
    BY <1>1, <2>1, OnlyTheClick DEF Chk!Tick, Chk!TypeOK
<1>2. CASE UNCHANGED Chk!vars
    BY <1>2, OnlyTheClick DEF Chk!vars, Chk!TypeOK
<1> QED
    BY <1>1, <1>2, ReadsHold, CloseAttemptHolds, ReserveHolds, CreateHolds, StoreHolds, CloseSessionHolds, IngestHolds
       DEF Chk!Next

(* One session of the workspace can be paid at a time, and an attempt says *)
(* the truth of its own (billing/actions.ts, stripe/webhook/route.ts).     *)
THEOREM OneSessionIsOpen == Chk!CheckoutAssumption => (Chk!Spec => [](Chk!TypeOK /\ Chk!OneOpenSession))
<1> SUFFICES ASSUME Chk!CheckoutAssumption PROVE Chk!Spec => [](Chk!TypeOK /\ Chk!OneOpenSession)
    OBVIOUS
<1>1. Chk!Init => Chk!TypeOK /\ CheckoutInvariant
    BY CheckoutInit
<1>2. (Chk!TypeOK /\ CheckoutInvariant) /\ [Chk!Next]_Chk!vars => (Chk!TypeOK /\ CheckoutInvariant)'
    BY CheckoutNext
<1>3. Chk!TypeOK /\ CheckoutInvariant => Chk!TypeOK /\ Chk!OneOpenSession
  <2> SUFFICES ASSUME Chk!TypeOK, CheckoutInvariant PROVE Chk!OneOpenSession
    OBVIOUS
  <2> DEFINE Opened == {s \in DOMAIN sessions : Chk!Open(s)}
  <2>1. \A s, t \in Opened : s = t
    BY DEF CheckoutInvariant, SessionsHold, AttemptsHold
  <2>2. Cardinality(Opened) <= 1
    <3>1. CASE Opened = {}
        BY <3>1, FS_EmptySet
    <3>2. CASE Opened # {}
        <4>1. PICK s : s \in Opened
            BY <3>2
        <4>2. Opened = {s}
            BY <2>1, <4>1
        <4>3. Cardinality({s}) = 1
            BY FS_Singleton
        <4> HIDE DEF Opened
        <4> QED
            BY <4>2, <4>3
    <3> QED
        BY <3>1, <3>2
  <2> QED
    BY <2>2, CheckoutSets DEF Chk!OneOpenSession, CheckoutInvariant, AttemptsHold
<1> QED
    BY <1>1, <1>2, <1>3, PTL DEF Chk!Spec

-----------------------------------------------------------------------------
\* Finite sets are the same inside and outside the instance.
LEMMA StripeCatalogSets ==
    \A S : (Cat!IsFiniteSet(S) <=> IsFiniteSet(S)) /\ Cat!Cardinality(S) = Cardinality(S)
BY DEF Cat!IsFiniteSet, IsFiniteSet, Cat!Cardinality, Cardinality

LEMMA TwoPrices ==
    ASSUME NEW p, NEW u, p # u
    PROVE  IsFiniteSet({p, u}) /\ Cardinality({p, u}) = 2
<1>1. {p, u} = {p} \cup {u}
    OBVIOUS
<1>2. IsFiniteSet({p}) /\ Cardinality({p}) = 1
    BY FS_Singleton
<1> QED
    BY <1>1, <1>2, FS_AddElement

\* A flat price and one that meters.
Sellable == ~Price[env.platform].metered /\ Price[env.usage].metered

Configured == {env.platform, env.usage}

(* Unless the configuration has changed since, the attempt and what was    *)
(* paid are of the prices that are configured.                             *)
CatalogInvariant ==
    /\ Cat!TypeOK
    /\ attempt # {} /\ ~changed => attempt = Configured /\ Sellable
    /\ subscription # Cat!NoSubscription /\ ~changed =>
          Sellable /\ subscription = [prices |-> Configured, ours |-> TRUE, live |-> Cat!Live]
    /\ catLocal # {} => Cardinality(catLocal) = 2 /\ \E p, u \in catLocal : ~Price[p].metered /\ Price[u].metered

LEMMA ConfiguredIsAccepted ==
    ASSUME Sellable
    PROVE  Cat!SnapshotErrors([prices |-> Configured, ours |-> TRUE, live |-> Cat!Live]) = {}
<1>1. Cardinality(Configured) = 2
    BY TwoPrices DEF Sellable, Configured
<1> DEFINE s == [prices |-> Configured, ours |-> TRUE, live |-> Cat!Live]
<1>2. s.live = Cat!Live /\ s.ours /\ s.prices = Configured /\ Configured \subseteq s.prices
    OBVIOUS
<1>3. Cardinality(s.prices) = 2
    BY <1>1, <1>2
<1> HIDE DEF s
<1> QED
    BY <1>2, <1>3, StripeCatalogSets DEF Cat!SnapshotErrors, Sellable, Configured

LEMMA CatalogNext ==
    ASSUME Cat!CatalogAssumption, CatalogInvariant, [Cat!Next]_Cat!vars
    PROVE  CatalogInvariant'
<1> USE DEF CatalogInvariant, Cat!TypeOK, Cat!CatalogAssumption
<1>1. CASE Cat!prepareCheckout
  <2>1. Sellable
    <3>1. /\ "platform" \notin Cat!validateStripeCatalog(env.platform, env.usage)
          /\ "usage" \notin Cat!validateStripeCatalog(env.platform, env.usage)
        BY <1>1 DEF Cat!prepareCheckout
    <3>2. \A e : e = "platform" => ~(Price[env.platform].metered)
        BY <3>1 DEF Cat!validateStripeCatalog
    <3>3. \A e : e = "usage" => Price[env.usage].metered
        BY <3>1 DEF Cat!validateStripeCatalog
    <3> QED
        BY <3>2, <3>3 DEF Sellable
  <2>2. attempt' = Configured /\ Configured \subseteq Prices
    BY <1>1 DEF Cat!prepareCheckout, Configured, Cat!Configurations
  <2>3. subscription = Cat!NoSubscription /\ UNCHANGED <<env, archived, registrations, subscription, catLocal, changes>>
    BY <1>1 DEF Cat!prepareCheckout
  <2>4. changed' = FALSE
    BY <1>1 DEF Cat!prepareCheckout
  <2>5. Cat!TypeOK'
    BY <2>2, <2>3, <2>4
  <2>6. Configured' = Configured /\ (Sellable' <=> Sellable)
    BY <2>3 DEF Configured, Sellable
  <2> QED
    BY <2>1, <2>2, <2>3, <2>4, <2>5, <2>6
<1>2. CASE Cat!Pay
    BY <1>2 DEF Cat!Pay, Configured, Sellable, Cat!Live
<1>3. CASE Cat!MadeByHand
    BY <1>3 DEF Cat!MadeByHand, Cat!Change, Cat!Live
<1>4. CASE Cat!buildStripeSubscriptionSnapshot
  <2> DEFINE s == subscription
  <2>1. Cat!SnapshotErrors(s) = {} /\ catLocal' = s.prices
    BY <1>4 DEF Cat!buildStripeSubscriptionSnapshot
  <2>2. Configured \subseteq s.prices /\ Cardinality(s.prices) = 2 /\ Sellable
    BY <2>1, StripeCatalogSets DEF Cat!SnapshotErrors, Sellable, Configured
  <2>3. env.platform \in catLocal' /\ env.usage \in catLocal'
    BY <2>1, <2>2 DEF Configured
  <2> QED
    BY <1>4, <2>1, <2>2, <2>3 DEF Cat!buildStripeSubscriptionSnapshot, Sellable, Configured
<1>5. CASE Cat!Deploy
    BY <1>5 DEF Cat!Deploy, Cat!Change
<1>6. CASE Cat!Register
    BY <1>6 DEF Cat!Register, Cat!Change, Configured, Sellable
<1>7. ASSUME NEW p \in Prices, Cat!Archive(p) PROVE CatalogInvariant'
    BY <1>7 DEF Cat!Archive, Cat!Change, Configured, Sellable
<1>8. CASE UNCHANGED Cat!vars
    BY <1>8 DEF Cat!vars, Configured, Sellable
<1> QED
    BY <1>1, <1>2, <1>3, <1>4, <1>5, <1>6, <1>7, <1>8 DEF Cat!Next

(* What was paid under a configuration is accepted by the event of it      *)
(* (billing/stripe-catalog.ts, stripe-state.ts).                           *)
THEOREM PaymentsAreAccepted == Cat!CatalogAssumption => (Cat!Spec => [](Cat!TypeOK /\ Cat!PaidIsAccepted))
<1> SUFFICES ASSUME Cat!CatalogAssumption PROVE Cat!Spec => [](Cat!TypeOK /\ Cat!PaidIsAccepted)
    OBVIOUS
<1>1. Cat!Init => CatalogInvariant
  <2> SUFFICES ASSUME Cat!Init PROVE CatalogInvariant
    OBVIOUS
  <2>1. subscription \in [prices : SUBSET Prices, ours : BOOLEAN, live : BOOLEAN]
    BY DEF Cat!Init, Cat!NoSubscription, Cat!Live
  <2>2. Cat!TypeOK
    <3>1. changed = FALSE /\ changes \in 0..MaxChanges /\ env \in Cat!Configurations
        BY DEF Cat!Init, Cat!CatalogAssumption
    <3>2. archived \subseteq Prices /\ registrations \subseteq Countries /\ {attempt, catLocal} \subseteq SUBSET Prices
        BY DEF Cat!Init
    <3> QED
        BY <2>1, <3>1, <3>2 DEF Cat!TypeOK
  <2> QED
    BY <2>2 DEF Cat!Init, CatalogInvariant
<1>2. CatalogInvariant /\ [Cat!Next]_Cat!vars => CatalogInvariant'
    BY CatalogNext
<1>3. CatalogInvariant => Cat!TypeOK /\ Cat!PaidIsAccepted
  <2> SUFFICES ASSUME CatalogInvariant PROVE Cat!TypeOK /\ Cat!PaidIsAccepted
    OBVIOUS
  <2>1. ASSUME subscription # Cat!NoSubscription, ~changed PROVE Cat!SnapshotErrors(subscription) = {}
    BY <2>1, ConfiguredIsAccepted DEF CatalogInvariant
  <2> QED
    BY <2>1, StripeCatalogSets DEF CatalogInvariant, Cat!PaidIsAccepted
<1> QED
    BY <1>1, <1>2, <1>3, PTL DEF Cat!Spec

-----------------------------------------------------------------------------
\* Finite sets are the same inside and outside the instance.
LEMMA AccessSets ==
    \A S : (Acs!IsFiniteSet(S) <=> IsFiniteSet(S)) /\ Acs!Cardinality(S) = Cardinality(S)
BY DEF Acs!IsFiniteSet, IsFiniteSet, Acs!Cardinality, Cardinality

Provisioned == Cardinality(Owned)

(* Every organization is that of exactly one workspace; the one that the   *)
(* administrator is about to adopt has none, or has got one that was made  *)
(* for it since.                                                           *)
OrgsHold ==
    /\ Provisioned <= made
    /\ \A o \in orgs : \E w \in Workspaces : org[w] = o
    /\ \A w \in Workspaces : org[w] # Acs!NoOrg => org[w] \in orgs
    /\ \A v, w \in Workspaces : org[v] = org[w] /\ org[v] # Acs!NoOrg => v = w

RequestHolds(r) ==
    /\ ~Acs!At(r, "idle") => Acs!OrgsOf(Acs!Who(r)) \subseteq since[r]
    /\ Acs!At(r, "create") => /\ request[r].found \in Workspaces
                              /\ org[request[r].found] = Acs!NoOrg \/ org[request[r].found] > Provisioned
    /\ request[r].pc \in {"workspace", "entered"} => request[r].org \in since[r]

AccessInvariant == Acs!TypeOK /\ OrgsHold /\ \A r \in Requests : RequestHolds(r)

LEMMA ProvisionedType ==
    Acs!AccessAssumption => Provisioned \in Nat /\ Provisioned <= MaxOrgs /\ MaxOrgs \in Nat
BY FS_CardinalityType, AccessSets DEF Acs!AccessAssumption, Provisioned

LEMMA AccessInit == ASSUME Acs!AccessAssumption, Acs!Init PROVE AccessInvariant
<1>1. Provisioned \in Nat /\ Provisioned <= MaxOrgs /\ MaxOrgs \in Nat
    BY ProvisionedType
<1>2. PICK number \in [Owned -> 1..Provisioned] :
         /\ \A v, w \in Owned : v # w => number[v] # number[w]
         /\ org = [w \in Workspaces |-> IF w \in Owned THEN number[w] ELSE Acs!NoOrg]
    BY AccessSets DEF Acs!Init, Provisioned
<1>3. PICK first \in [1..Provisioned -> People \ {Admin}] : members = {<<first[o], o>> : o \in orgs}
    BY AccessSets DEF Acs!Init, Provisioned
<1>4. /\ deleted = {} /\ orgs = 1..Provisioned /\ made = Provisioned
      /\ active = [p \in People |-> Acs!NoOrg]
      /\ request = [r \in Requests |-> Acs!Idle] /\ since = [r \in Requests |-> {}]
    BY AccessSets DEF Acs!Init, Provisioned
<1>5. \A o \in 1..Provisioned : \E w \in Owned : number[w] = o
  <2>1. number \in Injection(Owned, 1..Provisioned)
    BY <1>2 DEF Injection, IsInjective
  <2>2. IsFiniteSet(1..Provisioned) /\ Cardinality(1..Provisioned) = Provisioned
    BY <1>1, FS_Interval
  <2>3. number \in Surjection(Owned, 1..Provisioned)
    BY <2>1, <2>2, FS_Injection DEF Provisioned
  <2> QED
    BY <2>3 DEF Surjection
<1>6. Owned \subseteq Workspaces /\ Admin \in People
    BY DEF Acs!AccessAssumption
<1>7. Acs!TypeOK
  <2>1. org \in [Workspaces -> 0..MaxOrgs]
    BY <1>1, <1>2, <1>6 DEF Acs!NoOrg
  <2>2. members \subseteq People \X orgs
    BY <1>3, <1>4
  <2>3. orgs \subseteq 1..made /\ made \in 0..MaxOrgs /\ deleted \subseteq Workspaces
    BY <1>1, <1>4
  <2>4. active \in [People -> 0..MaxOrgs] /\ since \in [Requests -> SUBSET (1..MaxOrgs)]
    BY <1>1, <1>4 DEF Acs!NoOrg
  <2>5. request \in [Requests -> [pc : Acs!Pcs, who : People, org : 0..MaxOrgs, found : Workspaces \cup {Acs!NoWs}]]
    BY <1>1, <1>4, <1>6 DEF Acs!Idle, Acs!Pcs, Acs!NoOrg
  <2> QED
    BY <2>1, <2>2, <2>3, <2>4, <2>5 DEF Acs!TypeOK
<1>8. OrgsHold
  <2>1. \A w \in Workspaces : org[w] = IF w \in Owned THEN number[w] ELSE Acs!NoOrg
    BY <1>2
  <2> QED
    BY <1>1, <1>2, <1>4, <1>5, <1>6, <2>1 DEF OrgsHold, Acs!NoOrg
<1>9. \A r \in Requests : RequestHolds(r)
    BY <1>4 DEF RequestHolds, Acs!At, Acs!Idle
<1> QED
    BY <1>7, <1>8, <1>9 DEF AccessInvariant

\* A step of a request: it goes on, and knows no organization it did not.
LEMMA RequestMoves ==
    ASSUME AccessInvariant, NEW r \in Requests, NEW pc \in Acs!Pcs, NEW o \in 0..MaxOrgs, Acs!Go(r, pc, o), pc # "create",
           pc # "idle", ~Acs!At(r, "idle")
    PROVE  /\ request' \in [Requests -> [pc : Acs!Pcs, who : People, org : 0..MaxOrgs, found : Workspaces \cup {Acs!NoWs}]]
           /\ \A q \in Requests : q # r => request'[q] = request[q]
           /\ request'[r].pc = pc /\ request'[r].org = o /\ request'[r].who = request[r].who
BY DEF AccessInvariant, Acs!TypeOK, Acs!Go

\* A step of a request that changes nothing else.
LEMMA RequestGoes ==
    ASSUME AccessInvariant, NEW r \in Requests, NEW pc \in Acs!Pcs, NEW o \in 0..MaxOrgs, Acs!Go(r, pc, o), pc # "create",
           pc # "idle", ~Acs!At(r, "idle"), UNCHANGED <<org, deleted, orgs, made, members, since>>,
           active' \in [People -> 0..MaxOrgs], pc \in {"workspace", "entered"} => o \in since[r]
    PROVE  AccessInvariant'
<1>1. Acs!TypeOK'
    BY RequestMoves DEF AccessInvariant, Acs!TypeOK
<1>2. OrgsHold'
    BY DEF AccessInvariant, OrgsHold
<1>3. \A q \in Requests : RequestHolds(q)'
    BY RequestMoves DEF AccessInvariant, RequestHolds, Acs!At, Acs!Who, Acs!OrgsOf
<1> QED
    BY <1>1, <1>2, <1>3 DEF AccessInvariant

\* A person joins an organization.
LEMMA JoinedKnows ==
    ASSUME AccessInvariant, NEW p \in People, NEW o \in 1..MaxOrgs, Acs!Joined(p, o)
    PROVE  /\ since' \in [Requests -> SUBSET (1..MaxOrgs)]
           /\ \A r \in Requests : /\ since[r] \subseteq since'[r]
                                  /\ ~Acs!At(r, "idle") /\ Acs!Who(r) = p => o \in since'[r]
BY DEF AccessInvariant, Acs!TypeOK, Acs!Joined

LEMMA RequestTypes ==
    ASSUME Acs!AccessAssumption, AccessInvariant, NEW r \in Requests
    PROVE  /\ request[r].org \in 0..MaxOrgs /\ Acs!Who(r) \in People /\ request[r].found \in Workspaces \cup {Acs!NoWs}
           /\ {"lookup", "bootstrap", "create", "join", "remember", "member", "workspace", "refused", "entered"} \subseteq Acs!Pcs
           /\ Acs!NoOrg \in 0..MaxOrgs /\ \A o \in orgs : o \in 1..MaxOrgs
<1>1. orgs \subseteq 1..made /\ made \in 0..MaxOrgs /\ request[r] \in [pc : Acs!Pcs, who : People, org : 0..MaxOrgs, found : Workspaces \cup {Acs!NoWs}]
    BY DEF AccessInvariant, Acs!TypeOK
<1>2. MaxOrgs \in Nat
    BY DEF Acs!AccessAssumption
<1>3. Acs!NoOrg \in 0..MaxOrgs /\ \A o \in orgs : o \in 1..MaxOrgs
    BY <1>1, <1>2 DEF Acs!NoOrg
<1>4. {"lookup", "bootstrap", "create", "join", "remember", "member", "workspace", "refused", "entered"} \subseteq Acs!Pcs
    BY DEF Acs!Pcs
<1> QED
    BY <1>1, <1>3, <1>4 DEF Acs!Who

LEMMA ReadsBootstrap ==
    ASSUME Acs!AccessAssumption, AccessInvariant, NEW r \in Requests, Acs!ReadBootstrap(r)
    PROVE  AccessInvariant'
<1>1. UNCHANGED <<org, deleted, orgs, made, members, active, since>> /\ Acs!At(r, "bootstrap") /\ ~Acs!At(r, "idle")
    BY DEF Acs!ReadBootstrap, Acs!At
<1>2. active' \in [People -> 0..MaxOrgs]
    BY <1>1 DEF AccessInvariant, Acs!TypeOK
<1>3. ASSUME NEW o \in Acs!OrgsOf(Admin), Acs!Go(r, "remember", o) PROVE AccessInvariant'
  <2>1. o \in 0..MaxOrgs /\ "remember" \in Acs!Pcs
    BY RequestTypes DEF Acs!OrgsOf
  <2> QED
    BY <1>1, <1>2, <1>3, <2>1, RequestGoes
<1>4. CASE Acs!Go(r, "refused", Acs!NoOrg)
    BY <1>1, <1>2, <1>4, RequestGoes, RequestTypes
<1>5. ASSUME NEW w \in Acs!Live,
             request' = [request EXCEPT ![r].pc = IF org[w] = Acs!NoOrg THEN "create" ELSE "join", ![r].org = org[w], ![r].found = w]
      PROVE  AccessInvariant'
  <2>1. w \in Workspaces /\ org[w] \in 0..MaxOrgs /\ {"create", "join"} \subseteq Acs!Pcs
    BY RequestTypes DEF Acs!Live, AccessInvariant, Acs!TypeOK
  <2>2. /\ request' \in [Requests -> [pc : Acs!Pcs, who : People, org : 0..MaxOrgs, found : Workspaces \cup {Acs!NoWs}]]
        /\ \A q \in Requests : q # r => request'[q] = request[q]
        /\ request'[r].pc = IF org[w] = Acs!NoOrg THEN "create" ELSE "join"
        /\ request'[r].who = request[r].who /\ request'[r].found = w
    BY <1>5, <2>1 DEF AccessInvariant, Acs!TypeOK
  <2>3. Acs!TypeOK' /\ OrgsHold'
    BY <1>1, <2>2 DEF AccessInvariant, Acs!TypeOK, OrgsHold
  <2>4. \A q \in Requests : RequestHolds(q)'
    BY <1>1, <2>1, <2>2 DEF AccessInvariant, RequestHolds, Acs!At, Acs!Who, Acs!OrgsOf
  <2> QED
    BY <2>3, <2>4 DEF AccessInvariant
<1> QED
    BY <1>3, <1>4, <1>5 DEF Acs!ReadBootstrap

LEMMA Bootstraps ==
    ASSUME Acs!AccessAssumption, AccessInvariant, NEW r \in Requests, Acs!bootstrapOwner(r)
    PROVE  AccessInvariant'
<1> DEFINE w == request[r].found
           n == made + 1
<1>1. /\ Acs!At(r, "create") /\ ~Acs!At(r, "idle") /\ made < MaxOrgs /\ UNCHANGED <<deleted, active>>
      /\ Admin \in People
    BY DEF Acs!bootstrapOwner, Acs!At, Acs!AccessAssumption
<1>2. /\ made \in Nat /\ n \in 1..MaxOrgs /\ n \in 0..MaxOrgs /\ n > Provisioned /\ n \notin orgs /\ MaxOrgs \in Nat
      /\ orgs \subseteq 1..made /\ Provisioned \in Nat
    BY <1>1, ProvisionedType DEF AccessInvariant, Acs!TypeOK, OrgsHold
<1>3. CASE ~Acs!SlugFree
  <2>1. Acs!Go(r, "refused", Acs!NoOrg) /\ UNCHANGED <<org, orgs, made, members, since>>
    BY <1>3 DEF Acs!bootstrapOwner
  <2>2. active' \in [People -> 0..MaxOrgs]
    BY <1>1 DEF AccessInvariant, Acs!TypeOK
  <2> QED
    BY <1>1, <2>1, <2>2, RequestGoes, RequestTypes
<1>4. CASE Acs!SlugFree
  <2>1. /\ made' = n /\ orgs' = orgs \cup {n} /\ members' = members \cup {<<Admin, n>>}
        /\ org' = IF org[w] = Acs!NoOrg THEN [org EXCEPT ![w] = n] ELSE org
        /\ Acs!Go(r, "remember", n) /\ Acs!Joined(Admin, n)
    BY <1>4 DEF Acs!bootstrapOwner
  <2>2. w \in Workspaces /\ (org[w] = Acs!NoOrg \/ org[w] > Provisioned) /\ org[w] \in 0..MaxOrgs
    BY <1>1 DEF AccessInvariant, RequestHolds, Acs!TypeOK
  <2>3. org[w] = Acs!NoOrg
    <3>1. \A o \in orgs : ~(o > Provisioned)
        BY <1>4, AccessSets DEF Acs!SlugFree, Acs!Slugged, Provisioned
    <3> QED
        BY <2>2, <3>1 DEF AccessInvariant, OrgsHold
  <2>4. org' = [org EXCEPT ![w] = n]
    BY <2>1, <2>3
  <2>5. /\ request' \in [Requests -> [pc : Acs!Pcs, who : People, org : 0..MaxOrgs, found : Workspaces \cup {Acs!NoWs}]]
        /\ \A q \in Requests : q # r => request'[q] = request[q]
        /\ request'[r].pc = "remember" /\ request'[r].who = request[r].who
    BY <1>1, <1>2, <2>1, RequestMoves, RequestTypes
  <2>6. /\ since' \in [Requests -> SUBSET (1..MaxOrgs)]
        /\ \A q \in Requests : /\ since[q] \subseteq since'[q]
                               /\ ~Acs!At(q, "idle") /\ Acs!Who(q) = Admin => n \in since'[q]
    BY <1>1, <1>2, <2>1, JoinedKnows
  <2>7. Acs!TypeOK'
    <3>1. org' \in [Workspaces -> 0..MaxOrgs]
        BY <1>2, <2>2, <2>4 DEF AccessInvariant, Acs!TypeOK
    <3>2. members' \subseteq People \X orgs'
        BY <1>1, <2>1 DEF AccessInvariant, Acs!TypeOK
    <3>3. orgs' \subseteq 1..made' /\ made' \in 0..MaxOrgs
        BY <1>2, <2>1
    <3> QED
        BY <1>1, <2>5, <2>6, <3>1, <3>2, <3>3 DEF AccessInvariant, Acs!TypeOK
  <2>8. \A v \in Workspaces : org'[v] = IF v = w THEN n ELSE org[v]
    BY <2>2, <2>4 DEF AccessInvariant, Acs!TypeOK
  <2>9. OrgsHold'
    <3>1. Provisioned' = Provisioned /\ Provisioned <= made'
        BY <1>2, <2>1 DEF Provisioned
    <3>2. \A o \in orgs' : \E v \in Workspaces : org'[v] = o
      <4> SUFFICES ASSUME NEW o \in orgs' PROVE \E v \in Workspaces : org'[v] = o
        OBVIOUS
      <4>1. CASE o = n
        BY <2>2, <2>8, <4>1
      <4>2. CASE o \in orgs
        <5>1. PICK v \in Workspaces : org[v] = o
            BY <4>2 DEF AccessInvariant, OrgsHold
        <5>2. v # w
            BY <1>2, <2>3, <4>2, <5>1 DEF Acs!NoOrg
        <5> QED
            BY <2>8, <5>1, <5>2
      <4> QED
        BY <2>1, <4>1, <4>2
    <3>3. \A v \in Workspaces : org'[v] # Acs!NoOrg => org'[v] \in orgs'
        BY <2>1, <2>8 DEF AccessInvariant, OrgsHold
    <3>4. \A u, v \in Workspaces : org'[u] = org'[v] /\ org'[u] # Acs!NoOrg => u = v
        BY <1>2, <2>8 DEF AccessInvariant, OrgsHold
    <3> QED
        BY <3>1, <3>2, <3>3, <3>4 DEF OrgsHold
  <2>10. ASSUME NEW q \in Requests PROVE RequestHolds(q)'
    <3>1. Acs!At(q, "idle")' <=> Acs!At(q, "idle")
        BY <1>1, <2>5 DEF Acs!At
    <3>2. Acs!Who(q)' = Acs!Who(q)
        BY <2>5 DEF Acs!Who
    <3>3. ~Acs!At(q, "idle") => Acs!OrgsOf(Acs!Who(q))' \subseteq since'[q]
      <4>1. ~Acs!At(q, "idle") => Acs!OrgsOf(Acs!Who(q)) \subseteq since[q]
        BY DEF AccessInvariant, RequestHolds
      <4>2. \A o \in Acs!OrgsOf(Acs!Who(q))' : o \in Acs!OrgsOf(Acs!Who(q)) \/ (o = n /\ Acs!Who(q) = Admin)
        <5>1. members \subseteq People \X orgs
            BY DEF AccessInvariant, Acs!TypeOK
        <5>2. \A p, o : <<p, o>> \in members' => <<p, o>> \in members \/ (p = Admin /\ o = n)
            BY <2>1
        <5> QED
            BY <2>1, <3>2, <5>1, <5>2 DEF Acs!OrgsOf
      <4> SUFFICES ASSUME ~Acs!At(q, "idle"), NEW x \in Acs!OrgsOf(Acs!Who(q))' PROVE x \in since'[q]
        OBVIOUS
      <4>3. since[q] \subseteq since'[q] /\ (Acs!Who(q) = Admin => n \in since'[q])
        BY <2>6
      <4>4. x \in Acs!OrgsOf(Acs!Who(q)) \/ (x = n /\ Acs!Who(q) = Admin)
        BY <4>2
      <4> QED
        BY <4>1, <4>3, <4>4
    <3>4. Acs!At(q, "create")' => /\ request'[q].found \in Workspaces
                                  /\ org'[request'[q].found] = Acs!NoOrg \/ org'[request'[q].found] > Provisioned
        BY <1>2, <2>5, <2>8 DEF AccessInvariant, RequestHolds, Acs!At
    <3>5. request'[q].pc \in {"workspace", "entered"} => request'[q].org \in since'[q]
      <4>1. request[q].pc \in {"workspace", "entered"} => request[q].org \in since[q]
        BY DEF AccessInvariant, RequestHolds
      <4>2. q = r => request'[q].pc = "remember"
        BY <2>5
      <4>3. q # r => request'[q] = request[q] /\ since[q] \subseteq since'[q]
        BY <2>5, <2>6
      <4> QED
        BY <4>1, <4>2, <4>3
    <3> QED
        BY <3>1, <3>3, <3>4, <3>5 DEF RequestHolds, Provisioned
  <2> QED
    BY <2>7, <2>9, <2>10 DEF AccessInvariant
<1> QED
    BY <1>3, <1>4

\* A membership that is added, the requests of its person seeing it.
LEMMA MemberAdded ==
    ASSUME Acs!AccessAssumption, AccessInvariant, NEW p \in People, NEW o \in orgs, members' = members \cup {<<p, o>>}, Acs!Joined(p, o),
           UNCHANGED <<org, orgs, made, deleted>>, active' \in [People -> 0..MaxOrgs],
           request' \in [Requests -> [pc : Acs!Pcs, who : People, org : 0..MaxOrgs, found : Workspaces \cup {Acs!NoWs}]],
           \A q \in Requests : \/ request'[q] = request[q]
                               \/ ~Acs!At(q, "idle") /\ request'[q].pc = "remember" /\ request'[q].who = request[q].who
    PROVE  AccessInvariant'
<1>1. o \in 1..MaxOrgs
  <2>1. o \in 1..made /\ made \in 0..MaxOrgs
    BY DEF AccessInvariant, Acs!TypeOK
  <2>2. MaxOrgs \in Nat
    BY DEF Acs!AccessAssumption
  <2> QED
    BY <2>1, <2>2
<1>2. /\ since' \in [Requests -> SUBSET (1..MaxOrgs)]
      /\ \A q \in Requests : /\ since[q] \subseteq since'[q]
                             /\ ~Acs!At(q, "idle") /\ Acs!Who(q) = p => o \in since'[q]
    BY <1>1, JoinedKnows
<1>3. Acs!TypeOK'
  <2>1. members' \subseteq People \X orgs'
    <3>1. <<p, o>> \in People \X orgs
        OBVIOUS
    <3>2. members \subseteq People \X orgs
        BY DEF AccessInvariant, Acs!TypeOK
    <3> QED
        BY <3>1, <3>2
  <2> QED
    BY <1>2, <2>1 DEF AccessInvariant, Acs!TypeOK
<1>4. OrgsHold'
    BY DEF AccessInvariant, OrgsHold, Provisioned
<1>5. ASSUME NEW q \in Requests PROVE RequestHolds(q)'
  <2>1. (Acs!At(q, "idle")' <=> Acs!At(q, "idle")) /\ Acs!Who(q)' = Acs!Who(q)
    BY DEF Acs!At, Acs!Who
  <2>2. \A x \in Acs!OrgsOf(Acs!Who(q))' : x \in Acs!OrgsOf(Acs!Who(q)) \/ (x = o /\ Acs!Who(q) = p)
    BY <2>1 DEF Acs!OrgsOf
  <2>3. ~Acs!At(q, "idle")' => Acs!OrgsOf(Acs!Who(q))' \subseteq since'[q]
    <3> SUFFICES ASSUME ~Acs!At(q, "idle"), NEW x \in Acs!OrgsOf(Acs!Who(q))' PROVE x \in since'[q]
        BY <2>1
    <3>1. since[q] \subseteq since'[q] /\ (Acs!Who(q) = p => o \in since'[q])
        BY <1>2
    <3>2. x \in Acs!OrgsOf(Acs!Who(q)) \/ (x = o /\ Acs!Who(q) = p)
        BY <2>2
    <3>3. Acs!OrgsOf(Acs!Who(q)) \subseteq since[q]
        BY DEF AccessInvariant, RequestHolds
    <3> QED
        BY <3>1, <3>2, <3>3
  <2>4. /\ Acs!At(q, "create")' => Acs!At(q, "create") /\ request'[q] = request[q]
        /\ request'[q].pc \in {"workspace", "entered"} => request'[q] = request[q]
    BY DEF Acs!At
  <2> QED
    BY <1>2, <2>3, <2>4 DEF AccessInvariant, RequestHolds, Provisioned
<1> QED
    BY <1>3, <1>4, <1>5 DEF AccessInvariant

\* A step of others that lets no one in.
LEMMA OthersStep ==
    ASSUME AccessInvariant, Acs!TypeOK', OrgsHold', members' \subseteq members, orgs' \subseteq orgs,
           \A w \in Workspaces : org'[w] = org[w] \/ org'[w] = Acs!NoOrg,
           UNCHANGED <<request, since>>
    PROVE  AccessInvariant'
<1>1. ASSUME NEW q \in Requests PROVE RequestHolds(q)'
  <2>1. Acs!OrgsOf(Acs!Who(q))' \subseteq Acs!OrgsOf(Acs!Who(q))
    BY DEF Acs!OrgsOf, Acs!Who
  <2> QED
    BY <2>1 DEF AccessInvariant, RequestHolds, Provisioned, Acs!At, Acs!Who
<1> QED
    BY <1>1 DEF AccessInvariant

LEMMA Deletes ==
    ASSUME Acs!AccessAssumption, AccessInvariant, NEW w \in Workspaces, Acs!requestWorkspaceDeletion(w)
    PROVE  AccessInvariant'
<1>1. /\ org[w] # Acs!NoOrg /\ org' = [org EXCEPT ![w] = Acs!NoOrg] /\ orgs' = orgs \ {org[w]}
      /\ members' = {m \in members : m[2] # org[w]} /\ deleted' = deleted \cup {w}
      /\ active' = [p \in People |-> IF active[p] = org[w] THEN Acs!NoOrg ELSE active[p]]
      /\ UNCHANGED <<made, request, since>>
    BY DEF Acs!requestWorkspaceDeletion
<1>2. \A v \in Workspaces : org'[v] = IF v = w THEN Acs!NoOrg ELSE org[v]
    BY <1>1 DEF AccessInvariant, Acs!TypeOK
<1>3. OrgsHold'
    BY <1>1, <1>2 DEF AccessInvariant, OrgsHold, Provisioned
<1>4. Acs!TypeOK'
  <2>1. members' \subseteq People \X orgs'
    BY <1>1 DEF AccessInvariant, Acs!TypeOK
  <2>2. Acs!NoOrg \in 0..MaxOrgs
    BY DEF Acs!AccessAssumption, Acs!NoOrg
  <2>3. active' \in [People -> 0..MaxOrgs] /\ org' \in [Workspaces -> 0..MaxOrgs]
    BY <1>1, <2>2 DEF AccessInvariant, Acs!TypeOK
  <2> QED
    BY <1>1, <2>1, <2>3 DEF AccessInvariant, Acs!TypeOK
<1> QED
    BY <1>1, <1>2, <1>3, <1>4, OthersStep

LEMMA AccessNext ==
    ASSUME Acs!AccessAssumption, AccessInvariant, [Acs!Next]_Acs!vars
    PROVE  AccessInvariant'
<1>1. Admin \in People /\ active \in [People -> 0..MaxOrgs]
    BY DEF Acs!AccessAssumption, AccessInvariant, Acs!TypeOK
<1>2. ASSUME NEW r \in Requests, NEW p \in People, Acs!Arrive(r, p) PROVE AccessInvariant'
  <2>1. /\ Acs!At(r, "idle") /\ since' = [since EXCEPT ![r] = Acs!OrgsOf(p)]
        /\ UNCHANGED <<org, deleted, orgs, made, members, active>>
        /\ request' = [request EXCEPT ![r] = [pc |-> IF active[p] = Acs!NoOrg THEN "lookup" ELSE "member", who |-> p,
                                               org |-> active[p], found |-> Acs!NoWs]]
    BY <1>2 DEF Acs!Arrive
  <2>2. /\ request'[r].pc \in {"lookup", "member"} /\ request'[r].who = p
        /\ \A q \in Requests : q # r => request'[q] = request[q] /\ since'[q] = since[q]
        /\ since'[r] = Acs!OrgsOf(p)
        /\ request' \in [Requests -> [pc : Acs!Pcs, who : People, org : 0..MaxOrgs, found : Workspaces \cup {Acs!NoWs}]]
    BY <1>1, <2>1, RequestTypes DEF AccessInvariant, Acs!TypeOK
  <2>3. Acs!OrgsOf(p) \subseteq 1..MaxOrgs
    BY RequestTypes DEF Acs!OrgsOf
  <2>4. Acs!TypeOK' /\ OrgsHold'
    BY <2>1, <2>2, <2>3 DEF AccessInvariant, Acs!TypeOK, OrgsHold
  <2>5. \A q \in Requests : RequestHolds(q)'
    BY <2>1, <2>2 DEF AccessInvariant, RequestHolds, Acs!At, Acs!Who, Acs!OrgsOf
  <2> QED
    BY <2>4, <2>5 DEF AccessInvariant
<1>3. ASSUME NEW r \in Requests, Acs!Lookup(r) PROVE AccessInvariant'
  <2>1. ~Acs!At(r, "idle") /\ UNCHANGED <<org, deleted, orgs, made, members, active, since>>
    BY <1>3 DEF Acs!Lookup, Acs!At
  <2>2. PICK pc \in {"remember", "bootstrap", "refused"}, o \in orgs \cup {Acs!NoOrg} : Acs!Go(r, pc, o)
    BY <1>3 DEF Acs!Lookup, Acs!OrgsOf
  <2>3. pc \in Acs!Pcs /\ o \in 0..MaxOrgs
    BY <2>2, RequestTypes
  <2> QED
    BY <1>1, <2>1, <2>2, <2>3, RequestGoes
<1>4. ASSUME NEW r \in Requests, Acs!ReadBootstrap(r) PROVE AccessInvariant'
    BY <1>4, ReadsBootstrap
<1>5. ASSUME NEW r \in Requests, Acs!bootstrapOwner(r) PROVE AccessInvariant'
    BY <1>5, Bootstraps
<1>6. ASSUME NEW r \in Requests, Acs!Join(r) PROVE AccessInvariant'
  <2>1. ~Acs!At(r, "idle") /\ UNCHANGED <<org, deleted, orgs, made, active>>
    BY <1>6 DEF Acs!Join, Acs!At
  <2>2. CASE request[r].org \in orgs
    <3>1. /\ members' = members \cup {<<Admin, request[r].org>>} /\ Acs!Go(r, "remember", request[r].org)
          /\ Acs!Joined(Admin, request[r].org)
        BY <1>6, <2>2 DEF Acs!Join
    <3>2. /\ request' \in [Requests -> [pc : Acs!Pcs, who : People, org : 0..MaxOrgs, found : Workspaces \cup {Acs!NoWs}]]
          /\ \A q \in Requests : q # r => request'[q] = request[q]
          /\ request'[r].pc = "remember" /\ request'[r].who = request[r].who
        BY <2>1, <3>1, RequestMoves, RequestTypes
    <3>3. \A q \in Requests : \/ request'[q] = request[q]
                              \/ ~Acs!At(q, "idle") /\ request'[q].pc = "remember" /\ request'[q].who = request[q].who
        BY <2>1, <3>2
    <3>4. active' \in [People -> 0..MaxOrgs] /\ UNCHANGED <<org, orgs, made, deleted>>
        BY <1>1, <2>1
    <3> QED
        BY <1>1, <2>2, <3>1, <3>2, <3>3, <3>4, MemberAdded
  <2>3. CASE request[r].org \notin orgs
    <3>1. Acs!Go(r, "refused", Acs!NoOrg) /\ UNCHANGED <<members, since>>
        BY <1>6, <2>3 DEF Acs!Join
    <3> QED
        BY <1>1, <2>1, <3>1, RequestGoes, RequestTypes
  <2> QED
    BY <2>2, <2>3
<1>7. ASSUME NEW r \in Requests, Acs!Remember(r) PROVE AccessInvariant'
  <2>1. /\ ~Acs!At(r, "idle") /\ Acs!Go(r, "member", request[r].org) /\ UNCHANGED <<org, deleted, orgs, made, members, since>>
        /\ active' = [active EXCEPT ![Acs!Who(r)] = request[r].org]
    BY <1>7 DEF Acs!Remember, Acs!At
  <2>2. active' \in [People -> 0..MaxOrgs]
    BY <1>1, <2>1, RequestTypes
  <2> QED
    BY <2>1, <2>2, RequestGoes, RequestTypes
<1>8. ASSUME NEW r \in Requests, Acs!ReadMembership(r) PROVE AccessInvariant'
  <2>1. ~Acs!At(r, "idle") /\ UNCHANGED <<org, deleted, orgs, made, members, active, since>>
    BY <1>8 DEF Acs!ReadMembership, Acs!At
  <2>2. CASE Acs!IsMember(Acs!Who(r), request[r].org)
    <3>1. Acs!Go(r, "workspace", request[r].org)
        BY <1>8, <2>2 DEF Acs!ReadMembership
    <3>2. request[r].org \in Acs!OrgsOf(Acs!Who(r))
        BY <2>2 DEF Acs!IsMember, Acs!OrgsOf, AccessInvariant, Acs!TypeOK
    <3>3. request[r].org \in since[r]
        BY <2>1, <3>2 DEF AccessInvariant, RequestHolds
    <3> QED
        BY <1>1, <2>1, <3>1, <3>3, RequestGoes, RequestTypes
  <2>3. CASE ~Acs!IsMember(Acs!Who(r), request[r].org)
    <3>1. Acs!Go(r, "refused", request[r].org)
        BY <1>8, <2>3 DEF Acs!ReadMembership
    <3> QED
        BY <1>1, <2>1, <3>1, RequestGoes, RequestTypes
  <2> QED
    BY <2>2, <2>3
<1>9. ASSUME NEW r \in Requests, Acs!ReadWorkspace(r) PROVE AccessInvariant'
  <2>1. ~Acs!At(r, "idle") /\ Acs!At(r, "workspace") /\ UNCHANGED <<org, deleted, orgs, made, members, active, since>>
    BY <1>9 DEF Acs!ReadWorkspace, Acs!At
  <2>2. CASE Acs!Go(r, "refused", Acs!NoOrg)
    BY <1>1, <2>1, <2>2, RequestGoes, RequestTypes
  <2>3. ASSUME NEW w \in Acs!Found(request[r].org), Acs!Go(r, "entered", org[w]) PROVE AccessInvariant'
    <3>1. org[w] = request[r].org
        BY DEF Acs!Found
    <3>2. request[r].org \in since[r]
        BY <2>1 DEF AccessInvariant, RequestHolds, Acs!At
    <3> QED
        BY <1>1, <2>1, <2>3, <3>1, <3>2, RequestGoes, RequestTypes
  <2> QED
    BY <1>9, <2>2, <2>3 DEF Acs!ReadWorkspace
<1>10. ASSUME NEW r \in Requests, Acs!Leave(r) PROVE AccessInvariant'
  <2>1. /\ request' = [request EXCEPT ![r] = Acs!Idle] /\ since' = [since EXCEPT ![r] = {}]
        /\ UNCHANGED <<org, deleted, orgs, made, members, active>>
    BY <1>10 DEF Acs!Leave
  <2>2. /\ request' \in [Requests -> [pc : Acs!Pcs, who : People, org : 0..MaxOrgs, found : Workspaces \cup {Acs!NoWs}]]
        /\ \A q \in Requests : q # r => request'[q] = request[q] /\ since'[q] = since[q]
        /\ request'[r].pc = "idle"
        /\ since' \in [Requests -> SUBSET (1..MaxOrgs)]
    BY <1>1, <2>1, RequestTypes DEF AccessInvariant, Acs!TypeOK, Acs!Idle, Acs!Pcs
  <2>3. Acs!TypeOK' /\ OrgsHold'
    BY <2>1, <2>2 DEF AccessInvariant, Acs!TypeOK, OrgsHold
  <2>4. \A q \in Requests : RequestHolds(q)'
    BY <2>1, <2>2 DEF AccessInvariant, RequestHolds, Acs!At, Acs!Who, Acs!OrgsOf
  <2> QED
    BY <2>3, <2>4 DEF AccessInvariant
<1>11. ASSUME NEW p \in People, NEW o \in 1..MaxOrgs, Acs!acceptInvitation(p, o) PROVE AccessInvariant'
  <2>1. /\ o \in orgs /\ members' = members \cup {<<p, o>>} /\ active' = [active EXCEPT ![p] = o]
        /\ Acs!Joined(p, o) /\ UNCHANGED <<org, deleted, orgs, made, request>>
    BY <1>11 DEF Acs!acceptInvitation
  <2>2. active' \in [People -> 0..MaxOrgs] /\ request' \in [Requests -> [pc : Acs!Pcs, who : People, org : 0..MaxOrgs, found : Workspaces \cup {Acs!NoWs}]]
    BY <1>1, <2>1 DEF AccessInvariant, Acs!TypeOK
  <2>3. \A q \in Requests : request'[q] = request[q]
    BY <2>1
  <2>4. UNCHANGED <<org, orgs, made, deleted>>
    BY <2>1
  <2> QED
    BY <2>1, <2>2, <2>3, <2>4, MemberAdded
<1>12. ASSUME NEW p \in People, NEW o \in 1..MaxOrgs, Acs!setActive(p, o) PROVE AccessInvariant'
  <2>1. active' = [active EXCEPT ![p] = o] /\ UNCHANGED <<org, deleted, orgs, made, members, request, since>>
    BY <1>12 DEF Acs!setActive
  <2>2. Acs!TypeOK' /\ OrgsHold'
    BY <1>1, <2>1 DEF AccessInvariant, Acs!TypeOK, OrgsHold
  <2> QED
    BY <2>1, <2>2, OthersStep
<1>13. ASSUME NEW p \in People, NEW o \in 1..MaxOrgs, Acs!removeWorkspaceMember(p, o) PROVE AccessInvariant'
  <2>1. members' \subseteq members /\ UNCHANGED <<org, deleted, orgs, made, active, request, since>>
    BY <1>13 DEF Acs!removeWorkspaceMember
  <2>2. Acs!TypeOK' /\ OrgsHold'
    BY <1>1, <2>1 DEF AccessInvariant, Acs!TypeOK, OrgsHold
  <2> QED
    BY <2>1, <2>2, OthersStep
<1>14. ASSUME NEW w \in Workspaces, Acs!requestWorkspaceDeletion(w) PROVE AccessInvariant'
    BY <1>14, Deletes
<1>15. CASE UNCHANGED Acs!vars
  <2>1. UNCHANGED <<org, deleted, orgs, made, members, active, request, since>>
    BY <1>15 DEF Acs!vars
  <2>2. Acs!TypeOK' /\ OrgsHold'
    BY <2>1 DEF AccessInvariant, Acs!TypeOK, OrgsHold
  <2> QED
    BY <2>1, <2>2, OthersStep
<1> QED
    BY <1>2, <1>3, <1>4, <1>5, <1>6, <1>7, <1>8, <1>9, <1>10, <1>11, <1>12, <1>13, <1>14, <1>15 DEF Acs!Next

(* Every organization has its workspace, and whoever was removed before a  *)
(* request began does not enter with it (lib/current-workspace.ts).        *)
THEOREM MembersEnter == Acs!AccessAssumption => (Acs!Spec => [](Acs!TypeOK /\ Acs!OrganizationsHaveWorkspaces /\ Acs!RemovedStayOut))
<1> SUFFICES ASSUME Acs!AccessAssumption PROVE Acs!Spec => [](Acs!TypeOK /\ Acs!OrganizationsHaveWorkspaces /\ Acs!RemovedStayOut)
    OBVIOUS
<1>1. Acs!Init => AccessInvariant
    BY AccessInit
<1>2. AccessInvariant /\ [Acs!Next]_Acs!vars => AccessInvariant'
    BY AccessNext
<1>3. AccessInvariant => Acs!TypeOK /\ Acs!OrganizationsHaveWorkspaces /\ Acs!RemovedStayOut
    BY DEF AccessInvariant, OrgsHold, RequestHolds, Acs!OrganizationsHaveWorkspaces, Acs!RemovedStayOut, Acs!At
<1> QED
    BY <1>1, <1>2, <1>3, PTL DEF Acs!Spec

-----------------------------------------------------------------------------
\* Finite sets are the same inside and outside the instance.
LEMMA MembershipSets ==
    \A S : (Mem!IsFiniteSet(S) <=> IsFiniteSet(S)) /\ Mem!Cardinality(S) = Cardinality(S)
BY DEF Mem!IsFiniteSet, IsFiniteSet, Mem!Cardinality, Cardinality

(* Until an expired invitation is renewed, whoever holds one that is live  *)
(* has a seat kept.                                                        *)
MembershipInvariant ==
    /\ Mem!TypeOK
    /\ IsFiniteSet(members) /\ IsFiniteSet(Mem!Waiting)
    /\ ~revived => Cardinality(members) + Cardinality(Mem!Waiting) <= Seats

LEMMA MembershipInit == ASSUME Mem!MembershipAssumption, Mem!Init PROVE MembershipInvariant
<1>1. Mem!TypeOK
  <2>1. {live, members, accounts} \subseteq SUBSET MemPeople /\ {bound, hook, approved, revived} \subseteq BOOLEAN
    BY DEF Mem!Init, Mem!MembershipAssumption
  <2>2. /\ run \in Mem!Deliverable \cup {"sending_email", "accepted"}
        /\ courier \in [Couriers -> {"idle", "claimed", "sent", "failed"}]
        /\ invitation \in [MemPeople -> {"none", "pending", "accepted", "canceled"}]
        /\ sends \in 0..MaxSends /\ memFaults \in 0..MaxFaults
    BY DEF Mem!Init, Mem!MembershipAssumption, Mem!Deliverable
  <2> QED
    BY <2>1, <2>2 DEF Mem!TypeOK
<1>2. Mem!Waiting = {Owner} /\ members = {}
    BY DEF Mem!Init, Mem!Waiting, Mem!MembershipAssumption
<1>3. /\ IsFiniteSet({Owner}) /\ Cardinality({Owner}) = 1
      /\ IsFiniteSet({}) /\ Cardinality({}) = 0
    BY FS_Singleton, FS_EmptySet
<1>4. Seats \in Nat /\ Seats > 0
    BY DEF Mem!MembershipAssumption
<1> QED
    BY <1>1, <1>2, <1>3, <1>4 DEF MembershipInvariant

\* Nobody comes to wait or becomes a member.
LEMMA NobodyComes ==
    ASSUME Mem!MembershipAssumption, MembershipInvariant, Mem!TypeOK', revived => revived',
           members' \subseteq members, ~revived' => Mem!Waiting' \subseteq Mem!Waiting, IsFiniteSet(Mem!Waiting')
    PROVE  MembershipInvariant'
<1>1. /\ IsFiniteSet(members) /\ IsFiniteSet(Mem!Waiting) /\ Seats \in Nat
      /\ Cardinality(members) \in Nat /\ Cardinality(Mem!Waiting) \in Nat
    BY FS_CardinalityType DEF MembershipInvariant, Mem!MembershipAssumption
<1>2. /\ IsFiniteSet(members') /\ Cardinality(members') \in Nat /\ Cardinality(members') <= Cardinality(members)
    BY <1>1, FS_Subset, FS_CardinalityType
<1>3. ~revived' => Cardinality(Mem!Waiting') \in Nat /\ Cardinality(Mem!Waiting') <= Cardinality(Mem!Waiting)
    BY <1>1, FS_Subset, FS_CardinalityType
<1>4. ~revived' => Cardinality(members') + Cardinality(Mem!Waiting') <= Seats
    BY <1>1, <1>2, <1>3 DEF MembershipInvariant
<1> QED
    BY <1>2, <1>4 DEF MembershipInvariant

\* An expiry that is renewed: it was live, or the seats no longer hold.
LEMMA RenewedHolds ==
    ASSUME MembershipInvariant, NEW p \in MemPeople, invitation[p] = "pending", Mem!Renewed(p), invitation' = invitation
    PROVE  /\ IsFiniteSet(Mem!Waiting') /\ (~revived' => Mem!Waiting' \subseteq Mem!Waiting)
           /\ revived => revived'
           /\ live' \subseteq MemPeople /\ revived' \in BOOLEAN
<1>1. live' = live \cup {p} /\ revived' = (revived \/ p \notin live)
    BY DEF Mem!Renewed
<1>2. Mem!Waiting' = Mem!Waiting \cup {p}
    BY <1>1 DEF Mem!Waiting
<1>3. IsFiniteSet(Mem!Waiting')
    BY <1>2, FS_AddElement DEF MembershipInvariant
<1>4. ~revived' => Mem!Waiting' \subseteq Mem!Waiting
    BY <1>1, <1>2 DEF Mem!Waiting
<1> QED
    BY <1>1, <1>3, <1>4 DEF MembershipInvariant, Mem!TypeOK

LEMMA Accepted ==
    ASSUME Mem!MembershipAssumption, MembershipInvariant, NEW p \in MemPeople, Mem!Accept(p)
    PROVE  MembershipInvariant'
<1>1. Mem!TypeOK'
  <2>1. hook' \in BOOLEAN
    BY DEF Mem!Accept
  <2>2. {live', members', accounts'} \subseteq SUBSET MemPeople /\ {bound', approved', revived'} \subseteq BOOLEAN
    BY DEF MembershipInvariant, Mem!TypeOK, Mem!Accept
  <2>3. /\ run' \in Mem!Deliverable \cup {"sending_email", "accepted"}
        /\ courier' \in [Couriers -> {"idle", "claimed", "sent", "failed"}]
        /\ invitation' \in [MemPeople -> {"none", "pending", "accepted", "canceled"}]
        /\ sends' \in 0..MaxSends /\ memFaults' \in 0..MaxFaults
    BY DEF MembershipInvariant, Mem!TypeOK, Mem!Accept, Mem!counts
  <2> QED
    BY <2>1, <2>2, <2>3 DEF Mem!TypeOK
<1>2. p \in Mem!Waiting /\ members' = members \cup {p} /\ Mem!Waiting' = Mem!Waiting \ {p} /\ revived' = revived
    BY DEF Mem!Accept, Mem!Waiting, MembershipInvariant, Mem!TypeOK
<1>3. /\ IsFiniteSet(members) /\ IsFiniteSet(Mem!Waiting) /\ Seats \in Nat
      /\ Cardinality(members) \in Nat /\ Cardinality(Mem!Waiting) \in Nat
    BY FS_CardinalityType DEF MembershipInvariant, Mem!MembershipAssumption
<1>4. IsFiniteSet(members') /\ Cardinality(members') \in Nat /\ Cardinality(members') <= Cardinality(members) + 1
  <2>1. /\ IsFiniteSet(members \cup {p})
        /\ Cardinality(members \cup {p}) = IF p \in members THEN Cardinality(members) ELSE Cardinality(members) + 1
    BY <1>3, FS_AddElement
  <2> QED
    BY <1>2, <1>3, <2>1
<1>5. IsFiniteSet(Mem!Waiting') /\ Cardinality(Mem!Waiting') = Cardinality(Mem!Waiting) - 1
    BY <1>2, <1>3, FS_RemoveElement
<1> QED
    BY <1>1, <1>2, <1>3, <1>4, <1>5 DEF MembershipInvariant

LEMMA Invited ==
    ASSUME Mem!MembershipAssumption, MembershipInvariant, NEW p \in MemPeople, Mem!inviteWorkspaceMember(p)
    PROVE  MembershipInvariant'
<1>1. CASE invitation[p] = "pending" /\ Mem!Renewed(p) /\ UNCHANGED invitation
  <2>1. UNCHANGED <<members, accounts, run, bound, hook, courier, approved, sends, memFaults>>
    BY DEF Mem!inviteWorkspaceMember, Mem!owner, Mem!counts
  <2>2. Mem!TypeOK'
    BY <1>1, <2>1, RenewedHolds DEF MembershipInvariant, Mem!TypeOK
  <2> QED
    BY <1>1, <2>1, <2>2, RenewedHolds, NobodyComes
<1>2. CASE /\ invitation[p] # "pending" /\ ~Mem!Full
           /\ invitation' = [invitation EXCEPT ![p] = "pending"]
           /\ live' = live \cup {p} /\ UNCHANGED revived
  <2>1. UNCHANGED <<members, accounts, run, bound, hook, courier, approved, sends, memFaults>>
    BY DEF Mem!inviteWorkspaceMember, Mem!owner, Mem!counts
  <2>2. Mem!TypeOK'
    BY <1>2, <2>1 DEF MembershipInvariant, Mem!TypeOK
  <2>3. Mem!Waiting' = Mem!Waiting \cup {p}
    BY <1>2 DEF Mem!Waiting, MembershipInvariant, Mem!TypeOK
  <2>4. /\ IsFiniteSet(members) /\ IsFiniteSet(Mem!Waiting) /\ Seats \in Nat
        /\ Cardinality(members) \in Nat /\ Cardinality(Mem!Waiting) \in Nat
    BY FS_CardinalityType DEF MembershipInvariant, Mem!MembershipAssumption
  <2>5. ~(Cardinality(members) + Cardinality(Mem!Waiting) >= Seats)
    BY <1>2, MembershipSets DEF Mem!Full, Mem!Taken
  <2>6. IsFiniteSet(Mem!Waiting') /\ Cardinality(Mem!Waiting') \in Nat /\ Cardinality(Mem!Waiting') <= Cardinality(Mem!Waiting) + 1
    <3>1. /\ IsFiniteSet(Mem!Waiting \cup {p})
          /\ Cardinality(Mem!Waiting \cup {p}) = IF p \in Mem!Waiting THEN Cardinality(Mem!Waiting) ELSE Cardinality(Mem!Waiting) + 1
        BY <2>4, FS_AddElement
    <3> QED
        BY <2>3, <2>4, <3>1
  <2> QED
    BY <1>2, <2>1, <2>2, <2>4, <2>5, <2>6 DEF MembershipInvariant
<1> QED
    BY <1>1, <1>2 DEF Mem!inviteWorkspaceMember

\* A step that leaves the people alone.
LEMMA SamePeople ==
    ASSUME Mem!MembershipAssumption, MembershipInvariant, Mem!TypeOK', UNCHANGED Mem!people
    PROVE  MembershipInvariant'
<1>1. Mem!Waiting' = Mem!Waiting /\ members' = members /\ revived' = revived
    BY DEF Mem!people, Mem!Waiting
<1> QED
    BY <1>1 DEF MembershipInvariant

LEMMA Administered ==
    ASSUME Mem!MembershipAssumption, MembershipInvariant, NEW p \in MemPeople, Mem!WorkspaceAdmin(p) \/ Mem!PlatformAdmin(p)
    PROVE  MembershipInvariant'
<1> USE DEF Mem!owner, Mem!counts
<1>1. CASE Mem!inviteWorkspaceMember(p)
    BY <1>1, Invited
<1>2. CASE Mem!issueInvitationLink(p)
  <2>1. /\ UNCHANGED <<members, accounts, invitation, run, bound, hook, courier, approved, sends, memFaults>>
        /\ invitation[p] = "pending" /\ Mem!Renewed(p)
    BY <1>2 DEF Mem!issueInvitationLink
  <2>2. Mem!TypeOK'
    BY <2>1, RenewedHolds DEF MembershipInvariant, Mem!TypeOK
  <2> QED
    BY <2>1, <2>2, RenewedHolds, NobodyComes
<1>3. CASE Mem!cancelWorkspaceMemberInvitation(p)
  <2>1. Mem!TypeOK'
    BY <1>3 DEF Mem!cancelWorkspaceMemberInvitation, MembershipInvariant, Mem!TypeOK
  <2>2. Mem!Waiting' \subseteq Mem!Waiting /\ members' = members /\ revived' = revived
    BY <1>3 DEF Mem!cancelWorkspaceMemberInvitation, Mem!Waiting, MembershipInvariant, Mem!TypeOK
  <2>3. IsFiniteSet(Mem!Waiting')
    BY <2>2, FS_Subset DEF MembershipInvariant
  <2> QED
    BY <2>1, <2>2, <2>3, NobodyComes
<1>4. CASE Mem!removeWorkspaceMember(p)
  <2>1. Mem!TypeOK'
    BY <1>4 DEF Mem!removeWorkspaceMember, MembershipInvariant, Mem!TypeOK
  <2>2. Mem!Waiting' = Mem!Waiting /\ members' \subseteq members /\ revived' = revived
    BY <1>4 DEF Mem!removeWorkspaceMember, Mem!Waiting
  <2> QED
    BY <2>1, <2>2, NobodyComes DEF MembershipInvariant
<1> QED
    BY <1>1, <1>2, <1>3, <1>4 DEF Mem!WorkspaceAdmin, Mem!PlatformAdmin

LEMMA MembershipNext ==
    ASSUME Mem!MembershipAssumption, MembershipInvariant, [Mem!Next]_Mem!vars
    PROVE  MembershipInvariant'
<1>1. Mem!TypeOK /\ MaxSends \in Nat /\ MaxFaults \in Nat /\ Owner \in MemPeople
    BY DEF MembershipInvariant, Mem!MembershipAssumption
<1> USE DEF Mem!owner, Mem!counts, Mem!Fault, Mem!Deliverable
<1>2. ASSUME NEW c \in Couriers, Mem!ClaimDelivery(c) PROVE MembershipInvariant'
  <2>1. Mem!TypeOK'
    BY <1>1, <1>2 DEF Mem!ClaimDelivery, Mem!TypeOK, Mem!people
  <2> QED
    BY <1>2, <2>1, SamePeople DEF Mem!ClaimDelivery
<1>3. ASSUME NEW c \in Couriers, Mem!SendInvitation(c) PROVE MembershipInvariant'
  <2>1. courier' \in [Couriers -> {"idle", "claimed", "sent", "failed"}] /\ sends' \in 0..MaxSends /\ memFaults' \in 0..MaxFaults
        /\ UNCHANGED <<run, bound, hook, approved>>
    BY <1>1, <1>3 DEF Mem!SendInvitation, Mem!TypeOK
  <2>2. CASE invitation[Owner] = "pending" /\ Mem!Renewed(Owner) /\ UNCHANGED <<invitation, members, accounts>>
    <3>1. Mem!TypeOK'
        BY <1>1, <2>1, <2>2, RenewedHolds DEF Mem!TypeOK
    <3> QED
        BY <1>1, <2>2, <3>1, RenewedHolds, NobodyComes
  <2>3. CASE UNCHANGED Mem!people
    <3>1. Mem!TypeOK'
        BY <1>1, <2>1, <2>3 DEF Mem!TypeOK, Mem!people
    <3> QED
        BY <2>3, <3>1, SamePeople
  <2> QED
    BY <1>3, <2>2, <2>3 DEF Mem!SendInvitation
<1>4. ASSUME NEW c \in Couriers, Mem!RecordDelivery(c) PROVE MembershipInvariant'
  <2>1. Mem!TypeOK'
    BY <1>1, <1>4 DEF Mem!RecordDelivery, Mem!TypeOK, Mem!people
  <2> QED
    BY <1>4, <2>1, SamePeople DEF Mem!RecordDelivery
<1>5. ASSUME NEW c \in Couriers, Mem!CourierDies(c) PROVE MembershipInvariant'
  <2>1. Mem!TypeOK'
    BY <1>1, <1>5 DEF Mem!CourierDies, Mem!TypeOK, Mem!people
  <2> QED
    BY <1>5, <2>1, SamePeople DEF Mem!CourierDies
<1>6. CASE Mem!afterAcceptInvitation \/ Mem!reconcilePendingOwnerInvitations \/ Mem!Review
  <2>1. Mem!TypeOK'
    <3>1. CASE Mem!afterAcceptInvitation
      <4>1. hook' = FALSE /\ UNCHANGED <<courier, Mem!people, approved>>
        BY <3>1 DEF Mem!afterAcceptInvitation
      <4>2. /\ run' = run \/ run' = "accepted"
            /\ bound' = bound \/ bound' = TRUE
            /\ sends' = sends /\ memFaults' \in 0..MaxFaults
        BY <1>1, <3>1 DEF Mem!afterAcceptInvitation, Mem!reconcileAcceptedOwner, Mem!TypeOK
      <4> QED
        BY <1>1, <4>1, <4>2 DEF Mem!TypeOK, Mem!people
    <3>2. CASE Mem!reconcilePendingOwnerInvitations
        BY <1>1, <3>2 DEF Mem!reconcilePendingOwnerInvitations, Mem!reconcileAcceptedOwner, Mem!TypeOK, Mem!people
    <3>3. CASE Mem!Review
        BY <1>1, <3>3 DEF Mem!Review, Mem!TypeOK, Mem!people
    <3> QED
        BY <1>6, <3>1, <3>2, <3>3
  <2> QED
    BY <1>6, <2>1, SamePeople DEF Mem!afterAcceptInvitation, Mem!reconcilePendingOwnerInvitations, Mem!Review
<1>7. ASSUME NEW p \in MemPeople, Mem!createUser(p) PROVE MembershipInvariant'
  <2>1. Mem!TypeOK'
    BY <1>1, <1>7 DEF Mem!createUser, Mem!TypeOK
  <2>2. Mem!Waiting' = Mem!Waiting /\ members' = members /\ revived' = revived
    BY <1>7 DEF Mem!createUser, Mem!Waiting
  <2> QED
    BY <2>1, <2>2 DEF MembershipInvariant
<1>8. ASSUME NEW p \in MemPeople, Mem!Expire(p) PROVE MembershipInvariant'
  <2>1. Mem!TypeOK'
    BY <1>1, <1>8 DEF Mem!Expire, Mem!TypeOK
  <2>2. Mem!Waiting' \subseteq Mem!Waiting /\ members' = members /\ revived' = revived
    BY <1>8 DEF Mem!Expire, Mem!Waiting
  <2>3. IsFiniteSet(Mem!Waiting')
    BY <2>2, FS_Subset DEF MembershipInvariant
  <2> QED
    BY <2>1, <2>2, <2>3, NobodyComes
<1>9. CASE UNCHANGED Mem!vars
  <2>1. Mem!TypeOK' /\ UNCHANGED Mem!people
    BY <1>1, <1>9 DEF Mem!vars, Mem!TypeOK, Mem!people
  <2> QED
    BY <2>1, SamePeople
<1> QED
    BY <1>2, <1>3, <1>4, <1>5, <1>6, <1>7, <1>8, <1>9, Accepted, Administered DEF Mem!Next

(* Members and those who hold a live invitation fit in the seats           *)
(* (members/service.ts, invitation-link.ts).                               *)
THEOREM SeatsAreKept == Mem!MembershipAssumption => (Mem!Spec => [](Mem!TypeOK /\ Mem!SeatsHold))
<1> SUFFICES ASSUME Mem!MembershipAssumption PROVE Mem!Spec => [](Mem!TypeOK /\ Mem!SeatsHold)
    OBVIOUS
<1>1. Mem!Init => MembershipInvariant
    BY MembershipInit
<1>2. MembershipInvariant /\ [Mem!Next]_Mem!vars => MembershipInvariant'
    BY MembershipNext
<1>3. MembershipInvariant => Mem!TypeOK /\ Mem!SeatsHold
    BY MembershipSets DEF MembershipInvariant, Mem!SeatsHold, Mem!Taken
<1> QED
    BY <1>1, <1>2, <1>3, PTL DEF Mem!Spec

-----------------------------------------------------------------------------
\* Finite sets are the same inside and outside the instance.
LEMMA DomainsSets ==
    \A S : (Dom!IsFiniteSet(S) <=> IsFiniteSet(S)) /\ Dom!Cardinality(S) = Cardinality(S)
BY DEF Dom!IsFiniteSet, IsFiniteSet, Dom!Cardinality, Cardinality

(* A form under the lock is alone there, and what it was allowed it still  *)
(* is: names may go meanwhile, none is added.  Names that overlap have one *)
(* owner at most.                                                          *)
DomainsInvariant ==
    /\ Dom!TypeOK
    /\ \A f \in Forms : form[f].pc \in {"locked", "allowed"} => lock = f
    /\ \A f \in Forms : ~Dom!At(f, "idle") => /\ form[f].ws \in Workspaces
                                              /\ form[f].name \in Names
    /\ \A f \in Forms : Dom!At(f, "allowed") => Dom!Allowed(form[f].ws, form[f].name, form[f].limit)
    /\ \A m, n \in Names : <<m, n>> \in Under => \A v \in owner[m], w \in owner[n] : v = w
    /\ \A w \in Workspaces : IsFiniteSet(Dom!Of(w)) /\ Cardinality(Dom!Of(w)) <= 2

LEMMA DomainsInit == ASSUME Dom!DomainsAssumption, Dom!Init PROVE DomainsInvariant
<1> USE DEF Dom!Init, Dom!TypeOK, Dom!Idle
<1>1. Dom!TypeOK
    OBVIOUS
<1>2. \A w \in Workspaces : Dom!Of(w) = {}
    BY DEF Dom!Of
<1>3. \A w \in Workspaces : IsFiniteSet(Dom!Of(w)) /\ Cardinality(Dom!Of(w)) <= 2
    BY <1>2, FS_EmptySet
<1> QED
    BY <1>1, <1>3 DEF DomainsInvariant, Dom!At

\* What is allowed stays so when a workspace's names go.
LEMMA AllowedStays ==
    ASSUME DomainsInvariant, UNCHANGED form, owner' \in [Names -> SUBSET Workspaces],
           \A n \in Names : owner'[n] \subseteq owner[n], NEW f \in Forms, Dom!At(f, "allowed")
    PROVE  Dom!Allowed(form[f].ws, form[f].name, form[f].limit)'
<1>1. /\ form[f].ws \in Workspaces /\ form[f].name \in Names /\ form[f].limit \in 0..2
      /\ Dom!Allowed(form[f].ws, form[f].name, form[f].limit)
    BY DEF DomainsInvariant, Dom!At, Dom!TypeOK
<1>2. Dom!Of(form[f].ws)' \subseteq Dom!Of(form[f].ws) /\ IsFiniteSet(Dom!Of(form[f].ws))
    BY <1>1 DEF Dom!Of, DomainsInvariant
<1>3. /\ Cardinality(Dom!Of(form[f].ws)') <= Cardinality(Dom!Of(form[f].ws))
      /\ Cardinality(Dom!Of(form[f].ws)') \in Nat /\ Cardinality(Dom!Of(form[f].ws)) \in Nat
    BY <1>2, FS_Subset, FS_CardinalityType
<1>4. Cardinality(Dom!Of(form[f].ws)) < form[f].limit
    BY <1>1, DomainsSets DEF Dom!Allowed
<1>5. (Cardinality(Dom!Of(form[f].ws)) < form[f].limit)'
  <2> DEFINE before == Cardinality(Dom!Of(form[f].ws))
             after == Cardinality(Dom!Of(form[f].ws)')
  <2>1. before \in Nat /\ after \in Nat /\ after <= before /\ before < form[f].limit /\ form[f].limit \in Int
    BY <1>1, <1>3, <1>4
  <2>2. form[f].limit' = form[f].limit
    OBVIOUS
  <2> HIDE DEF before, after
  <2>3. after < form[f].limit'
    BY <2>1, <2>2
  <2> QED
    BY <2>3 DEF after
<1> QED
    BY <1>1, <1>5, DomainsSets DEF Dom!Allowed, Dom!Overlaps

LEMMA DomainsAdded ==
    ASSUME Dom!DomainsAssumption, DomainsInvariant, NEW f \in Forms, Dom!addDomain(f)
    PROVE  DomainsInvariant'
<1> DEFINE w == form[f].ws
           n == form[f].name
<1>1. /\ lock = f /\ w \in Workspaces /\ n \in Names /\ Dom!Allowed(w, n, form[f].limit)
      /\ form[f].limit \in 0..2 /\ f # Free
    BY DEF DomainsInvariant, Dom!addDomain, Dom!At, Dom!TypeOK, Dom!DomainsAssumption
<1>2. /\ form' = [form EXCEPT ![f] = Dom!Idle] /\ lock' = Free /\ domApproved' = domApproved
    BY DEF Dom!addDomain
<1>3. CASE owner' = owner
  <2>1. \A v \in Workspaces : Dom!Of(v)' = Dom!Of(v)
    BY <1>3 DEF Dom!Of
  <2>2. \A g \in Forms : ~Dom!At(g, "allowed")' /\ ~Dom!At(g, "locked")'
    BY <1>1, <1>2 DEF Dom!At, Dom!Idle, DomainsInvariant, Dom!TypeOK
  <2> QED
    BY <1>1, <1>2, <1>3, <2>1, <2>2 DEF DomainsInvariant, Dom!TypeOK, Dom!At, Dom!Idle
<1>4. CASE owner' = [owner EXCEPT ![n] = {w}] /\ owner[n] = {}
  <2>1. \A g \in Forms : ~Dom!At(g, "allowed")' /\ ~Dom!At(g, "locked")'
    BY <1>1, <1>2 DEF Dom!At, Dom!Idle, DomainsInvariant, Dom!TypeOK
  <2>2. \A m \in Names : Dom!Overlaps(m, n) => owner[m] \subseteq {w}
    BY <1>1 DEF Dom!Allowed
  <2>3. \A m, k \in Names : <<m, k>> \in Under => \A u \in owner'[m], v \in owner'[k] : u = v
    <3>1. \A m \in Names : owner'[m] = IF m = n THEN {w} ELSE owner[m]
        BY <1>1, <1>4 DEF DomainsInvariant, Dom!TypeOK
    <3>2. \A m \in Names : (<<m, n>> \in Under \/ <<n, m>> \in Under) => owner[m] \subseteq {w}
        BY <2>2 DEF Dom!Overlaps
    <3>3. \A m, k \in Names : <<m, k>> \in Under => \A u \in owner[m], v \in owner[k] : u = v
        BY DEF DomainsInvariant
    <3>4. \A m \in Names : \A u : u \in owner'[m] <=> IF m = n THEN u = w ELSE u \in owner[m]
        BY <3>1
    <3>5. \A m \in Names : \A u : (<<m, n>> \in Under \/ <<n, m>> \in Under) /\ u \in owner[m] => u = w
        BY <3>2
    <3> HIDE DEF w, n
    <3> SUFFICES ASSUME NEW m \in Names, NEW k \in Names, <<m, k>> \in Under,
                        NEW u \in owner'[m], NEW v \in owner'[k]
                 PROVE  u = v
        OBVIOUS
    <3>6. CASE m = n
      <4>1. u = w
        BY <3>4, <3>6
      <4>2. CASE k = n
        BY <3>4, <4>1, <4>2
      <4>3. CASE k # n
        <5>1. <<n, k>> \in Under /\ v \in owner[k]
            BY <3>4, <3>6, <4>3
        <5> QED
            BY <3>5, <4>1, <5>1
      <4> QED
        BY <4>2, <4>3
    <3>7. CASE m # n /\ k = n
        BY <3>4, <3>5, <3>7
    <3>8. CASE m # n /\ k # n
        BY <3>3, <3>4, <3>8
    <3> QED
        BY <3>6, <3>7, <3>8
  <2>4. \A v \in Workspaces : Dom!Of(v)' = IF v = w THEN Dom!Of(v) \cup {n} ELSE Dom!Of(v)
    <3>1. \A m \in Names : \A v : v \in owner'[m] <=> IF m = n THEN v = w ELSE v \in owner[m]
        BY <1>1, <1>4 DEF DomainsInvariant, Dom!TypeOK
    <3>2. \A v : v \notin owner[n]
        BY <1>4
    <3>3. n \in Names
        BY <1>1
    <3> HIDE DEF w, n
    <3> QED
        BY <3>1, <3>2, <3>3 DEF Dom!Of
  <2>5. IsFiniteSet(Dom!Of(w)) /\ Cardinality(Dom!Of(w)) \in Nat /\ Cardinality(Dom!Of(w)) < form[f].limit
    BY <1>1, FS_CardinalityType, DomainsSets DEF DomainsInvariant, Dom!Allowed
  <2>6. IsFiniteSet(Dom!Of(w) \cup {n}) /\ Cardinality(Dom!Of(w) \cup {n}) <= 2
    <3>1. /\ IsFiniteSet(Dom!Of(w) \cup {n})
          /\ Cardinality(Dom!Of(w) \cup {n}) = IF n \in Dom!Of(w) THEN Cardinality(Dom!Of(w)) ELSE Cardinality(Dom!Of(w)) + 1
        BY <2>5, FS_AddElement
    <3> DEFINE c == Cardinality(Dom!Of(w))
               d == Cardinality(Dom!Of(w) \cup {n})
    <3>2. (d = c \/ d = c + 1) /\ c \in Nat /\ c < form[f].limit /\ form[f].limit \in 0..2
        BY <1>1, <2>5, <3>1
    <3> HIDE DEF c, d
    <3>3. d <= 2
        BY <3>2
    <3> QED
        BY <3>1, <3>3 DEF d
  <2>7. \A v \in Workspaces : IsFiniteSet(Dom!Of(v)') /\ Cardinality(Dom!Of(v)') <= 2
    BY <2>4, <2>6 DEF DomainsInvariant
  <2>8. Dom!TypeOK'
    BY <1>1, <1>2, <1>4 DEF DomainsInvariant, Dom!TypeOK, Dom!Idle
  <2>9. \A g \in Forms : ~Dom!At(g, "idle")' => /\ form'[g].ws \in Workspaces
                                                /\ form'[g].name \in Names
    BY <1>1, <1>2 DEF DomainsInvariant, Dom!TypeOK, Dom!At, Dom!Idle
  <2> QED
    BY <2>1, <2>3, <2>7, <2>8, <2>9 DEF DomainsInvariant, Dom!At
<1> QED
    BY <1>3, <1>4 DEF Dom!addDomain

LEMMA DomainsPurged ==
    ASSUME Dom!DomainsAssumption, DomainsInvariant, NEW w \in Workspaces, Dom!Purged(w)
    PROVE  DomainsInvariant'
<1>1. /\ owner' = [n \in Names |-> owner[n] \ {w}] /\ UNCHANGED <<domApproved, form, lock>>
    BY DEF Dom!Purged
<1>2. owner' \in [Names -> SUBSET Workspaces] /\ \A n \in Names : owner'[n] \subseteq owner[n]
    BY <1>1 DEF DomainsInvariant, Dom!TypeOK
<1>3. Dom!TypeOK'
    BY <1>1, <1>2 DEF DomainsInvariant, Dom!TypeOK
<1>4. ASSUME NEW v \in Workspaces PROVE IsFiniteSet(Dom!Of(v)') /\ Cardinality(Dom!Of(v)') <= 2
  <2>1. Dom!Of(v)' \subseteq Dom!Of(v) /\ IsFiniteSet(Dom!Of(v)) /\ Cardinality(Dom!Of(v)) <= 2
    BY <1>2 DEF Dom!Of, DomainsInvariant
  <2> QED
    BY <2>1, FS_Subset, FS_CardinalityType
<1>5. \A f \in Forms : Dom!At(f, "allowed")' => Dom!Allowed(form[f].ws, form[f].name, form[f].limit)'
  <2> SUFFICES ASSUME NEW f \in Forms, Dom!At(f, "allowed") PROVE Dom!Allowed(form[f].ws, form[f].name, form[f].limit)'
    BY <1>1 DEF Dom!At
  <2> QED
    BY <1>1, <1>2, AllowedStays
<1> QED
    BY <1>1, <1>2, <1>3, <1>4, <1>5 DEF DomainsInvariant, Dom!At

LEMMA DomainsNext ==
    ASSUME Dom!DomainsAssumption, DomainsInvariant, [Dom!Next]_Dom!vars
    PROVE  DomainsInvariant'
<1> USE DEF Dom!DomainsAssumption
\* What a step says that changes no name's owner.
<1>1. ASSUME owner' = owner, Dom!TypeOK',
             \A f \in Forms : form'[f].pc \in {"locked", "allowed"} => lock' = f,
             \A f \in Forms : form'[f].pc # "idle" => form'[f].ws \in Workspaces /\ form'[f].name \in Names,
             \A f \in Forms : form'[f].pc = "allowed" => Dom!Allowed(form'[f].ws, form'[f].name, form'[f].limit)
      PROVE  DomainsInvariant'
    BY <1>1, DomainsSets DEF DomainsInvariant, Dom!At, Dom!Allowed, Dom!Of
<1>2. ASSUME NEW f \in Forms, NEW w \in Workspaces, NEW n \in Names, Dom!Submit(f, w, n) PROVE DomainsInvariant'
  <2>1. Dom!Limit(w) \in 0..2
    BY DEF Dom!Limit
  <2>2. Dom!TypeOK'
    BY <1>2, <2>1 DEF DomainsInvariant, Dom!TypeOK, Dom!Submit
  <2> QED
    BY <1>1, <1>2, <2>2 DEF DomainsInvariant, Dom!TypeOK, Dom!Submit, Dom!At
<1>3. ASSUME NEW f \in Forms, Dom!AcquireLock(f) PROVE DomainsInvariant'
    BY <1>1, <1>3 DEF DomainsInvariant, Dom!TypeOK, Dom!AcquireLock, Dom!At, Dom!Available
<1>4. ASSUME NEW f \in Forms, Dom!CheckNames(f) PROVE DomainsInvariant'
  <2>1. CASE Dom!Allowed(form[f].ws, form[f].name, form[f].limit)
    BY <1>1, <1>4, <2>1 DEF DomainsInvariant, Dom!TypeOK, Dom!CheckNames, Dom!At
  <2>2. CASE ~Dom!Allowed(form[f].ws, form[f].name, form[f].limit)
    BY <1>1, <1>4, <2>2 DEF DomainsInvariant, Dom!TypeOK, Dom!CheckNames, Dom!At, Dom!Idle
  <2> QED
    BY <2>1, <2>2
<1>5. ASSUME NEW f \in Forms, Dom!addDomain(f) PROVE DomainsInvariant'
    BY <1>5, DomainsAdded
<1>6. ASSUME NEW w \in Workspaces, Dom!ChangeStatus(w) PROVE DomainsInvariant'
    BY <1>1, <1>6 DEF DomainsInvariant, Dom!TypeOK, Dom!ChangeStatus, Dom!At
<1>7. ASSUME NEW w \in Workspaces, Dom!Purged(w) PROVE DomainsInvariant'
    BY <1>7, DomainsPurged
<1>8. CASE UNCHANGED Dom!vars
    BY <1>1, <1>8 DEF DomainsInvariant, Dom!TypeOK, Dom!vars, Dom!At
<1> QED
    BY <1>2, <1>3, <1>4, <1>5, <1>6, <1>7, <1>8 DEF Dom!Next

(* Two workspaces never get a name and one below it, and none a third      *)
(* domain (features/domains/actions.ts).                                   *)
THEOREM DomainsStayDisjoint == Dom!DomainsAssumption => (Dom!Spec => [](Dom!TypeOK /\ Dom!DomainsAreDisjoint))
<1> SUFFICES ASSUME Dom!DomainsAssumption PROVE Dom!Spec => [](Dom!TypeOK /\ Dom!DomainsAreDisjoint)
    OBVIOUS
<1>1. Dom!Init => DomainsInvariant
    BY DomainsInit
<1>2. DomainsInvariant /\ [Dom!Next]_Dom!vars => DomainsInvariant'
    BY DomainsNext
<1>3. DomainsInvariant => Dom!TypeOK /\ Dom!DomainsAreDisjoint
  <2> SUFFICES ASSUME DomainsInvariant PROVE Dom!TypeOK /\ Dom!DomainsAreDisjoint
    OBVIOUS
  <2>1. ASSUME NEW m \in Names, NEW n \in Names, <<m, n>> \in Under
        PROVE  Cardinality(owner[m] \cup owner[n]) <= 1
    <3>1. \A u, v \in owner[m] \cup owner[n] : u = v
        BY <2>1 DEF DomainsInvariant, Dom!DomainsAssumption
    <3>2. CASE owner[m] \cup owner[n] = {}
        BY <3>2, FS_EmptySet
    <3>3. ASSUME NEW u \in owner[m] \cup owner[n] PROVE Cardinality(owner[m] \cup owner[n]) <= 1
      <4> DEFINE S == owner[m] \cup owner[n]
      <4>1. S = {u} /\ Cardinality({u}) = 1
        BY <3>1, FS_Singleton
      <4> HIDE DEF S
      <4>2. Cardinality(S) <= 1
        BY <4>1
      <4> QED
        BY <4>2 DEF S
    <3> QED
        BY <3>2, <3>3
  <2> QED
    BY <2>1, DomainsSets DEF DomainsInvariant, Dom!DomainsAreDisjoint
<1> QED
    BY <1>1, <1>2, <1>3, PTL DEF Dom!Spec

-----------------------------------------------------------------------------
\* Finite sets are the same inside and outside the instance.
LEMMA ApplicationsSets ==
    \A S : (Apl!IsFiniteSet(S) <=> IsFiniteSet(S)) /\ Apl!Cardinality(S) = Cardinality(S)
BY DEF Apl!IsFiniteSet, IsFiniteSet, Apl!Cardinality, Cardinality

InHour(t)      == {f \in Apl!Rows : aplForm[f].now \in t..(t + Window)}
OfIn(a, t)     == {f \in InHour(t) : aplForm[f].ip = a}
SameIp(f)      == {g \in Apl!Since(f) : aplForm[g].ip = aplForm[f].ip}
Throttled      == \A t \in 0..MaxTime : /\ Cardinality(InHour(t)) <= Global
                                        /\ \A a \in Addresses : Cardinality(OfIn(a, t)) <= PerIp

(* Under the lock a submission is alone, so that what it counted holds     *)
(* until it inserts.                                                       *)
ApplicationsInvariant ==
    /\ Apl!TypeOK /\ Throttled /\ IsFiniteSet(Apl!Rows)
    /\ \A f \in AplForms : aplForm[f].pc \in {"locked", "refused", "counted"} => aplLock = {f}
    /\ \A f \in AplForms : Apl!At(f, "counted") => ~Apl!RateLimited(f)

LEMMA ApplicationsInit == ASSUME Apl!ApplicationsAssumption, Apl!Init PROVE ApplicationsInvariant
<1>1. Apl!TypeOK
    BY DEF Apl!Init, Apl!TypeOK, Apl!ApplicationsAssumption, Apl!Idle
<1>2. Apl!Rows = {}
    BY DEF Apl!Init, Apl!Rows, Apl!At, Apl!Idle
<1>3. \A t : InHour(t) = {} /\ \A a : OfIn(a, t) = {}
    BY <1>2 DEF InHour, OfIn
<1>4. IsFiniteSet(Apl!Rows) /\ Throttled
    BY <1>2, <1>3, FS_EmptySet DEF Throttled, Apl!ApplicationsAssumption
<1> QED
    BY <1>1, <1>4 DEF ApplicationsInvariant, Apl!Init, Apl!At, Apl!Idle

\* A step that changes no row, nor what a form that has counted knows.
LEMMA SameRows ==
    ASSUME ApplicationsInvariant, Apl!TypeOK',
           \A f \in AplForms : Apl!At(f, "inserted")' <=> Apl!At(f, "inserted"),
           \A f \in AplForms : Apl!At(f, "inserted") => aplForm'[f] = aplForm[f]
    PROVE  /\ Apl!Rows' = Apl!Rows /\ Throttled' /\ IsFiniteSet(Apl!Rows')
           /\ \A f \in AplForms : aplForm'[f] = aplForm[f] => (Apl!RateLimited(f)' <=> Apl!RateLimited(f))
<1>1. Apl!Rows' = Apl!Rows
    BY DEF Apl!Rows, Apl!At
<1>2. \A f \in Apl!Rows : aplForm'[f] = aplForm[f] /\ f \in AplForms
    BY DEF Apl!Rows
<1>3. \A t : InHour(t)' = InHour(t)
    BY <1>1, <1>2 DEF InHour
<1>4. \A t, a : OfIn(a, t)' = OfIn(a, t)
    BY <1>1, <1>2, <1>3 DEF OfIn, InHour
<1>5. ASSUME NEW f \in AplForms, aplForm'[f] = aplForm[f] PROVE Apl!RateLimited(f)' <=> Apl!RateLimited(f)
  <2>1. Apl!Since(f)' = Apl!Since(f)
    BY <1>1, <1>2, <1>5 DEF Apl!Since
  <2>2. {g \in Apl!Since(f) : aplForm[g].ip = aplForm[f].ip}' = {g \in Apl!Since(f) : aplForm[g].ip = aplForm[f].ip}
    BY <1>1, <1>2, <1>5, <2>1 DEF Apl!Since
  <2> QED
    BY <1>5, <2>1, <2>2 DEF Apl!RateLimited
<1> QED
    BY <1>1, <1>3, <1>4, <1>5 DEF ApplicationsInvariant, Throttled

\* Inserting f: the hours that get it have room.
LEMMA Inserted ==
    ASSUME Apl!ApplicationsAssumption, ApplicationsInvariant, NEW f \in AplForms, Apl!At(f, "counted"),
           aplForm' = [aplForm EXCEPT ![f].pc = "inserted"]
    PROVE  Throttled' /\ IsFiniteSet(Apl!Rows')
<1>1. /\ Apl!Rows' = Apl!Rows \cup {f} /\ f \notin Apl!Rows
      /\ \A g \in AplForms : aplForm'[g].now = aplForm[g].now /\ aplForm'[g].ip = aplForm[g].ip
      /\ \A g \in AplForms : aplForm[g].now \in Nat
      /\ f \in Apl!Rows' /\ Apl!Rows \subseteq AplForms
    BY DEF Apl!Rows, Apl!At, ApplicationsInvariant, Apl!TypeOK, Apl!ApplicationsAssumption
<1>2. IsFiniteSet(Apl!Rows')
    BY <1>1, FS_AddElement DEF ApplicationsInvariant
<1>3. ASSUME NEW S, S \subseteq Apl!Rows
      PROVE  /\ IsFiniteSet(S) /\ Cardinality(S) \in Nat /\ IsFiniteSet(S \cup {f})
             /\ Cardinality(S \cup {f}) <= Cardinality(S) + 1
             /\ \A T \in SUBSET S : Cardinality(T) \in Nat /\ Cardinality(T) <= Cardinality(S)
  <2>1. IsFiniteSet(S)
    BY <1>3, FS_Subset DEF ApplicationsInvariant
  <2> QED
    BY <2>1, FS_Subset, FS_AddElement, FS_CardinalityType
<1>4. /\ Cardinality(Apl!Since(f)) < Global
      /\ aplForm[f].ip # Unhashed => Cardinality(SameIp(f)) < PerIp
  <2>1. ~(Cardinality(Apl!Since(f)) >= Global) /\ (aplForm[f].ip # Unhashed => ~(Cardinality(SameIp(f)) >= PerIp))
    BY ApplicationsSets DEF ApplicationsInvariant, Apl!RateLimited, SameIp
  <2>2. Apl!Since(f) \subseteq Apl!Rows /\ SameIp(f) \subseteq Apl!Since(f)
    BY DEF Apl!Since, SameIp
  <2>3. Cardinality(Apl!Since(f)) \in Nat /\ Cardinality(SameIp(f)) \in Nat /\ Global \in Nat /\ PerIp \in Nat
    BY <1>3, <2>2 DEF Apl!ApplicationsAssumption
  <2> QED
    BY <2>1, <2>3
<1>5. ASSUME NEW t \in 0..MaxTime
      PROVE  /\ Cardinality(InHour(t)') <= Global
             /\ \A a \in Addresses : Cardinality(OfIn(a, t)') <= PerIp
  <2>1. t \in Int /\ Window \in Nat /\ Global \in Nat /\ PerIp \in Nat
    BY DEF Apl!ApplicationsAssumption
  <2>2. /\ Cardinality(InHour(t)) <= Global
        /\ \A a \in Addresses : Cardinality(OfIn(a, t)) <= PerIp
    BY DEF ApplicationsInvariant, Throttled
  <2>3. InHour(t) \subseteq Apl!Rows /\ \A a \in Addresses : OfIn(a, t) \subseteq InHour(t)
    BY DEF InHour, OfIn
  <2>4. CASE aplForm[f].now \notin t..(t + Window)
    <3>1. InHour(t)' = InHour(t)
        BY <1>1, <2>4 DEF InHour
    <3>2. \A a \in Addresses : OfIn(a, t)' = OfIn(a, t)
        BY <1>1, <3>1, <2>3 DEF OfIn
    <3> QED
        BY <2>2, <3>1, <3>2
  <2>5. CASE aplForm[f].now \in t..(t + Window)
    <3>1. InHour(t)' = InHour(t) \cup {f}
        BY <1>1, <2>5 DEF InHour
    <3>2. InHour(t) \subseteq Apl!Since(f) /\ Apl!Since(f) \subseteq Apl!Rows
        BY <1>1, <2>1, <2>5 DEF InHour, Apl!Since
    <3>3. Cardinality(InHour(t)') <= Global
      <4>1. /\ Cardinality(InHour(t) \cup {f}) <= Cardinality(InHour(t)) + 1
            /\ IsFiniteSet(InHour(t) \cup {f})
        BY <1>3, <2>3
      <4>2. /\ Cardinality(InHour(t)) <= Cardinality(Apl!Since(f))
            /\ Cardinality(InHour(t)) \in Nat /\ Cardinality(Apl!Since(f)) \in Nat
        BY <1>3, <3>2
      <4>3. Cardinality(InHour(t) \cup {f}) \in Nat
        BY <4>1, FS_CardinalityType
      <4> QED
        BY <1>4, <2>1, <3>1, <4>1, <4>2, <4>3
    <3>4. ASSUME NEW a \in Addresses PROVE Cardinality(OfIn(a, t)') <= PerIp
      <4>1. CASE aplForm[f].ip # a
        <5>1. OfIn(a, t)' = OfIn(a, t)
            BY <1>1, <2>3, <3>1, <4>1 DEF OfIn
        <5> QED
            BY <2>2, <5>1
      <4>2. CASE aplForm[f].ip = a
        <5>1. OfIn(a, t)' = OfIn(a, t) \cup {f}
            BY <1>1, <2>3, <3>1, <4>2 DEF OfIn
        <5>2. OfIn(a, t) \subseteq SameIp(f) /\ SameIp(f) \subseteq Apl!Rows /\ OfIn(a, t) \subseteq Apl!Rows
            BY <2>3, <3>2, <4>2 DEF OfIn, SameIp
        <5>3. a # Unhashed
            BY DEF Apl!ApplicationsAssumption
        <5>4. /\ Cardinality(OfIn(a, t) \cup {f}) <= Cardinality(OfIn(a, t)) + 1
              /\ IsFiniteSet(OfIn(a, t) \cup {f})
            BY <1>3, <5>2
        <5>5. /\ Cardinality(OfIn(a, t)) <= Cardinality(SameIp(f))
              /\ Cardinality(OfIn(a, t)) \in Nat /\ Cardinality(SameIp(f)) \in Nat
            BY <1>3, <5>2
        <5>6. Cardinality(OfIn(a, t) \cup {f}) \in Nat
            BY <5>4, FS_CardinalityType
        <5>7. Cardinality(SameIp(f)) < PerIp
            BY <1>4, <4>2, <5>3
        <5> QED
            BY <2>1, <5>1, <5>4, <5>5, <5>6, <5>7
      <4> QED
        BY <4>1, <4>2
    <3> QED
        BY <3>3, <3>4
  <2> QED
    BY <2>4, <2>5
<1> QED
    BY <1>2, <1>5 DEF Throttled

LEMMA ApplicationsNext ==
    ASSUME Apl!ApplicationsAssumption, ApplicationsInvariant, [Apl!Next]_Apl!vars
    PROVE  ApplicationsInvariant'
<1>1. CASE Apl!Tick
  <2>1. Apl!TypeOK'
    BY <1>1 DEF Apl!Tick, ApplicationsInvariant, Apl!TypeOK, Apl!ApplicationsAssumption
  <2> QED
    BY <1>1, <2>1, SameRows DEF Apl!Tick, ApplicationsInvariant, Apl!At
<1>2. ASSUME NEW f \in AplForms, NEW ip \in Addresses \cup {Unhashed}, Apl!Submit(f, ip) PROVE ApplicationsInvariant'
  <2>1. Apl!TypeOK'
    BY <1>2 DEF Apl!Submit, ApplicationsInvariant, Apl!TypeOK
  <2>2. \A g \in AplForms : aplForm'[g] = IF g = f THEN [pc |-> "waiting", ip |-> ip, now |-> clock] ELSE aplForm[g]
    BY <1>2 DEF Apl!Submit, ApplicationsInvariant, Apl!TypeOK
  <2>3. Apl!At(f, "idle") /\ aplLock' = aplLock
    BY <1>2 DEF Apl!Submit
  <2> QED
    BY <2>1, <2>2, <2>3, SameRows DEF ApplicationsInvariant, Apl!At
<1>3. ASSUME NEW f \in AplForms, Apl!AcquireLock(f) PROVE ApplicationsInvariant'
  <2>1. Apl!TypeOK'
    BY <1>3 DEF Apl!AcquireLock, ApplicationsInvariant, Apl!TypeOK
  <2>2. /\ \A g \in AplForms : g # f => aplForm'[g] = aplForm[g]
        /\ aplForm'[f].pc = "locked" /\ Apl!At(f, "waiting") /\ aplLock = {} /\ aplLock' = {f}
    BY <1>3 DEF Apl!AcquireLock, ApplicationsInvariant, Apl!TypeOK, Apl!Available
  <2> QED
    BY <2>1, <2>2, SameRows DEF ApplicationsInvariant, Apl!At
<1>4. ASSUME NEW f \in AplForms, Apl!Count(f) PROVE ApplicationsInvariant'
  <2>1. Apl!TypeOK'
    BY <1>4 DEF Apl!Count, ApplicationsInvariant, Apl!TypeOK
  <2>2. /\ \A g \in AplForms : g # f => aplForm'[g] = aplForm[g]
        /\ aplForm'[f].pc = IF Apl!RateLimited(f) THEN "refused" ELSE "counted"
        /\ aplForm'[f].ip = aplForm[f].ip /\ aplForm'[f].now = aplForm[f].now
        /\ Apl!At(f, "locked") /\ aplLock' = aplLock
    BY <1>4 DEF Apl!Count, ApplicationsInvariant, Apl!TypeOK
  <2>3. Apl!Rows' = Apl!Rows /\ \A g \in AplForms : aplForm'[g].ip = aplForm[g].ip /\ aplForm'[g].now = aplForm[g].now
    BY <2>2 DEF Apl!Rows, Apl!At
  <2>4. Apl!Since(f)' = Apl!Since(f) /\ Apl!Since(f) \subseteq AplForms
    BY <2>3 DEF Apl!Since, Apl!Rows
  <2>5. {g \in Apl!Since(f) : aplForm[g].ip = aplForm[f].ip}' = {g \in Apl!Since(f) : aplForm[g].ip = aplForm[f].ip}
    BY <2>3, <2>4
  <2>6. Apl!RateLimited(f)' <=> Apl!RateLimited(f)
    BY <2>3, <2>4, <2>5 DEF Apl!RateLimited
  <2>7. ASSUME NEW g \in AplForms, g # f PROVE Apl!At(g, "counted")' => ~Apl!RateLimited(g)'
    BY <2>1, <2>2, <2>7, SameRows DEF ApplicationsInvariant, Apl!At
  <2> QED
    BY <2>1, <2>2, <2>6, <2>7, SameRows DEF ApplicationsInvariant, Apl!At
<1>5. ASSUME NEW f \in AplForms, Apl!recordBetaApplication(f) PROVE ApplicationsInvariant'
  <2>1. /\ aplLock = {f} /\ aplLock' = {} /\ aplForm[f].pc \in {"refused", "counted"} /\ UNCHANGED <<reviewed, clock>>
    BY <1>5 DEF Apl!recordBetaApplication, ApplicationsInvariant
  <2>2. \A g \in AplForms : aplForm[g].pc \in {"locked", "refused", "counted"} => g = f
    BY <2>1 DEF ApplicationsInvariant
  <2>3. CASE Apl!At(f, "counted") /\ aplForm' = [aplForm EXCEPT ![f].pc = "inserted"]
    <3>1. Apl!TypeOK'
        BY <2>1, <2>3 DEF ApplicationsInvariant, Apl!TypeOK
    <3>2. \A g \in AplForms : aplForm'[g].pc \notin {"locked", "refused", "counted"}
        BY <2>2, <2>3 DEF ApplicationsInvariant, Apl!TypeOK
    <3> QED
        BY <2>3, <3>1, <3>2, Inserted DEF ApplicationsInvariant, Apl!At
  <2>4. CASE aplForm' = [aplForm EXCEPT ![f] = Apl!Idle]
    <3>1. Apl!TypeOK'
        BY <2>1, <2>4 DEF ApplicationsInvariant, Apl!TypeOK, Apl!Idle, Apl!ApplicationsAssumption
    <3>2. \A g \in AplForms : aplForm'[g] = IF g = f THEN Apl!Idle ELSE aplForm[g]
        BY <2>4 DEF ApplicationsInvariant, Apl!TypeOK
    <3>3. \A g \in AplForms : aplForm'[g].pc \notin {"locked", "refused", "counted"}
        BY <2>2, <3>2 DEF Apl!Idle
    <3>4. \A g \in AplForms : Apl!At(g, "inserted")' <=> Apl!At(g, "inserted")
        BY <2>1, <3>2 DEF Apl!At, Apl!Idle
    <3>5. \A g \in AplForms : Apl!At(g, "inserted") => aplForm'[g] = aplForm[g]
        BY <2>1, <3>2 DEF Apl!At
    <3> QED
        BY <3>1, <3>3, <3>4, <3>5, SameRows DEF ApplicationsInvariant, Apl!At
  <2> QED
    BY <1>5, <2>3, <2>4 DEF Apl!recordBetaApplication
<1>6. ASSUME NEW f \in AplForms, NEW r \in Reviewers, Apl!markBetaApplicationReviewed(f, r) PROVE ApplicationsInvariant'
  <2>1. Apl!TypeOK'
    BY <1>6 DEF Apl!markBetaApplicationReviewed, ApplicationsInvariant, Apl!TypeOK
  <2> QED
    BY <1>6, <2>1, SameRows DEF Apl!markBetaApplicationReviewed, ApplicationsInvariant, Apl!At
<1>7. CASE UNCHANGED Apl!vars
  <2>1. Apl!TypeOK'
    BY <1>7 DEF Apl!vars, ApplicationsInvariant, Apl!TypeOK
  <2> QED
    BY <1>7, <2>1, SameRows DEF Apl!vars, ApplicationsInvariant, Apl!At
<1> QED
    BY <1>1, <1>2, <1>3, <1>4, <1>5, <1>6, <1>7 DEF Apl!Next

(* No hour holds more applications than the limits, however long a form    *)
(* waits for the lock (features/applications).                             *)
THEOREM HoursAreThrottled == Apl!ApplicationsAssumption => (Apl!Spec => [](Apl!TypeOK /\ Apl!ThrottledInAnyWindow))
<1> SUFFICES ASSUME Apl!ApplicationsAssumption PROVE Apl!Spec => [](Apl!TypeOK /\ Apl!ThrottledInAnyWindow)
    OBVIOUS
<1>1. Apl!Init => ApplicationsInvariant
    BY ApplicationsInit
<1>2. ApplicationsInvariant /\ [Apl!Next]_Apl!vars => ApplicationsInvariant'
    BY ApplicationsNext
<1>3. ApplicationsInvariant => Apl!TypeOK /\ Apl!ThrottledInAnyWindow
    BY ApplicationsSets DEF ApplicationsInvariant, Throttled, Apl!ThrottledInAnyWindow, InHour, OfIn
<1> QED
    BY <1>1, <1>2, <1>3, PTL DEF Apl!Spec

(* An application keeps its first reviewer (features/applications).        *)
THEOREM FirstReviewersAreKept == Apl!ApplicationsAssumption => (Apl!Spec => [][Apl!FirstReviewerKept]_Apl!vars)
<1> SUFFICES ASSUME Apl!ApplicationsAssumption PROVE Apl!Spec => [][Apl!FirstReviewerKept]_Apl!vars
    OBVIOUS
<1>1. Apl!TypeOK /\ [Apl!Next]_Apl!vars => [Apl!FirstReviewerKept]_Apl!vars
  <2> SUFFICES ASSUME Apl!TypeOK, Apl!Next, NEW f \in AplForms, reviewed[f] # Unhashed
               PROVE  reviewed'[f] = reviewed[f]
    BY DEF Apl!FirstReviewerKept
  <2>1. ASSUME NEW g \in AplForms, NEW r \in Reviewers, Apl!markBetaApplicationReviewed(g, r)
        PROVE  reviewed'[f] = reviewed[f]
    BY <2>1 DEF Apl!markBetaApplicationReviewed, Apl!StillNew, Apl!TypeOK
  <2>2. CASE UNCHANGED reviewed
    BY <2>2
  <2> QED
    BY <2>1, <2>2 DEF Apl!Next, Apl!Tick, Apl!Submit, Apl!AcquireLock, Apl!Count, Apl!recordBetaApplication
<1> QED
    BY <1>1, HoursAreThrottled, PTL DEF Apl!Spec

-----------------------------------------------------------------------------
\* Finite sets are the same inside and outside the instance.
LEMMA EndpointsSets ==
    \A S : (End!IsFiniteSet(S) <=> IsFiniteSet(S)) /\ End!Cardinality(S) = Cardinality(S)
BY DEF End!IsFiniteSet, IsFiniteSet, End!Cardinality, Cardinality

Entry == [what : End!Operations, at : 0..MaxTime, seen : 0..MaxLog]

SwitchCount(n) == Cardinality({i \in 1..n : log[i].what \in End!Switches})

(* Whoever switches has the row's lock, and what was read there is still   *)
(* so; a request that goes on to test found none within the interval; an    *)
(* endpoint that exists was not deleted.                                   *)
EndpointsInvariant ==
    /\ End!TypeOK
    /\ \A a \in Actions : action[a].pc = "toggling" =>
          endLock = a /\ endpoint.exists /\ action[a].was = endpoint.enabled
    /\ \A a \in Actions : action[a].pc = "testing" =>
          /\ action[a].seen <= Len(log)
          /\ \A i \in DOMAIN log : log[i].what = "webhook.tested" /\ i <= action[a].seen => log[i].at <= now - Interval
    /\ \A i \in DOMAIN log : log[i].what \in End!Switches =>
          log[i].what = IF SwitchCount(i) % 2 = 1 THEN "webhook.disabled" ELSE "webhook.enabled"
    /\ endpoint.exists => /\ log # <<>> /\ \A i \in DOMAIN log : log[i].what # "webhook.deleted"
                          /\ endpoint.enabled <=> SwitchCount(Len(log)) % 2 = 0
                          /\ \E a \in Actions : known[a] = endpoint.secret
    /\ \A i, j \in DOMAIN log : i < j =>
         /\ log[i].what = "webhook.deleted" => log[j].what = "webhook.tested"
         /\ log[i].what = "webhook.tested" /\ log[j].what = "webhook.tested" /\ i <= log[j].seen
              => log[j].at - log[i].at >= Interval

LEMMA SwitchCountType == ASSUME NEW n \in Nat PROVE SwitchCount(n) \in Nat /\ IsFiniteSet({i \in 1..n : log[i].what \in End!Switches})
<1>1. IsFiniteSet(1..n)
    BY FS_Interval
<1>2. IsFiniteSet({i \in 1..n : log[i].what \in End!Switches})
    BY <1>1, FS_Subset
<1> QED
    BY <1>2, FS_CardinalityType DEF SwitchCount

LEMMA Entries ==
    ASSUME End!EndpointsAssumption, End!TypeOK
    PROVE  /\ log \in Seq(Entry) /\ Len(log) \in Nat /\ DOMAIN log = 1..Len(log)
           /\ \A i \in DOMAIN log : log[i] \in Entry /\ log[i].at \in Nat
           /\ Interval \in Nat /\ Interval > 0 /\ MaxTime \in Nat /\ MaxLog \in Nat /\ now \in Nat
<1>1. Interval \in Nat /\ Interval > 0 /\ MaxTime \in Nat /\ MaxLog \in Nat
    BY DEF End!EndpointsAssumption
<1>2. log \in Seq(Entry) /\ now \in Nat
    BY <1>1 DEF End!TypeOK, Entry
<1>3. Len(log) \in Nat /\ DOMAIN log = 1..Len(log)
    BY <1>2, LenProperties
<1>4. \A i \in 1..Len(log) : log[i] \in Entry
    BY <1>2, ElementOfSeq
<1>5. \A e \in Entry : e.at \in Nat
    BY <1>1 DEF Entry
<1> QED
    BY <1>1, <1>2, <1>3, <1>4, <1>5

\* The trail with one more operation.
LEMMA Audited ==
    ASSUME End!EndpointsAssumption, End!TypeOK, NEW what \in End!Operations, NEW seen \in 0..MaxLog, End!Audit(what, seen)
    PROVE  /\ log' \in Seq(Entry) /\ Len(log') = Len(log) + 1 /\ Len(log') <= MaxLog
           /\ DOMAIN log = 1..Len(log) /\ DOMAIN log' = 1..(Len(log) + 1) /\ Len(log) \in Nat
           /\ \A i \in DOMAIN log : log'[i] = log[i] /\ i < Len(log')
           /\ log'[Len(log')] = [what |-> what, at |-> now, seen |-> seen]
           /\ \A i \in DOMAIN log' : i = Len(log') \/ i \in DOMAIN log
           /\ \A i \in DOMAIN log : SwitchCount(i)' = SwitchCount(i)
           /\ SwitchCount(Len(log))' = IF what \in End!Switches THEN SwitchCount(Len(log)) + 1 ELSE SwitchCount(Len(log))
<1> DEFINE e == [what |-> what, at |-> now, seen |-> seen]
<1>1. log \in Seq(Entry) /\ e \in Entry /\ log' = Append(log, e) /\ Len(log) < MaxLog /\ MaxLog \in Nat
    BY DEF End!TypeOK, Entry, End!Audit, End!EndpointsAssumption
<1>2. Len(log) \in Nat /\ DOMAIN log = 1..Len(log)
    BY <1>1, LenProperties
<1>3. /\ log' \in Seq(Entry) /\ Len(log') = Len(log) + 1
      /\ \A i \in 1..Len(log) : log'[i] = log[i]
      /\ log'[Len(log) + 1] = e
    BY <1>1, AppendProperties
<1>4. DOMAIN log' = 1..(Len(log) + 1)
    BY <1>3, LenProperties
<1>5. ASSUME NEW n \in 0..Len(log) PROVE SwitchCount(n)' = SwitchCount(n)
  <2>1. \A i \in 1..n : log'[i] = log[i]
    BY <1>2, <1>3
  <2>2. {i \in 1..n : log[i].what \in End!Switches}' = {i \in 1..n : log[i].what \in End!Switches}
    BY <2>1
  <2> QED
    BY <2>2 DEF SwitchCount
<1>6. SwitchCount(Len(log))' = IF what \in End!Switches THEN SwitchCount(Len(log)) + 1 ELSE SwitchCount(Len(log))
  <2> DEFINE n == Len(log)
             S == {i \in 1..n : log[i].what \in End!Switches}
             T == {i \in 1..(n + 1) : log'[i].what \in End!Switches}
  <2>1. IsFiniteSet(S) /\ (n + 1) \notin S
    BY <1>2, SwitchCountType
  <2>2. T = IF what \in End!Switches THEN S \cup {n + 1} ELSE S
    BY <1>2, <1>3
  <2>3. Cardinality(T) = IF what \in End!Switches THEN Cardinality(S) + 1 ELSE Cardinality(S)
    <3> HIDE DEF S, T
    <3> QED
        BY <2>1, <2>2, FS_AddElement
  <2>4. Len(log') = n + 1
    BY <1>3
  <2> QED
    BY <2>3, <2>4 DEF SwitchCount
<1> QED
    BY <1>1, <1>2, <1>3, <1>4, <1>5, <1>6

\* A step that appends nothing, in terms of what the invariant needs.
LEMMA SameTrail ==
    ASSUME End!EndpointsAssumption, EndpointsInvariant, End!TypeOK', log' = log, now' = now,
           \A a \in Actions : action'[a].pc = "toggling" =>
               endLock' = a /\ endpoint'.exists /\ action'[a].was = endpoint'.enabled,
           \A a \in Actions : action'[a].pc = "testing" =>
               \/ action[a].pc = "testing" /\ action'[a] = action[a]
               \/ action'[a].seen <= Len(log) /\ ~End!TooSoon,
           endpoint' = endpoint, known' = known
    PROVE  EndpointsInvariant'
<1>1. \A n : SwitchCount(n)' = SwitchCount(n)
    BY DEF SwitchCount
<1>2. \A a \in Actions : action'[a].pc = "testing" =>
         /\ action'[a].seen <= Len(log')
         /\ \A i \in DOMAIN log' : log'[i].what = "webhook.tested" /\ i <= action'[a].seen => log'[i].at <= now' - Interval
  <2>1. ASSUME ~End!TooSoon, NEW i \in DOMAIN log, log[i].what = "webhook.tested" PROVE log[i].at <= now - Interval
    <3>1. ~(log[i].at > now - Interval)
        BY <2>1 DEF End!TooSoon, End!Recent
    <3>2. log[i].at \in Int /\ now \in Int /\ Interval \in Int
        BY <2>1, Entries DEF EndpointsInvariant
    <3> QED
        BY <3>1, <3>2
  <2> QED
    BY <2>1 DEF EndpointsInvariant
<1> QED
    BY <1>1, <1>2 DEF EndpointsInvariant

LEMMA EndpointsInit == ASSUME End!EndpointsAssumption, End!Init PROVE EndpointsInvariant
<1>1. log = <<>> /\ DOMAIN log = {} /\ Len(log) = 0
    BY EmptySeq DEF End!Init
<1>2. End!TypeOK
    BY <1>1 DEF End!Init, End!TypeOK, End!EndpointsAssumption, End!Idle
<1> QED
    BY <1>1, <1>2 DEF End!Init, EndpointsInvariant, End!Idle

ActionTypes == [Actions -> [pc : {"idle", "toggling", "testing"}, was : BOOLEAN, seen : 0..MaxLog]]

LEMMA Parity == ASSUME NEW k \in Nat PROVE (k + 1) % 2 = 0 <=> k % 2 # 0
OBVIOUS

\* A step that appends an operation, in terms of what the invariant needs.
LEMMA TrailGrows ==
    ASSUME End!EndpointsAssumption, EndpointsInvariant, NEW a \in Actions, NEW what \in End!Operations,
           NEW seen \in 0..MaxLog, End!Audit(what, seen), now' = now,
           endpoint' \in [exists : BOOLEAN, enabled : BOOLEAN, secret : Nat], endLock' \in Actions \cup {End!Nobody},
           action' \in ActionTypes, known' \in [Actions -> Nat],
           \A b \in Actions : action'[b].pc = "toggling" =>
               endLock' = b /\ endpoint'.exists /\ action'[b].was = endpoint'.enabled,
           \A b \in Actions : action'[b].pc = "testing" => action[b].pc = "testing" /\ action'[b] = action[b],
           what = "webhook.tested" => action[a].pc = "testing" /\ seen = action[a].seen,
           what # "webhook.tested" => endpoint.exists \/ log = <<>>,
           what \in End!Switches => /\ endpoint.exists /\ endpoint'.enabled = ~endpoint.enabled
                                    /\ what = IF endpoint.enabled THEN "webhook.disabled" ELSE "webhook.enabled",
           endpoint'.exists => /\ what # "webhook.deleted"
                               /\ endpoint.exists \/ (log = <<>> /\ endpoint'.enabled)
                               /\ what \notin End!Switches /\ endpoint.exists => endpoint'.enabled = endpoint.enabled
                               /\ \E b \in Actions : known'[b] = endpoint'.secret,
           log = <<>> => what \notin End!Switches
    PROVE  EndpointsInvariant'
<1> DEFINE n == Len(log)
           c == SwitchCount(n)
           m == n + 1
<1>1. End!TypeOK /\ Interval \in Nat /\ Interval > 0 /\ now \in Nat /\ log \in Seq(Entry)
  <2>1. End!TypeOK
    BY DEF EndpointsInvariant
  <2> QED
    BY <2>1, Entries
<1>2. /\ log' \in Seq(Entry) /\ Len(log') = m /\ Len(log') <= MaxLog
      /\ DOMAIN log = 1..n /\ DOMAIN log' = 1..m /\ n \in Nat
      /\ \A i \in 1..n : log'[i] = log[i] /\ i < m
      /\ log'[m].what = what /\ log'[m].seen = seen /\ log'[m].at = now
      /\ \A i \in 1..n : SwitchCount(i)' = SwitchCount(i)
      /\ SwitchCount(Len(log))' = IF what \in End!Switches THEN c + 1 ELSE c
  <2>1. /\ log'[Len(log')] = [what |-> what, at |-> now, seen |-> seen]
        /\ Len(log') = m /\ DOMAIN log = 1..n /\ DOMAIN log' = 1..m /\ n \in Nat
        /\ log' \in Seq(Entry) /\ Len(log') <= MaxLog
    BY <1>1, Audited
  <2>2. /\ \A i \in DOMAIN log : log'[i] = log[i] /\ i < Len(log')
        /\ \A i \in DOMAIN log : SwitchCount(i)' = SwitchCount(i)
    BY <1>1, Audited
  <2>3. SwitchCount(Len(log))' = IF what \in End!Switches THEN c + 1 ELSE c
    BY <1>1, Audited
  <2>4. log'[m] = [what |-> what, at |-> now, seen |-> seen]
    BY <2>1
  <2>5. log'[m].what = what /\ log'[m].seen = seen /\ log'[m].at = now
    BY <2>4
  <2>6. \A i \in 1..n : log'[i] = log[i] /\ i < m
    BY <2>1, <2>2
  <2> QED
    BY <2>1, <2>2, <2>3, <2>5, <2>6
<1>3. End!TypeOK'
    BY <1>1, <1>2 DEF End!TypeOK, Entry, ActionTypes
<1>4. \A i \in 1..n : log[i].at \in Nat
    BY <1>1, <1>2, Entries
<1>5. \A i \in 1..m : i = m \/ i \in 1..n
    BY <1>2
<1>6. c \in Nat
    BY <1>2, SwitchCountType
<1>7. \A b \in Actions : action'[b].pc = "testing" =>
          /\ action'[b].seen <= m
          /\ \A i \in 1..m : log'[i].what = "webhook.tested" /\ i <= action'[b].seen => log'[i].at <= now' - Interval
  <2> SUFFICES ASSUME NEW b \in Actions, action'[b].pc = "testing"
               PROVE  /\ action'[b].seen <= m
                      /\ \A i \in 1..m : log'[i].what = "webhook.tested" /\ i <= action'[b].seen => log'[i].at <= now' - Interval
    OBVIOUS
  <2>1. action[b].pc = "testing" /\ action'[b] = action[b] /\ action[b].seen \in Nat
    BY <1>1 DEF End!TypeOK, End!EndpointsAssumption
  <2>2. /\ action[b].seen <= n
        /\ \A i \in 1..n : log[i].what = "webhook.tested" /\ i <= action[b].seen => log[i].at <= now - Interval
    BY <1>2, <2>1 DEF EndpointsInvariant
  <2>3. n \in Nat /\ ~(m <= action[b].seen)
    BY <1>2, <2>1, <2>2
  <2> QED
    BY <1>2, <1>5, <2>1, <2>2, <2>3
<1>8. log = <<>> => c = 0
  <2> SUFFICES ASSUME log = <<>> PROVE c = 0
    OBVIOUS
  <2>1. {i \in 1..n : log[i].what \in End!Switches} = {}
    BY EmptySeq
  <2> QED
    BY <2>1, FS_EmptySet DEF SwitchCount
<1>9. ASSUME NEW i \in 1..m, log'[i].what \in End!Switches
      PROVE  log'[i].what = IF SwitchCount(i)' % 2 = 1 THEN "webhook.disabled" ELSE "webhook.enabled"
  <2>1. CASE i \in 1..n
    BY <1>2, <1>9, <2>1 DEF EndpointsInvariant
  <2>2. CASE i = m
    <3>1. SwitchCount(i)' = c + 1 /\ what \in End!Switches
        BY <1>2, <1>9, <2>2
    <3>2. endpoint.exists /\ (endpoint.enabled <=> c % 2 = 0)
        BY <3>1 DEF EndpointsInvariant
    <3> HIDE DEF c
    <3>3. (c + 1) % 2 = 1 <=> c % 2 = 0
        BY <1>6
    <3> QED
        BY <1>2, <2>2, <3>1, <3>2, <3>3
  <2> QED
    BY <1>5, <2>1, <2>2
<1>10. endpoint'.exists => endpoint'.enabled <=> SwitchCount(Len(log))' % 2 = 0
  <2> SUFFICES ASSUME endpoint'.exists PROVE endpoint'.enabled <=> SwitchCount(Len(log))' % 2 = 0
    OBVIOUS
  <2>1. CASE endpoint.exists
    <3>1. endpoint.enabled <=> c % 2 = 0
        BY <2>1 DEF EndpointsInvariant
    <3>2. endpoint.enabled \in BOOLEAN /\ endpoint'.enabled \in BOOLEAN
        BY <1>1 DEF End!TypeOK
    <3> HIDE DEF c
    <3>3. (c + 1) % 2 = 0 <=> c % 2 # 0
        BY <1>6, Parity
    <3>4. CASE what \in End!Switches
        BY <1>2, <3>1, <3>2, <3>3, <3>4
    <3>5. CASE what \notin End!Switches
        BY <1>2, <2>1, <3>1, <3>5
    <3> QED
        BY <3>4, <3>5
  <2>2. CASE ~endpoint.exists
    <3>1. log = <<>> /\ endpoint'.enabled /\ c = 0 /\ what \notin End!Switches
        BY <1>8, <2>2
    <3> QED
        BY <1>2, <3>1
  <2> QED
    BY <2>1, <2>2
<1>11. ASSUME endpoint'.exists
       PROVE  log' # <<>> /\ \A i \in 1..m : log'[i].what # "webhook.deleted"
  <2>1. \A i \in 1..n : log[i].what # "webhook.deleted"
    BY <1>2, <1>11, EmptySeq DEF EndpointsInvariant
  <2> QED
    BY <1>2, <1>5, <1>11, <2>1, EmptySeq
<1>12. ASSUME NEW i \in 1..m, NEW j \in 1..m, i < j
       PROVE  /\ log'[i].what = "webhook.deleted" => log'[j].what = "webhook.tested"
              /\ log'[i].what = "webhook.tested" /\ log'[j].what = "webhook.tested" /\ i <= log'[j].seen
                   => log'[j].at - log'[i].at >= Interval
  <2>1. i \in 1..n
    BY <1>2, <1>12
  <2>2. CASE j \in 1..n
    BY <1>2, <1>12, <2>1, <2>2 DEF EndpointsInvariant
  <2>3. CASE j = m
    <3>1. log[i].what = "webhook.deleted" => what = "webhook.tested"
        BY <1>2, <2>1, EmptySeq DEF EndpointsInvariant
    <3>2. what = "webhook.tested" /\ log[i].what = "webhook.tested" /\ i <= seen => log[i].at <= now - Interval
        BY <1>2, <2>1 DEF EndpointsInvariant
    <3>3. log[i].at \in Nat /\ log'[i] = log[i]
        BY <1>2, <1>4, <2>1
    <3> QED
        BY <1>1, <1>2, <2>3, <3>1, <3>2, <3>3
  <2> QED
    BY <1>5, <2>2, <2>3
<1> QED
    BY <1>2, <1>3, <1>7, <1>9, <1>10, <1>11, <1>12 DEF EndpointsInvariant

LEMMA EndpointsNext ==
    ASSUME End!EndpointsAssumption, EndpointsInvariant, [End!Next]_End!vars
    PROVE  EndpointsInvariant'
<1> USE DEF End!Idle, End!Nobody
<1>1. End!TypeOK /\ "nobody" \notin Actions
    BY DEF EndpointsInvariant, End!EndpointsAssumption
<1>2. /\ {"webhook.created", "webhook.secret_rotated", "webhook.deleted", "webhook.tested"} \subseteq End!Operations \ End!Switches
      /\ End!Switches \subseteq End!Operations /\ {"webhook.enabled", "webhook.disabled"} \subseteq End!Switches
    BY DEF End!Operations, End!Switches
<1>3. endLock \in Actions \/ endLock = "nobody"
    BY <1>1 DEF End!TypeOK
<1>30. 0 \in 0..MaxLog /\ Len(log) \in 0..MaxLog /\ \A b \in Actions : action[b].seen \in 0..MaxLog
  <2>1. Len(log) \in Nat /\ Len(log) <= MaxLog /\ MaxLog \in Nat
    BY <1>1, Entries DEF End!TypeOK
  <2> QED
    BY <1>1, <2>1 DEF End!TypeOK
<1>31. \A x \in [pc : {"idle", "toggling", "testing"}, was : BOOLEAN, seen : 0..MaxLog], b \in Actions :
          action' = [action EXCEPT ![b] = x] =>
             action' \in ActionTypes /\ action'[b] = x /\ \A o \in Actions : o # b => action'[o] = action[o]
    BY <1>1 DEF End!TypeOK, ActionTypes
<1>32. \A b \in Actions : action' = [action EXCEPT ![b] = End!Idle] =>
             action' \in ActionTypes /\ action'[b].pc = "idle" /\ \A o \in Actions : o # b => action'[o] = action[o]
  <2>1. End!Idle \in [pc : {"idle", "toggling", "testing"}, was : BOOLEAN, seen : 0..MaxLog]
    BY <1>30
  <2> QED
    BY <1>31, <2>1
<1>33. action' = action => action' \in ActionTypes
    BY <1>1 DEF End!TypeOK, ActionTypes
<1>4. CASE End!Tick
  <2>1. End!TypeOK' /\ now' = now + 1 /\ now \in Nat /\ Interval \in Nat /\ log \in Seq(Entry)
    BY <1>1, <1>4 DEF End!Tick, End!TypeOK, End!EndpointsAssumption, Entry
  <2>2. \A n : SwitchCount(n)' = SwitchCount(n)
    BY <1>4 DEF SwitchCount, End!Tick
  <2>3. \A i \in DOMAIN log : log[i].at \in Nat
    BY <1>1, Entries
  <2>4. \A a \in Actions : action[a].pc = "testing" =>
          \A i \in DOMAIN log : log[i].what = "webhook.tested" /\ i <= action[a].seen => log[i].at <= now' - Interval
    BY <2>1, <2>3 DEF EndpointsInvariant
  <2> QED
    BY <1>4, <2>1, <2>2, <2>4 DEF End!Tick, EndpointsInvariant
<1>5. ASSUME NEW a \in Actions, End!createWebhook(a) PROVE EndpointsInvariant'
  <2>1. /\ endpoint' = [exists |-> TRUE, enabled |-> TRUE, secret |-> 1] /\ known'[a] = 1
        /\ known' \in [Actions -> Nat] /\ End!Audit("webhook.created", Len(log)) /\ log = <<>>
        /\ UNCHANGED <<endLock, action, now>> /\ action[a].pc = "idle"
    BY <1>1, <1>5 DEF End!createWebhook, End!TypeOK
  <2>2. ~endpoint.exists
    BY <2>1 DEF EndpointsInvariant
  <2>3. \A b \in Actions : action[b].pc # "toggling"
    BY <2>2 DEF EndpointsInvariant
  <2> QED
    <3>1. endLock' \in Actions \cup {End!Nobody} /\ known' \in [Actions -> Nat] /\ action' \in ActionTypes
        BY <1>1, <1>33, <2>1, <2>2 DEF End!TypeOK
    <3>2. endpoint.exists => \E b \in Actions : known[b] = endpoint.secret
        BY DEF EndpointsInvariant
    <3> QED
        BY <1>1, <1>2, <1>30, <2>1, <2>2, <2>3, <3>1, <3>2, TrailGrows
<1>6. ASSUME NEW a \in Actions, End!LockToToggle(a) PROVE EndpointsInvariant'
  <2>1. End!TypeOK'
    BY <1>1, <1>6 DEF End!LockToToggle, End!TypeOK
  <2>2. \A b \in Actions : b # a => action'[b] = action[b] /\ action[b].pc # "toggling"
    BY <1>1, <1>6 DEF End!LockToToggle, End!TypeOK, EndpointsInvariant, End!Free
  <2>3. action'[a].pc = "toggling" /\ action'[a].was = endpoint.enabled /\ endLock' = a
    BY <1>1, <1>6 DEF End!LockToToggle, End!TypeOK
  <2> QED
    BY <1>6, <2>1, <2>2, <2>3, SameTrail DEF End!LockToToggle
<1>7. ASSUME NEW a \in Actions, End!toggleWebhook(a) PROVE EndpointsInvariant'
  <2> DEFINE what == IF action[a].was THEN "webhook.disabled" ELSE "webhook.enabled"
  <2>1. /\ action[a].pc = "toggling" /\ endLock = a /\ endpoint.exists /\ action[a].was = endpoint.enabled
    BY <1>7 DEF End!toggleWebhook, EndpointsInvariant
  <2>2. /\ endpoint' = [endpoint EXCEPT !.enabled = ~endpoint.enabled] /\ End!Audit(what, Len(log))
        /\ endLock' = "nobody" /\ action' = [action EXCEPT ![a] = End!Idle] /\ UNCHANGED <<known, now>>
    BY <1>7, <2>1 DEF End!toggleWebhook
  <2>3. \A b \in Actions : b # a => action[b].pc # "toggling" /\ action'[b] = action[b]
    BY <1>1, <2>1, <2>2 DEF EndpointsInvariant, End!TypeOK
  <2>4. /\ endpoint' \in [exists : BOOLEAN, enabled : BOOLEAN, secret : Nat]
        /\ endpoint'.exists /\ endpoint'.enabled = ~endpoint.enabled /\ endpoint'.secret = endpoint.secret
    BY <1>1, <2>1, <2>2 DEF End!TypeOK
  <2>5. action' \in ActionTypes /\ action'[a].pc = "idle"
    BY <1>32, <2>2
  <2>6. \E b \in Actions : known[b] = endpoint.secret
    BY <2>1 DEF EndpointsInvariant
  <2>7. what \in End!Switches /\ what # "webhook.tested" /\ what # "webhook.deleted" /\ what \in End!Operations
        /\ what = IF endpoint.enabled THEN "webhook.disabled" ELSE "webhook.enabled"
    BY <1>2, <2>1
  <2>8. log # <<>>
    BY <2>1 DEF EndpointsInvariant
  <2>9. known' \in [Actions -> Nat]
    BY <1>1, <2>2 DEF End!TypeOK
  <2> HIDE DEF what
  <2> QED
    <3>1. \A b \in Actions : action'[b].pc \notin {"toggling"} /\ (action'[b].pc = "testing" => action[b].pc = "testing" /\ action'[b] = action[b])
        BY <2>3, <2>5
    <3>2. endLock' \in Actions \cup {End!Nobody} /\ now' = now
        BY <2>2
    <3>3. \E b \in Actions : known'[b] = endpoint'.secret
        BY <2>2, <2>4, <2>6
    <3> QED
        BY <1>30, <2>1, <2>2, <2>4, <2>5, <2>7, <2>8, <2>9, <3>1, <3>2, <3>3, TrailGrows
<1>8. ASSUME NEW a \in Actions, End!Rollback(a) PROVE EndpointsInvariant'
  <2>1. End!TypeOK'
    BY <1>1, <1>8, <1>32 DEF End!Rollback, End!TypeOK, ActionTypes
  <2>2. \A b \in Actions : b # a => action'[b] = action[b] /\ action[b].pc # "toggling"
    BY <1>1, <1>8 DEF End!Rollback, End!TypeOK, EndpointsInvariant
  <2>3. action'[a].pc = "idle"
    BY <1>1, <1>8 DEF End!Rollback, End!TypeOK
  <2> QED
    BY <1>8, <2>1, <2>2, <2>3, SameTrail DEF End!Rollback
<1>9. ASSUME NEW a \in Actions, End!rotateWebhookSecret(a) PROVE EndpointsInvariant'
  <2>1. /\ endLock = "nobody" /\ endpoint.exists /\ endpoint' = [endpoint EXCEPT !.secret = endpoint.secret + 1]
        /\ known' = [known EXCEPT ![a] = endpoint.secret + 1] /\ End!Audit("webhook.secret_rotated", Len(log))
        /\ UNCHANGED <<endLock, action, now>> /\ action[a].pc = "idle"
    BY <1>9 DEF End!rotateWebhookSecret, End!Free
  <2>2. /\ endpoint' \in [exists : BOOLEAN, enabled : BOOLEAN, secret : Nat] /\ known' \in [Actions -> Nat]
        /\ endpoint'.exists /\ endpoint'.enabled = endpoint.enabled /\ known'[a] = endpoint'.secret
    <3>1. endpoint \in [exists : BOOLEAN, enabled : BOOLEAN, secret : Nat] /\ known \in [Actions -> Nat]
        BY <1>1 DEF End!TypeOK
    <3>2. endpoint.secret + 1 \in Nat
        BY <3>1
    <3>3. known' \in [Actions -> Nat] /\ known'[a] = endpoint.secret + 1
        BY <2>1, <3>1, <3>2
    <3>4. /\ endpoint' \in [exists : BOOLEAN, enabled : BOOLEAN, secret : Nat]
          /\ endpoint'.exists /\ endpoint'.enabled = endpoint.enabled /\ endpoint'.secret = endpoint.secret + 1
        BY <2>1, <3>1, <3>2
    <3> QED
        BY <3>3, <3>4
  <2>3. \A b \in Actions : action[b].pc # "toggling"
    BY <1>1, <2>1 DEF EndpointsInvariant
  <2> QED
    <3>1. endLock' \in Actions \cup {End!Nobody} /\ known' \in [Actions -> Nat] /\ action' \in ActionTypes
        BY <1>1, <1>33, <2>1, <2>2 DEF End!TypeOK
    <3>2. endpoint.exists => \E b \in Actions : known[b] = endpoint.secret
        BY DEF EndpointsInvariant
    <3> QED
        BY <1>1, <1>2, <1>30, <2>1, <2>2, <2>3, <3>1, <3>2, TrailGrows
<1>10. ASSUME NEW a \in Actions, End!deleteWebhook(a) PROVE EndpointsInvariant'
  <2>1. /\ endLock = "nobody" /\ endpoint.exists /\ endpoint' = [endpoint EXCEPT !.exists = FALSE]
        /\ End!Audit("webhook.deleted", Len(log)) /\ UNCHANGED <<endLock, action, known, now>> /\ action[a].pc = "idle"
    BY <1>10 DEF End!deleteWebhook, End!Free
  <2>2. endpoint' \in [exists : BOOLEAN, enabled : BOOLEAN, secret : Nat] /\ ~endpoint'.exists
    <3>1. endpoint \in [exists : BOOLEAN, enabled : BOOLEAN, secret : Nat]
        BY <1>1 DEF End!TypeOK
    <3> QED
        BY <2>1, <3>1
  <2>3. \A b \in Actions : action[b].pc # "toggling"
    BY <1>1, <2>1 DEF EndpointsInvariant
  <2> QED
    <3>1. endLock' \in Actions \cup {End!Nobody} /\ known' \in [Actions -> Nat] /\ action' \in ActionTypes
        BY <1>1, <1>33, <2>1, <2>2 DEF End!TypeOK
    <3>2. endpoint.exists => \E b \in Actions : known[b] = endpoint.secret
        BY DEF EndpointsInvariant
    <3> QED
        BY <1>1, <1>2, <1>30, <2>1, <2>2, <2>3, <3>1, <3>2, TrailGrows
<1>11. ASSUME NEW a \in Actions, End!ReadToTest(a) PROVE EndpointsInvariant'
  <2> DEFINE x == [pc |-> "testing", was |-> FALSE, seen |-> Len(log)]
  <2>1. x \in [pc : {"idle", "toggling", "testing"}, was : BOOLEAN, seen : 0..MaxLog]
    BY <1>30
  <2>2. action' = [action EXCEPT ![a] = x] /\ ~End!TooSoon /\ UNCHANGED <<endpoint, endLock, known, log, now>>
    BY <1>11 DEF End!ReadToTest
  <2>3. action' \in ActionTypes /\ action'[a] = x /\ \A b \in Actions : b # a => action'[b] = action[b]
    BY <1>31, <2>1, <2>2
  <2>4. End!TypeOK'
    BY <1>1, <2>2, <2>3 DEF End!TypeOK, ActionTypes
  <2>5. action'[a].pc = "testing" /\ action'[a].seen <= Len(log)
    BY <1>30, <2>3
  <2>6. \A b \in Actions : action'[b].pc = "toggling" =>
          endLock' = b /\ endpoint'.exists /\ action'[b].was = endpoint'.enabled
    <3>1. \A b \in Actions : action[b].pc = "toggling" =>
             endLock = b /\ endpoint.exists /\ action[b].was = endpoint.enabled
        BY DEF EndpointsInvariant
    <3>2. endLock' = endLock /\ endpoint' = endpoint
        BY <2>2
    <3>3. \A b \in Actions : action'[b].pc = "toggling" => action'[b] = action[b]
        BY <2>3
    <3> QED
        BY <3>1, <3>2, <3>3
  <2>7. \A b \in Actions : action'[b].pc = "testing" =>
          \/ action[b].pc = "testing" /\ action'[b] = action[b]
          \/ action'[b].seen <= Len(log) /\ ~End!TooSoon
    BY <2>2, <2>3, <2>5
  <2> HIDE DEF x
  <2>8. endpoint' = endpoint /\ known' = known /\ log' = log /\ now' = now
    BY <2>2
  <2> QED
    BY <2>4, <2>6, <2>7, <2>8, SameTrail
<1>12. ASSUME NEW a \in Actions, End!sendWebhookTest(a) PROVE EndpointsInvariant'
  <2>1. /\ action[a].pc = "testing" /\ End!Audit("webhook.tested", action[a].seen) /\ action' = [action EXCEPT ![a] = End!Idle]
        /\ UNCHANGED <<endpoint, endLock, known, now>>
    BY <1>12 DEF End!sendWebhookTest
  <2>2. /\ action' \in ActionTypes /\ action'[a].pc = "idle" /\ \A b \in Actions : b # a => action'[b] = action[b]
    BY <1>32, <2>1
  <2>3. /\ \A b \in Actions : action'[b].pc = "toggling" =>
               endLock' = b /\ endpoint'.exists /\ action'[b].was = endpoint'.enabled
        /\ \A b \in Actions : action'[b].pc = "testing" => action[b].pc = "testing" /\ action'[b] = action[b]
    BY <2>1, <2>2 DEF EndpointsInvariant
  <2>4. endpoint.exists => \E b \in Actions : known[b] = endpoint.secret
    BY DEF EndpointsInvariant
  <2>5. "webhook.tested" \in End!Operations /\ "webhook.tested" \notin End!Switches /\ "webhook.tested" # "webhook.deleted"
    BY <1>2
  <2>6. /\ endpoint' \in [exists : BOOLEAN, enabled : BOOLEAN, secret : Nat] /\ endLock' \in Actions \cup {End!Nobody}
        /\ known' \in [Actions -> Nat]
    BY <1>1, <2>1 DEF End!TypeOK
  <2> QED
    BY <1>30, <2>1, <2>2, <2>3, <2>4, <2>5, <2>6, TrailGrows
<1>13. CASE UNCHANGED End!vars
  <2>1. End!TypeOK'
    BY <1>1, <1>13 DEF End!vars, End!TypeOK
  <2> QED
    BY <1>13, <2>1, SameTrail DEF End!vars, EndpointsInvariant
<1> QED
    BY <1>4, <1>5, <1>6, <1>7, <1>8, <1>9, <1>10, <1>11, <1>12, <1>13 DEF End!Next

(* However requests overlap, the audit         trail tells what happened to  *)
(* the endpoint, and only overlapping requests test too often              *)
(* (webhooks/actions.ts).                                                  *)
THEOREM TrailTellsTheTruth == End!EndpointsAssumption => (End!Spec => [](End!TypeOK /\ End!TrailIsTrue))
<1> SUFFICES ASSUME End!EndpointsAssumption PROVE End!Spec => [](End!TypeOK /\ End!TrailIsTrue)
    OBVIOUS
<1>1. End!Init => EndpointsInvariant
    BY EndpointsInit
<1>2. EndpointsInvariant /\ [End!Next]_End!vars => EndpointsInvariant'
    BY EndpointsNext
<1>3. EndpointsInvariant => End!TypeOK /\ End!TrailIsTrue
  <2>1. \A n : Cardinality(End!Switched(n)) = SwitchCount(n)
    BY EndpointsSets DEF End!Switched, SwitchCount
  <2> QED
    BY <2>1, EndpointsSets DEF EndpointsInvariant, End!TrailIsTrue
<1> QED
    BY <1>1, <1>2, <1>3, PTL DEF End!Spec

-----------------------------------------------------------------------------
(* Of a workspace that is deleted nothing is at a provider's door, nothing *)
(* is still to be reported, and its gate stays paused: the subscription    *)
(* was not running when it was deleted, and no checkout can bring it back, *)
(* unless one was left open.                                               *)
MessageHolds(m) ==
    /\ wsdRequest[m] # "done" => message[m] = "none"
    /\ workspace = "gone" => message[m] \in {"none", "erased"}
    /\ ~Checkouts /\ worker[m] \in {"calling", "answered"} => workspace = "live" /\ message[m] = "sending"
    /\ ~Checkouts /\ ~LateEvents => /\ job[m] # "lost"
                                    /\ job[m] \in {"pending", "processing"} => workspace = "live"
TenantHolds ==
    /\ \A p \in Purgers : purger[p] # 0 => workspace # "live"
    /\ ~Checkouts =>
         /\ ~session
         /\ stripe = "active" => wsdLocal = "active"
         /\ workspace # "live" => gate.status = "paused" /\ wsdLocal # "active" /\ stripe # "active"
DeletionInvariant == Wsd!TypeOK /\ TenantHolds /\ \A m \in Messages : MessageHolds(m)

LEMMA DeletionInit == ASSUME Wsd!DeletionAssumption, Wsd!Init PROVE DeletionInvariant
<1> USE DEF Wsd!Init
<1>1. Len(Wsd!purgeOrder) = 2
    BY DEF Wsd!purgeOrder
<1>2. /\ gate \in Wsd!Gates /\ {wsdLocal, stripe} \subseteq Wsd!Subscriptions
      /\ keys \in [Keys -> {"none", "active", "revoked"}] /\ wsdEvents \in 0..MaxEvents /\ wsdFaults \in 0..MaxFaults
    BY DEF Wsd!Gates, Wsd!Subscriptions, Wsd!DeletionAssumption
<1>3. purger \in [Purgers -> 0..Len(Wsd!purgeOrder) + 1] /\ page \in [Users -> {"none", "key", "delete"}]
    <2>1. 0 \in 0..Len(Wsd!purgeOrder) + 1
        BY <1>1
    <2> QED
        BY <2>1
<1>4. /\ wsdRequest \in [Messages -> {"idle", "authenticated", "checked", "done"}]
      /\ message \in [Messages -> {"none", "queued", "sending", "sent", "failed", "unknown", "erased"}]
      /\ worker  \in [Messages -> {"idle", "claimed", "calling", "answered"}]
      /\ job     \in [Messages -> {"none", "pending", "processing", "reported", "lost"}]
      /\ \A m \in Messages : job[m] # "none" => message[m] \in {"sent", "erased"}
    OBVIOUS
<1>5. Wsd!TypeOK
    BY <1>2, <1>3, <1>4 DEF Wsd!TypeOK
<1> QED
    BY <1>5 DEF DeletionInvariant, TenantHolds, MessageHolds

\* The actions of the console and of Stripe, which move no message.
LEMMA DeletionConsole ==
    ASSUME DeletionInvariant, NEW u \in Users, Wsd!Console(u)
    PROVE  DeletionInvariant'
<1> USE DEF DeletionInvariant, TenantHolds, MessageHolds, Wsd!TypeOK, Wsd!tenant, Wsd!access, Wsd!sending, Wsd!billing
<1>1. CASE \E intent \in {"key", "delete"} : Wsd!currentWorkspace(u, intent)
    BY <1>1 DEF Wsd!currentWorkspace
<1>2. CASE \E k \in Keys : Wsd!createApiKeyFormAction(u, k)
    BY <1>2 DEF Wsd!createApiKeyFormAction
<1>3. CASE Wsd!HandOver(u)
    BY <1>3 DEF Wsd!HandOver
<1>4. CASE Wsd!requestWorkspaceDeletion(u)
    <2>1. CASE workspace' = workspace
        BY <1>4, <2>1 DEF Wsd!requestWorkspaceDeletion
    <2>2. CASE workspace' # workspace
        <3>1. /\ workspace = "live" /\ workspace' = "deleted" /\ ~Wsd!blockingSubscription
              /\ ~Wsd!InFlight /\ ~Wsd!Unreported /\ gate' = [status |-> "paused", reason |-> "workspace_deleted"]
            BY <1>4, <2>2 DEF Wsd!requestWorkspaceDeletion
        <3>2. keys' \in [Keys -> {"none", "active", "revoked"}] /\ page' \in [Users -> {"none", "key", "delete"}]
            BY <1>4, <2>2 DEF Wsd!requestWorkspaceDeletion
        <3>3. UNCHANGED <<wsdOwner, wsdRequest, message, worker, handed, job, wsdLocal, stripe, session, wsdEvents, purger, wsdFaults>>
            BY <1>4 DEF Wsd!requestWorkspaceDeletion
        <3>4. gate' \in Wsd!Gates /\ gate'.status = "paused" /\ wsdLocal # "active"
            BY <3>1 DEF Wsd!Gates, Wsd!blockingSubscription
        <3>5. \A m \in Messages : /\ ~Checkouts => worker[m] \notin {"calling", "answered"}
                                  /\ job[m] \notin {"pending", "processing"}
            BY <3>1 DEF Wsd!InFlight, Wsd!Unreported
        <3> QED
            BY <3>1, <3>2, <3>3, <3>4, <3>5
    <2> QED
        BY <2>1, <2>2
<1> QED
    BY <1>1, <1>2, <1>3, <1>4 DEF Wsd!Console

LEMMA DeletionStripe ==
    ASSUME Wsd!DeletionAssumption, DeletionInvariant,
           Wsd!StripeChanges \/ Wsd!prepareCheckout \/ Wsd!ingestStripeWebhook
    PROVE  DeletionInvariant'
<1> USE DEF DeletionInvariant, TenantHolds, MessageHolds, Wsd!TypeOK, Wsd!tenant, Wsd!access, Wsd!sending, Wsd!billing
<1>1. CASE Wsd!StripeChanges
    <2>1. /\ UNCHANGED <<workspace, gate, keys, wsdOwner, page, wsdRequest, message, worker, handed, job, wsdLocal, wsdEvents, purger, wsdFaults>>
        BY <1>1 DEF Wsd!StripeChanges
    <2>2. \/ stripe' = "canceled" /\ session' = session
          \/ session /\ stripe' = "active" /\ session' = FALSE
        BY Zenon, <1>1 DEF Wsd!StripeChanges
    <2>3. stripe' \in Wsd!Subscriptions /\ (~session => stripe' # "active")
        BY <2>2 DEF Wsd!Subscriptions
    <2>4. session' \in BOOLEAN /\ (~session => ~session')
        <3>1. CASE session' = session
            BY <3>1
        <3>2. CASE session' = FALSE
            BY <3>2
        <3> QED
            BY <2>2, <3>1, <3>2
    <2> QED
        BY <2>1, <2>3, <2>4
<1>2. CASE Wsd!prepareCheckout
    BY <1>2 DEF Wsd!prepareCheckout
<1>3. CASE Wsd!ingestStripeWebhook
    <2>1. /\ workspace' = workspace /\ stripe # "none" /\ wsdLocal' = stripe /\ stripe' = stripe
          /\ wsdEvents' \in 0..MaxEvents
          /\ UNCHANGED <<keys, wsdOwner, page, wsdRequest, message, worker, handed, job, session, purger, wsdFaults>>
        BY <1>3 DEF Wsd!ingestStripeWebhook, Wsd!DeletionAssumption
    <2>2. gate' \in Wsd!Gates /\ (~Checkouts /\ workspace # "live" => gate'.status = "paused")
        BY <1>3 DEF Wsd!ingestStripeWebhook, Wsd!Gates, Wsd!Subscriptions
    <2> QED
        BY <2>1, <2>2
<1> QED
    BY <1>1, <1>2, <1>3

\* A step that only concerns m.
LEMMA DeletionTraffic ==
    ASSUME Wsd!DeletionAssumption, DeletionInvariant, NEW m \in Messages, Wsd!Traffic(m)
    PROVE  DeletionInvariant'
<1> USE DEF DeletionInvariant, TenantHolds, MessageHolds, Wsd!TypeOK, Wsd!tenant, Wsd!access, Wsd!sending, Wsd!billing,
            Wsd!Work, Wsd!Become, Wsd!Bill, Wsd!Fault
<1>1. CASE Wsd!authenticateApiKey(m)
    BY <1>1 DEF Wsd!authenticateApiKey
<1>2. CASE Wsd!Prepare(m)
    BY <1>2 DEF Wsd!Prepare
<1>3. CASE Wsd!acceptEmail(m)
    <2>1. message[m] = "none" /\ job[m] = "none" /\ (~Checkouts => worker[m] \notin {"calling", "answered"})
        BY <1>3 DEF Wsd!acceptEmail
    <2>2. /\ wsdRequest' = [wsdRequest EXCEPT ![m] = "done"]
          /\ \/ message' = message
             \/ workspace # "gone" /\ message' = [message EXCEPT ![m] = "queued"]
          /\ UNCHANGED <<workspace, gate, keys, wsdOwner, page, worker, handed, job, wsdLocal, stripe, session, wsdEvents, purger, wsdFaults>>
        BY <1>3 DEF Wsd!acceptEmail, Wsd!Insertable
    <2> QED
        BY <2>1, <2>2
<1>4. CASE Wsd!Claim(m)
    BY <1>4 DEF Wsd!Claim
<1>5. CASE Wsd!Evaluate(m)
    BY <1>5 DEF Wsd!Evaluate, Wsd!Allowed
<1>6. CASE Wsd!Transmit(m)
    <2>1. /\ worker[m] = "calling" /\ handed' \subseteq Messages /\ wsdFaults' \in 0..MaxFaults
          /\ \/ worker' = [worker EXCEPT ![m] = "answered"] /\ message' = message
             \/ /\ worker' = [worker EXCEPT ![m] = "idle"]
                /\ \/ message' = message
                   \/ message[m] = "sending" /\ message' = [message EXCEPT ![m] = "unknown"]
          /\ UNCHANGED <<workspace, gate, keys, wsdOwner, page, wsdRequest, job, wsdLocal, stripe, session, wsdEvents, purger>>
        BY <1>6 DEF Wsd!Transmit, Wsd!DeletionAssumption
    <2> QED
        BY <2>1
<1>7. CASE Wsd!CommitAccepted(m)
    BY <1>7 DEF Wsd!CommitAccepted
<1>8. CASE Wsd!WorkerDies(m)
    BY <1>8 DEF Wsd!WorkerDies, Wsd!DeletionAssumption
<1>9. CASE Wsd!recoverStaleSending(m)
    BY <1>9 DEF Wsd!recoverStaleSending
<1>10. CASE Wsd!ingestProviderEvent(m)
    BY <1>10 DEF Wsd!ingestProviderEvent
<1>11. CASE Wsd!Report(m)
    BY <1>11 DEF Wsd!Report
<1> QED
    BY <1>1, <1>2, <1>3, <1>4, <1>5, <1>6, <1>7, <1>8, <1>9, <1>10, <1>11 DEF Wsd!Traffic

LEMMA DeletionPurge ==
    ASSUME Wsd!DeletionAssumption, DeletionInvariant, NEW p \in Purgers, Wsd!StartPurge(p) \/ Wsd!Purge(p) \/ Wsd!PurgeStops(p)
    PROVE  DeletionInvariant'
<1> USE DEF DeletionInvariant, TenantHolds, MessageHolds, Wsd!TypeOK, Wsd!tenant, Wsd!access, Wsd!sending, Wsd!billing, Wsd!Become, Wsd!Fault
<1>0. Len(Wsd!purgeOrder) = 2
    BY DEF Wsd!purgeOrder
<1>1. CASE Wsd!StartPurge(p)
    BY <1>0, <1>1 DEF Wsd!StartPurge, Wsd!Purgeable
<1>2. CASE Wsd!PurgeBatch(p)
    <2>1. /\ purger[p] \in 1..2
          /\ UNCHANGED <<workspace, gate, keys, wsdOwner, page, wsdRequest, worker, handed, wsdLocal, stripe, session, wsdEvents, wsdFaults>>
        BY <1>0, <1>2 DEF Wsd!PurgeBatch
    <2>2. purger' \in [Purgers -> 0..3] /\ \A q \in Purgers : purger'[q] # 0 => workspace # "live"
        BY <1>0, <1>2, <2>1 DEF Wsd!PurgeBatch
    <2>3. \/ UNCHANGED <<message, job>>
          \/ \E n \in Messages : /\ workspace = "deleted" /\ Wsd!EraseJob(n)
                                 /\ message' = message \/ (message[n] # "none" /\ message' = [message EXCEPT ![n] = "erased"])
        <3> DEFINE t == Wsd!purgeOrder[purger[p]]
        <3>1. t \in {"stripe_usage_report_jobs", "messages"}
            BY <2>1 DEF Wsd!purgeOrder
        <3>2. CASE UNCHANGED <<message, job>>
            BY <3>2
        <3>3. CASE workspace = "deleted" /\ \E n \in Wsd!Rows(t) :
                      IF t = "messages" THEN Wsd!EraseMessage(n) ELSE Wsd!EraseJob(n) /\ UNCHANGED message
            <4>1. PICK n \in Wsd!Rows(t) : IF t = "messages" THEN Wsd!EraseMessage(n) ELSE Wsd!EraseJob(n) /\ UNCHANGED message
                BY <3>3
            <4>2. n \in Messages /\ (t = "messages" => message[n] # "none")
                BY <3>1 DEF Wsd!Rows
            <4> QED
                BY <3>3, <4>1, <4>2 DEF Wsd!EraseMessage
        <3> QED
            BY <1>2, <3>2, <3>3 DEF Wsd!PurgeBatch
    <2> QED
        BY <1>0, <2>1, <2>2, <2>3 DEF Wsd!EraseJob
<1>3. CASE Wsd!PurgeEnds(p)
    <2>1. workspace # "live"
        BY <1>0, <1>3 DEF Wsd!PurgeEnds
    <2> QED
        BY <1>0, <1>3, <2>1 DEF Wsd!PurgeEnds, Wsd!Subscriptions
<1>4. CASE Wsd!PurgeStops(p)
    BY <1>0, <1>4 DEF Wsd!PurgeStops, Wsd!DeletionAssumption
<1> QED
    BY <1>1, <1>2, <1>3, <1>4 DEF Wsd!Purge


LEMMA DeletionHolds ==
    ASSUME Wsd!DeletionAssumption
    PROVE  Wsd!Spec => []DeletionInvariant
<1>1. Wsd!Init => DeletionInvariant
    BY DeletionInit
<1>2. DeletionInvariant /\ [Wsd!Next]_Wsd!vars => DeletionInvariant'
  <2> SUFFICES ASSUME DeletionInvariant, [Wsd!Next]_Wsd!vars PROVE DeletionInvariant'
    OBVIOUS
  <2>1. CASE \E u \in Users : Wsd!Console(u)
    BY <2>1, DeletionConsole
  <2>2. CASE \E k \in Keys : Wsd!revokeApiKeyAction(k)
    BY <2>2 DEF Wsd!revokeApiKeyAction, DeletionInvariant, TenantHolds, MessageHolds, Wsd!TypeOK, Wsd!tenant,
                Wsd!access, Wsd!sending, Wsd!billing
  <2>3. CASE \E m \in Messages : Wsd!Traffic(m)
    BY <2>3, DeletionTraffic
  <2>4. CASE Wsd!StripeChanges \/ Wsd!prepareCheckout \/ Wsd!ingestStripeWebhook
    BY <2>4, DeletionStripe
  <2>5. CASE \E p \in Purgers : Wsd!StartPurge(p) \/ Wsd!Purge(p) \/ Wsd!PurgeStops(p)
    BY <2>5, DeletionPurge
  <2>6. CASE UNCHANGED Wsd!vars
    BY <2>6 DEF Wsd!vars, DeletionInvariant, TenantHolds, MessageHolds, Wsd!TypeOK, Wsd!tenant, Wsd!access, Wsd!sending, Wsd!billing
  <2> QED
    BY <2>1, <2>2, <2>3, <2>4, <2>5, <2>6 DEF Wsd!Next
<1> QED
    BY <1>1, <1>2, PTL DEF Wsd!Spec

(* After the last statement of a purge nothing of a workspace is left and  *)
(* nothing comes back, whatever was under way when it was deleted          *)
(* (workspace-data/purge.ts).                                              *)
THEOREM GoneForGood ==
    ASSUME Wsd!DeletionAssumption
    PROVE  Wsd!Spec => [](Wsd!TypeOK /\ Wsd!GoneIsEmpty)
<1>1. DeletionInvariant => Wsd!TypeOK /\ Wsd!GoneIsEmpty
    BY DEF DeletionInvariant, MessageHolds, Wsd!GoneIsEmpty
<1> QED
    BY <1>1, DeletionHolds, PTL

(* No usage is purged before it is reported, and nothing is left of the    *)
(* messages of a workspace that is gone, whatever was under way when it    *)
(* was deleted (workspace-data/deletion.ts, purge.ts).  Without the        *)
(* premises a late event of a provider bills a message that is about to be *)
(* purged, and a checkout left open sends another.                         *)
THEOREM DeletionsAreClean ==
    ASSUME Wsd!DeletionAssumption, ~LateEvents, ~Checkouts
    PROVE  Wsd!Spec => [](Wsd!TypeOK /\ Wsd!UsageIsReported /\ Wsd!GoneIsEmpty)
<1>1. DeletionInvariant => Wsd!TypeOK /\ Wsd!UsageIsReported /\ Wsd!GoneIsEmpty
    BY DEF DeletionInvariant, MessageHolds, Wsd!UsageIsReported, Wsd!GoneIsEmpty
<1> QED
    BY <1>1, DeletionHolds, PTL

(* Every way in is closed: what a request or a worker still had under way  *)
(* gives a provider no message of a deleted workspace, and nobody          *)
(* authenticates with it, unless a checkout that was left open is paid and *)
(* approves its gate again.                                                *)
THEOREM EveryWayIsClosed ==
    ASSUME Wsd!DeletionAssumption, ~Checkouts
    PROVE  Wsd!Spec => [][Wsd!NothingSentAfterDeletion /\ Wsd!NoAccessAfterDeletion]_Wsd!vars
<1>1. DeletionInvariant /\ [Wsd!Next]_Wsd!vars => [Wsd!NothingSentAfterDeletion /\ Wsd!NoAccessAfterDeletion]_Wsd!vars
  <2> SUFFICES ASSUME DeletionInvariant, Wsd!Next PROVE Wsd!NothingSentAfterDeletion /\ Wsd!NoAccessAfterDeletion
    BY DEF DeletionInvariant
  <2> USE DEF Wsd!NothingSentAfterDeletion, Wsd!NoAccessAfterDeletion, Wsd!tenant, Wsd!access, Wsd!sending, Wsd!billing
  <2>1. CASE \E u \in Users : Wsd!Console(u)
    BY <2>1 DEF Wsd!Console, Wsd!currentWorkspace, Wsd!createApiKeyFormAction, Wsd!HandOver, Wsd!requestWorkspaceDeletion
  <2>2. CASE \E k \in Keys : Wsd!revokeApiKeyAction(k)
    BY <2>2 DEF Wsd!revokeApiKeyAction
  <2>3. ASSUME NEW m \in Messages, Wsd!Traffic(m) PROVE Wsd!NothingSentAfterDeletion /\ Wsd!NoAccessAfterDeletion
    <3>1. CASE Wsd!authenticateApiKey(m)
        BY <3>1 DEF Wsd!authenticateApiKey, Wsd!Authenticates
    <3>2. CASE Wsd!Transmit(m)
        BY <3>2 DEF Wsd!Transmit, DeletionInvariant, MessageHolds
    <3>3. CASE Wsd!Prepare(m) \/ Wsd!acceptEmail(m)
        BY <3>3 DEF Wsd!Prepare, Wsd!acceptEmail, DeletionInvariant, Wsd!TypeOK
    <3>4. CASE Wsd!Claim(m) \/ Wsd!Evaluate(m) \/ Wsd!CommitAccepted(m) \/ Wsd!WorkerDies(m)
        BY <3>4 DEF Wsd!Claim, Wsd!Evaluate, Wsd!CommitAccepted, Wsd!WorkerDies
    <3>5. CASE Wsd!recoverStaleSending(m) \/ Wsd!ingestProviderEvent(m) \/ Wsd!Report(m)
        BY <3>5 DEF Wsd!recoverStaleSending, Wsd!ingestProviderEvent, Wsd!Report
    <3> QED
        BY <2>3, <3>1, <3>2, <3>3, <3>4, <3>5 DEF Wsd!Traffic
  <2>4. CASE Wsd!StripeChanges \/ Wsd!prepareCheckout \/ Wsd!ingestStripeWebhook
    BY <2>4 DEF Wsd!StripeChanges, Wsd!prepareCheckout, Wsd!ingestStripeWebhook
  <2>5. CASE \E p \in Purgers : Wsd!StartPurge(p) \/ Wsd!Purge(p) \/ Wsd!PurgeStops(p)
    BY <2>5 DEF Wsd!Purge, Wsd!StartPurge, Wsd!PurgeBatch, Wsd!PurgeEnds, Wsd!PurgeStops
  <2> QED
    BY <2>1, <2>2, <2>3, <2>4, <2>5 DEF Wsd!Next
<1> QED
    BY <1>1, DeletionHolds, PTL DEF Wsd!Spec

-----------------------------------------------------------------------------
(* What the proof asks of the schema: the cascades are closed, no key      *)
(* restricts, a key without action is of a row of the workspace and refers *)
(* to nothing that is purged before it, the tables are in the order in     *)
(* which one's cascade has been purged, and what belongs to people, to the *)
(* bill or to an invitation is reached by no other deletion.               *)
Kinds     == {"cascade", "set null", "no action"}
Swept     == {Ers!purgeOrder[k] : k \in 1..Len(Ers!purgeOrder)}
Forgotten == Ers!retentionTables \cup {"webhookEndpoints"}
Person    == {"authUsers", "authSessions", "authAccounts", "authPasskeys"}
Billing   == {"usageLedger", "stripeUsageReports", "stripeUsageReportJobs"}

CascadesFit ==
    /\ \A t \in Tables : t \in CascadesTo[t] /\ CascadesTo[t] \subseteq Tables
    /\ \A t, u \in Tables : \A v \in CascadesTo[t] :
           [to |-> v, onDelete |-> "cascade"] \in References[u] => u \in CascadesTo[t]
KeysAreTyped == \A t \in Tables : References[t] \subseteq [to : Tables, onDelete : Kinds]
KeysFit ==
    /\ OfWorkspace = [to |-> "workspaces", onDelete |-> "cascade"]
    /\ \A t \in Tables : \A r \in References[t] :
           r.onDelete = "no action" => /\ OfWorkspace \in References[t]
                                       /\ \A s \in Swept : r.to \notin CascadesTo[s]
TablesFit ==
    /\ Swept \cup Forgotten \cup {"workspaces", "authUsers", "authOrganizations"} \subseteq Tables
    /\ "workspaces" \notin PlatformTables
    /\ Tables \subseteq CascadesTo["workspaces"] \cup CascadesTo["authOrganizations"] \cup PlatformTables
    /\ \A k \in 1..Len(Ers!purgeOrder) : CascadesTo[Ers!purgeOrder[k]] \subseteq {Ers!purgeOrder[j] : j \in 1..k}
    /\ \A t \in Forgotten \cup {"authUsers"} :
           CascadesTo[t] \cap (Billing \cup {"authInvitations", "authOrganizations"}) = {}
    /\ \A t \in Forgotten \cup Swept \cup {"authUsers", "authOrganizations"} : "workspaces" \notin CascadesTo[t]
    /\ \A t \in Forgotten \cup Swept \cup {"workspaces", "authOrganizations"} : CascadesTo[t] \cap Person = {}
SchemaFits == CascadesFit /\ KeysAreTyped /\ KeysFit /\ TablesFit

(* After a deletion, a purged table has only rows that came later.         *)
RowsHold ==
    /\ place = 0 => "authOrganizations" \in rows
    /\ place # Ers!Gone => "workspaces" \in rows
    /\ place > 0 => rows \subseteq CascadesTo["workspaces"] \cup PlatformTables
    /\ place = Ers!Gone => rows \subseteq PlatformTables
    /\ \A j \in 1..Len(Ers!purgeOrder) : j < place /\ Ers!purgeOrder[j] \in rows => Ers!purgeOrder[j] \in late
ErasureInvariant == Ers!TypeOK /\ RowsHold

LEMMA Eleven == Len(Ers!purgeOrder) = 11 /\ Ers!Last = 12 /\ Ers!Gone = 13
BY DEF Ers!purgeOrder, Ers!Last, Ers!Gone

LEMMA KeyTarget == ASSUME SchemaFits, NEW t \in Tables, NEW r \in References[t] PROVE r.to \in Tables
BY DEF SchemaFits, KeysAreTyped

LEMMA Removed == ASSUME NEW S, Ers!Delete(S) PROVE rows' = rows \ Ers!Doomed(S)
BY Zenon DEF Ers!Delete

LEMMA ErasureInit == ASSUME Ers!ErasureAssumption, SchemaFits, Ers!Init PROVE ErasureInvariant
<1> USE DEF Ers!Init
<1>1. 0 \in 0..MaxInserts /\ 0 \in 0..MaxDeletes /\ 0 \in 0..Ers!Gone
    BY Eleven DEF Ers!ErasureAssumption
<1>2. \A t \in Tables : \A r \in References[t] : r.to \in Tables
    BY KeyTarget
<1>3. Ers!TypeOK
    BY <1>1, <1>2 DEF Ers!TypeOK
<1>4. RowsHold
    BY Eleven DEF RowsHold, SchemaFits, TablesFit
<1> QED
    BY <1>3, <1>4 DEF ErasureInvariant

\* A statement leaves no row that refers to one it deletes.
LEMMA DeletionIsTyped ==
    ASSUME SchemaFits, Ers!TypeOK, NEW S \in SUBSET Tables, Ers!Delete(S)
    PROVE  /\ rows' = rows \ Ers!Doomed(S) /\ rows' \subseteq Tables /\ late' \subseteq rows'
           /\ late' = late \cap rows' /\ cleared' \subseteq rows' \X Tables
           /\ \A t \in rows' : \A r \in References[t] : r.to \in rows' \/ <<t, r.to>> \in cleared'
<1>1. /\ rows' = rows \ Ers!Doomed(S) /\ late' = late \ Ers!Doomed(S) /\ ~Ers!Refused(S)
      /\ rows' \subseteq Tables /\ late' = late \cap rows'
    BY DEF Ers!Delete, Ers!TypeOK
<1> DEFINE Nulled(t) == {q \in References[t] : q.onDelete = "set null" /\ q.to \in Ers!Doomed(S)}
<1> DEFINE Set(t) == {<<t, r.to>> : r \in Nulled(t)}
<1>2. cleared' = {c \in cleared : c[1] \in rows'} \cup UNION {Set(t) : t \in rows'}
    BY Zenon DEF Ers!Delete
<1>3. cleared' \subseteq rows' \X Tables
    <2>1. ASSUME NEW t \in rows' PROVE Set(t) \subseteq rows' \X Tables
        <3>1. Nulled(t) \subseteq References[t] /\ t \in Tables
            BY <1>1
        <3> HIDE DEF Nulled
        <3> QED
            BY <3>1, KeyTarget
    <2>2. {c \in cleared : c[1] \in rows'} \subseteq rows' \X Tables
        BY DEF Ers!TypeOK
    <2> HIDE DEF Set
    <2> QED
        BY <1>2, <2>1, <2>2
<1>4. ASSUME NEW t \in rows', NEW r \in References[t], <<t, r.to>> \notin cleared' PROVE r.to \in rows'
    <2>1. /\ t \in Tables /\ t \in rows /\ t \notin Ers!Doomed(S) /\ r \in [to : Tables, onDelete : Kinds]
        BY <1>1 DEF SchemaFits, KeysAreTyped, Ers!TypeOK
    <2>2. <<t, r.to>> \notin cleared /\ <<t, r.to>> \notin Set(t)
        <3> HIDE DEF Set
        <3> QED
            BY <1>2, <1>4
    <2>3. r.to \in rows
        BY <2>1, <2>2 DEF Ers!TypeOK
    <2>4. SUFFICES ASSUME r.to \in Ers!Doomed(S) PROVE FALSE
        BY <1>1, <2>3
    <2>5. CASE r.onDelete = "set null"
        BY <2>2, <2>4, <2>5
    <2>6. CASE r.onDelete = "no action"
        <3>1. t \in Ers!Referring(Ers!Doomed(S), "no action")
            BY <2>1, <2>4, <2>6 DEF Ers!Referring
        <3> QED
            BY <1>1, <2>1, <3>1 DEF Ers!Refused
    <2>7. CASE r.onDelete = "cascade"
        <3>1. r = [to |-> r.to, onDelete |-> "cascade"]
            BY <2>1, <2>7
        <3>2. PICK s \in S \cap rows : r.to \in CascadesTo[s]
            BY <2>4 DEF Ers!Doomed
        <3>3. t \in CascadesTo[s]
            BY <2>1, <3>1, <3>2 DEF SchemaFits, CascadesFit
        <3> QED
            BY <2>1, <3>2, <3>3 DEF Ers!Doomed
    <2> QED
        BY <2>1, <2>5, <2>6, <2>7 DEF Kinds
<1> QED
    BY <1>1, <1>3, <1>4

\* A statement that leaves the purge where it is.
LEMMA DeletionInPlace ==
    ASSUME SchemaFits, ErasureInvariant, NEW s \in Forgotten \cup {"authUsers"}, Ers!Delete({s}),
           UNCHANGED <<role, place, inserts>>, deletes' \in 0..MaxDeletes
    PROVE  ErasureInvariant'
<1>0. {s} \in SUBSET Tables
    BY DEF SchemaFits, TablesFit
<1>1. /\ rows' = rows \ Ers!Doomed({s}) /\ rows' \subseteq Tables /\ late' \subseteq rows'
      /\ late' = late \cap rows' /\ cleared' \subseteq rows' \X Tables
      /\ \A t \in rows' : \A r \in References[t] : r.to \in rows' \/ <<t, r.to>> \in cleared'
    BY <1>0, DeletionIsTyped DEF ErasureInvariant
<1>2. Ers!TypeOK'
    BY <1>1 DEF ErasureInvariant, Ers!TypeOK
<1>3. {"workspaces", "authOrganizations"} \cap Ers!Doomed({s}) = {}
    BY DEF Ers!Doomed, SchemaFits, TablesFit
<1>4. RowsHold'
    BY <1>1, <1>3 DEF ErasureInvariant, RowsHold
<1> QED
    BY <1>2, <1>4 DEF ErasureInvariant

LEMMA InsertIsTyped ==
    ASSUME Ers!ErasureAssumption, SchemaFits, ErasureInvariant, NEW t \in Tables, Ers!Insert(t)
    PROVE  ErasureInvariant'
<1> USE DEF ErasureInvariant
<1>1. /\ rows' = rows \cup {t} /\ OfWorkspace \in References[t] /\ "workspaces" \in rows
      /\ \A r \in References[t] : r.onDelete # "set null" => r.to \in rows
      /\ UNCHANGED <<role, place, deletes>> /\ inserts' \in 0..MaxInserts
    <2>1. OfWorkspace \in References[t] /\ OfWorkspace.to = "workspaces" /\ OfWorkspace.onDelete # "set null"
        BY DEF Ers!Insert, SchemaFits, KeysFit
    <2>2. \A r \in References[t] : r.onDelete # "set null" => r.to \in rows
        BY DEF Ers!Insert
    <2>3. inserts' \in 0..MaxInserts
        <3>1. inserts < MaxInserts /\ inserts' = inserts + 1
            BY Zenon DEF Ers!Insert
        <3> QED
            BY <3>1 DEF Ers!TypeOK, Ers!ErasureAssumption
    <2> QED
        BY <2>1, <2>2, <2>3 DEF Ers!Insert
<1>2. cleared' \subseteq rows' \X Tables
    <2>1. {<<t, r.to>> : r \in {q \in References[t] : q.to \notin rows}} \subseteq rows' \X Tables
        <3>1. t \in rows'
            BY <1>1
        <3> QED
            BY <3>1, KeyTarget
    <2>2. cleared \subseteq rows' \X Tables
        BY <1>1 DEF Ers!TypeOK
    <2> QED
        BY <2>1, <2>2 DEF Ers!Insert
<1>3. \A u \in rows' : \A r \in References[u] : r.to \in rows' \/ <<u, r.to>> \in cleared'
    BY <1>1 DEF Ers!Insert, Ers!TypeOK
<1>4. late \subseteq late' /\ late' \subseteq rows' /\ (place > 0 => t \in late')
    BY <1>1 DEF Ers!Insert, Ers!TypeOK
<1>5. Ers!TypeOK'
    BY <1>1, <1>2, <1>3, <1>4 DEF Ers!TypeOK
<1>6. t \in CascadesTo["workspaces"]
    BY <1>1 DEF SchemaFits, CascadesFit, KeysFit, TablesFit
<1>7. place # Ers!Gone
    BY <1>1 DEF RowsHold, SchemaFits, TablesFit
<1>8. \A j \in 1..Len(Ers!purgeOrder) : j < place' /\ Ers!purgeOrder[j] \in rows' => Ers!purgeOrder[j] \in late'
    <2>1. SUFFICES ASSUME NEW j \in 1..Len(Ers!purgeOrder), j < place, Ers!purgeOrder[j] \in rows' PROVE Ers!purgeOrder[j] \in late'
        BY <1>1
    <2>2. place > 0
        BY <2>1, Eleven DEF Ers!TypeOK
    <2> QED
        BY <1>1, <1>4, <2>1, <2>2 DEF RowsHold
<1>9. RowsHold'
    BY <1>1, <1>6, <1>7, <1>8 DEF RowsHold
<1> QED
    BY <1>5, <1>9

\* The organization goes, and what is left of its workspace is the last
\* cascade's.
LEMMA DeletionBegins ==
    ASSUME SchemaFits, ErasureInvariant, Ers!requestWorkspaceDeletion
    PROVE  ErasureInvariant'
<1> USE DEF ErasureInvariant
<1>0. {"authOrganizations"} \in SUBSET Tables
    BY DEF SchemaFits, TablesFit
<1>1. /\ rows' = rows \ Ers!Doomed({"authOrganizations"}) /\ rows' \subseteq Tables /\ late' \subseteq rows'
      /\ late' = late \cap rows' /\ cleared' \subseteq rows' \X Tables
      /\ \A t \in rows' : \A r \in References[t] : r.to \in rows' \/ <<t, r.to>> \in cleared'
    BY <1>0, DeletionIsTyped DEF Ers!requestWorkspaceDeletion
<1>2. place' = 1 /\ UNCHANGED <<role, inserts, deletes>>
    BY DEF Ers!requestWorkspaceDeletion
<1>3. Ers!TypeOK'
    BY <1>1, <1>2, Eleven DEF Ers!TypeOK
<1>4. rows' \subseteq CascadesTo["workspaces"] \cup PlatformTables
    <2>1. SUFFICES ASSUME NEW t \in rows', t \in CascadesTo["authOrganizations"] PROVE FALSE
        BY <1>1 DEF SchemaFits, TablesFit
    <2>2. t \in rows /\ t \notin Ers!Doomed({"authOrganizations"}) /\ "authOrganizations" \in rows
        BY <1>1 DEF Ers!requestWorkspaceDeletion, RowsHold
    <2> QED
        BY <2>1, <2>2 DEF Ers!Doomed
<1>5. "workspaces" \in rows'
    BY <1>1, Eleven DEF Ers!Doomed, SchemaFits, TablesFit, RowsHold, Ers!requestWorkspaceDeletion
<1>6. RowsHold'
    BY <1>2, <1>4, <1>5, Eleven DEF RowsHold
<1> QED
    BY <1>3, <1>6

LEMMA PurgeGoesOn ==
    ASSUME SchemaFits, ErasureInvariant, Ers!purgeDeletedWorkspace
    PROVE  ErasureInvariant'
<1> USE DEF ErasureInvariant
<1>0. place \in 1..12 /\ place' = place + 1 /\ UNCHANGED <<role, inserts, deletes>> /\ Ers!Delete(Ers!Victims)
    BY Eleven DEF Ers!purgeDeletedWorkspace
<1>1. PICK v \in Tables : /\ Ers!Victims = {v}
                          /\ place < 12 => v = Ers!purgeOrder[place] /\ v \in Swept
                          /\ place = 12 => v = "workspaces"
    BY <1>0, Eleven DEF Ers!Victims, Swept, SchemaFits, TablesFit
<1>2. /\ rows' = rows \ Ers!Doomed({v}) /\ rows' \subseteq Tables /\ late' \subseteq rows'
      /\ late' = late \cap rows' /\ cleared' \subseteq rows' \X Tables
      /\ \A t \in rows' : \A r \in References[t] : r.to \in rows' \/ <<t, r.to>> \in cleared'
    BY <1>0, <1>1, DeletionIsTyped
<1>3. Ers!TypeOK'
    <2>1. place' \in 0..Ers!Gone
        BY <1>0, Eleven
    <2>2. role' \in {"owner", "member"} /\ inserts' \in 0..MaxInserts /\ deletes' \in 0..MaxDeletes
        BY <1>0 DEF Ers!TypeOK
    <2> QED
        BY <1>2, <2>1, <2>2 DEF Ers!TypeOK
<1>4. rows' \subseteq rows \ {v}
    BY <1>1, <1>2 DEF Ers!Doomed, SchemaFits, CascadesFit
<1>5. ASSUME place' # Ers!Gone PROVE "workspaces" \in rows'
    <2>1. place < 12 /\ "workspaces" \in rows
        BY <1>0, <1>5, Eleven DEF RowsHold
    <2>2. "workspaces" \notin CascadesTo[v]
        BY <1>1, <2>1 DEF SchemaFits, TablesFit
    <2> QED
        BY <1>2, <2>1, <2>2 DEF Ers!Doomed
<1>6. ASSUME place' = Ers!Gone PROVE rows' \subseteq PlatformTables
    <2>1. place = 12 /\ place > 0 /\ v = "workspaces" /\ v \in rows
        BY <1>0, <1>1, <1>6, Eleven DEF RowsHold
    <2>2. rows \cap CascadesTo[v] \subseteq Ers!Doomed({v})
        BY <2>1 DEF Ers!Doomed
    <2> QED
        BY <1>2, <2>1, <2>2 DEF RowsHold
<1>7. ASSUME NEW j \in 1..Len(Ers!purgeOrder), j < place', Ers!purgeOrder[j] \in rows' PROVE Ers!purgeOrder[j] \in late'
    <2>1. j # place
        BY <1>1, <1>4, <1>7, Eleven
    <2> QED
        <3>1. j < place /\ Ers!purgeOrder[j] \in rows
            BY <1>0, <1>2, <1>7, <2>1, Eleven
        <3> QED
            BY <1>2, <1>7, <3>1 DEF RowsHold
<1>8. place' # 0 /\ place > 0
    BY <1>0
<1>9. rows' \subseteq CascadesTo["workspaces"] \cup PlatformTables
    BY <1>2, <1>8 DEF RowsHold
<1>10. RowsHold'
    BY <1>5, <1>6, <1>7, <1>8, <1>9 DEF RowsHold
<1> QED
    BY <1>3, <1>10

LEMMA ErasureHolds ==
    ASSUME Ers!ErasureAssumption, SchemaFits
    PROVE  Ers!Spec => []ErasureInvariant
<1>1. Ers!Init => ErasureInvariant
    BY ErasureInit
<1>2. ErasureInvariant /\ [Ers!Next]_Ers!vars => ErasureInvariant'
  <2> SUFFICES ASSUME ErasureInvariant, [Ers!Next]_Ers!vars PROVE ErasureInvariant'
    OBVIOUS
  <2>1. ASSUME NEW t \in Tables, Ers!Insert(t) PROVE ErasureInvariant'
    BY <2>1, InsertIsTyped
  <2>2. ASSUME NEW t \in Tables, Ers!purgeWorkspaceRetention(t) PROVE ErasureInvariant'
    <3>1. t \in Forgotten /\ Ers!Delete({t}) /\ UNCHANGED <<role, place, inserts>> /\ deletes' \in 0..MaxDeletes
        BY <2>2 DEF Ers!purgeWorkspaceRetention, Forgotten, Ers!Counted, ErasureInvariant, Ers!TypeOK, Ers!ErasureAssumption
    <3> QED
        BY <3>1, DeletionInPlace
  <2>3. CASE Ers!deleteWebhook
    <3>1. Ers!Delete({"webhookEndpoints"}) /\ UNCHANGED <<role, place, inserts>> /\ deletes' \in 0..MaxDeletes
        BY <2>3 DEF Ers!deleteWebhook, Ers!Counted, ErasureInvariant, Ers!TypeOK, Ers!ErasureAssumption
    <3> QED
        BY <3>1, DeletionInPlace DEF Forgotten
  <2>4. CASE Ers!deleteUserAccount
    <3>1. Ers!Delete({"authUsers"}) /\ UNCHANGED <<role, place, inserts>> /\ deletes' \in 0..MaxDeletes
        BY <2>4 DEF Ers!deleteUserAccount, ErasureInvariant, Ers!TypeOK
    <3> QED
        BY <3>1, DeletionInPlace
  <2>5. CASE Ers!requestWorkspaceDeletion
    BY <2>5, DeletionBegins
  <2>6. CASE Ers!purgeDeletedWorkspace
    BY <2>6, PurgeGoesOn
  <2>7. CASE UNCHANGED Ers!vars
    BY <2>7 DEF Ers!vars, ErasureInvariant, Ers!TypeOK, RowsHold
  <2> QED
    BY <2>1, <2>2, <2>3, <2>4, <2>5, <2>6, <2>7 DEF Ers!Next
<1> QED
    BY <1>1, <1>2, PTL DEF Ers!Spec

(* In a schema that fits, no statement of a purge is refused, a batch      *)
(* removes no more than its own table and what came later, and nothing of  *)
(* a workspace outlives it (workspace-data/purge.ts, db/schema.ts).        *)
THEOREM PurgesAreClean ==
    ASSUME Ers!ErasureAssumption, SchemaFits
    PROVE  Ers!Spec => [](Ers!TypeOK /\ Ers!PurgeIsNeverRefused /\ Ers!NothingIsLeft /\ Ers!BatchesAreBounded)
<1>1. ASSUME ErasureInvariant PROVE Ers!PurgeIsNeverRefused
    <2>1. SUFFICES ASSUME place \in 1..12, Ers!Refused(Ers!Victims) PROVE FALSE
        BY Eleven DEF Ers!PurgeIsNeverRefused
    <2>2. PICK v \in Swept \cup {"workspaces"} : Ers!Victims = {v}
        BY <2>1, Eleven DEF Ers!Victims, Swept
    <2>3. PICK t \in rows : \E r \in References[t] :
              /\ r.to \in CascadesTo[v] /\ v \in rows
              /\ \/ r.onDelete = "restrict"
                 \/ r.onDelete = "no action" /\ t \notin Ers!Doomed(Ers!Victims)
        BY <2>1, <2>2 DEF Ers!Refused, Ers!Referring, Ers!Doomed
    <2>a. PICK r \in References[t] :
              /\ r.to \in CascadesTo[v] /\ v \in rows
              /\ \/ r.onDelete = "restrict"
                 \/ r.onDelete = "no action" /\ t \notin Ers!Doomed(Ers!Victims)
        BY <2>3
    <2>4. t \in Tables /\ r \in [to : Tables, onDelete : Kinds]
        BY <1>1 DEF ErasureInvariant, Ers!TypeOK, SchemaFits, KeysAreTyped
    <2>5. r.onDelete = "no action" /\ OfWorkspace \in References[t] /\ v = "workspaces"
        BY <2>2, <2>a, <2>4 DEF Kinds, SchemaFits, KeysFit
    <2>6. t \in CascadesTo["workspaces"]
        BY <2>4, <2>5 DEF SchemaFits, CascadesFit, KeysFit, TablesFit
    <2> QED
        BY <2>2, <2>a, <2>5, <2>6 DEF Ers!Doomed
<1>2. ErasureInvariant => Ers!NothingIsLeft
    BY DEF ErasureInvariant, RowsHold, Ers!NothingIsLeft
<1>3. ASSUME ErasureInvariant PROVE Ers!BatchesAreBounded
    <2>1. SUFFICES ASSUME place \in 1..11, NEW t \in Ers!Doomed(Ers!Victims) \ Ers!Victims PROVE t \in late
        BY Eleven DEF Ers!BatchesAreBounded
    <2>2. Ers!Victims = {Ers!purgeOrder[place]}
        BY <2>1, Eleven DEF Ers!Victims
    <2>3. t \in rows /\ t \in CascadesTo[Ers!purgeOrder[place]] /\ t # Ers!purgeOrder[place]
        BY <2>1, <2>2 DEF Ers!Doomed
    <2>4. PICK j \in 1..place : t = Ers!purgeOrder[j]
        BY <2>1, <2>3, Eleven DEF SchemaFits, TablesFit
    <2>5. j \in 1..Len(Ers!purgeOrder) /\ j < place
        BY <2>1, <2>3, <2>4, Eleven
    <2> QED
        BY <1>3, <2>3, <2>4, <2>5 DEF ErasureInvariant, RowsHold
<1> QED
    BY <1>1, <1>2, <1>3, ErasureHolds, PTL DEF ErasureInvariant

(* What belongs to a person, to an invitation or to the bill goes with its *)
(* own account or workspace only.                                          *)
THEOREM OthersAreKept ==
    ASSUME Ers!ErasureAssumption, SchemaFits
    PROVE  Ers!Spec => [][Ers!PeopleOutliveWorkspaces /\ Ers!InvitationsOutliveInviters /\ Ers!LedgerIsKept]_Ers!vars
<1> DEFINE Kept == Ers!PeopleOutliveWorkspaces /\ Ers!InvitationsOutliveInviters /\ Ers!LedgerIsKept
<1>1. ErasureInvariant /\ [Ers!Next]_Ers!vars => [Kept]_Ers!vars
  <2> SUFFICES ASSUME ErasureInvariant, Ers!Next PROVE Kept
    OBVIOUS
  <2> USE DEF Ers!PeopleOutliveWorkspaces, Ers!InvitationsOutliveInviters, Ers!LedgerIsKept
  <2>1. ASSUME NEW t \in Tables, Ers!Insert(t) PROVE Kept
    BY <2>1 DEF Ers!Insert
  <2>2. ASSUME NEW t \in Forgotten, Ers!Delete({t}) PROVE Kept
    <3>1. Ers!Doomed({t}) \subseteq CascadesTo[t] /\ rows' = rows \ Ers!Doomed({t})
        BY <2>2, Removed DEF Ers!Doomed
    <3>2. CascadesTo[t] \cap (Billing \cup {"authInvitations", "authOrganizations"} \cup Person) = {}
        BY DEF SchemaFits, TablesFit
    <3> QED
        BY <3>1, <3>2 DEF Billing, Person
  <2>3. ASSUME Ers!Delete({"authUsers"}), "authUsers" \in rows PROVE Kept
    <3>1. "authUsers" \notin rows'
        BY <2>3, Removed DEF Ers!Doomed, SchemaFits, CascadesFit, TablesFit
    <3> QED
        BY <2>3, <3>1 DEF Ers!Delete, Ers!Doomed, SchemaFits, TablesFit, Billing
  <2>4. ASSUME NEW t \in Swept \cup {"workspaces", "authOrganizations"}, Ers!Delete({t}), place' # 0 PROVE Kept
    BY <2>4 DEF Ers!Delete, Ers!Doomed, SchemaFits, TablesFit, Person
  <2>5. CASE Ers!purgeDeletedWorkspace
    <3>1. PICK v \in Swept \cup {"workspaces"} : Ers!Victims = {v}
        BY <2>5, Eleven DEF Ers!purgeDeletedWorkspace, Ers!Victims, Swept
    <3> QED
        BY <2>4, <2>5, <3>1 DEF Ers!purgeDeletedWorkspace
  <2>6. CASE Ers!requestWorkspaceDeletion
    <3>1. place' # 0 /\ Ers!Delete({"authOrganizations"})
        BY <2>6 DEF Ers!requestWorkspaceDeletion
    <3> QED
        BY <2>4, <3>1
  <2>7. CASE Ers!deleteUserAccount
    BY <2>3, <2>7 DEF Ers!deleteUserAccount
  <2>8. CASE Ers!deleteWebhook
    BY <2>2, <2>8 DEF Ers!deleteWebhook, Forgotten
  <2>9. ASSUME NEW t \in Tables, Ers!purgeWorkspaceRetention(t) PROVE Kept
    BY <2>2, <2>9 DEF Ers!purgeWorkspaceRetention, Forgotten
  <2> QED
    BY <2>1, <2>5, <2>6, <2>7, <2>8, <2>9 DEF Ers!Next
<1> QED
    BY <1>1, ErasureHolds, PTL DEF Ers!Spec

-----------------------------------------------------------------------------
(* What a section has exported so far: a table read at once is complete, a *)
(* history has the rows up to the cursor, and every row that was there     *)
(* from the beginning is exported or after the cursor.                     *)
AtOnce == Exp!Reading /\ Exp!Kind = "at once"
Newest == Exp!Reading /\ Exp!Kind = "newest"
Paged  == Exp!Reading /\ Exp!Kind = "paged"

ExportInvariant ==
    /\ Exp!TypeOK
    /\ whole \subseteq Exp!Rows
    /\ Exp!IsInjective(out)
    /\ section = 0 => out = <<>>
    /\ section = 0 \/ AtOnce \/ Newest => cursor = Exp!None
    /\ AtOnce /\ out # <<>> => whole \subseteq Exp!Range(out)
    /\ Paged /\ cursor.id = -1 => whole \subseteq Exp!Range(out)
    /\ Paged /\ cursor.id # -1 =>
           /\ \A i \in Exp!Range(out) \cap Exp!Rows : ~Exp!after(i)
           /\ \A i \in whole : i \in Exp!Range(out) \/ Exp!after(i)

\* Finite sets are the same inside and outside the instance.
LEMMA ExportSets ==
    \A S : (Exp!IsFiniteSet(S) <=> IsFiniteSet(S)) /\ Exp!Cardinality(S) = Cardinality(S)
BY DEF Exp!IsFiniteSet, IsFiniteSet, Exp!Cardinality, Cardinality

\* The order of the rows is strict and total.
LEMMA RowOrder ==
    ASSUME Exp!ExportAssumption, created \in [Ids -> Nat]
    PROVE  /\ \A i \in Ids : ~Exp!Before(Exp!Row(i), Exp!Row(i))
           /\ \A i, j \in Ids : i # j => Exp!Before(Exp!Row(i), Exp!Row(j)) \/ Exp!Before(Exp!Row(j), Exp!Row(i))
           /\ \A i, j, k \in Ids : Exp!Before(Exp!Row(i), Exp!Row(j)) /\ Exp!Before(Exp!Row(j), Exp!Row(k)) => Exp!Before(Exp!Row(i), Exp!Row(k))
BY DEF Exp!ExportAssumption, Exp!Before, Exp!Row

\* A set of rows has a sequence in that order: each row's place is the
\* number of rows that are not after it.
LEMMA SortedExists ==
    ASSUME Exp!ExportAssumption, created \in [Ids -> Nat], NEW S \in SUBSET Ids
    PROVE  Exp!InOrder(S) \in Exp!Sorted(S)
<1> DEFINE n        == Cardinality(S)
           below(x) == {y \in S : ~Exp!Before(Exp!Row(x), Exp!Row(y))}
           f        == [x \in S |-> Cardinality(below(x))]
<1>1. IsFiniteSet(S) /\ n \in Nat
    BY ExportSets, FS_Subset, FS_CardinalityType DEF Exp!ExportAssumption
<1>2. ASSUME NEW x \in S
      PROVE  IsFiniteSet(below(x)) /\ Cardinality(below(x)) \in 1..n /\ x \in below(x)
    <2>1. below(x) \in SUBSET S
        OBVIOUS
    <2>2. IsFiniteSet(below(x)) /\ Cardinality(below(x)) <= n /\ Cardinality(below(x)) \in Nat
        BY <1>1, <2>1, ExportSets, FS_Subset, FS_CardinalityType
    <2>3. x \in below(x)
        BY RowOrder
    <2>4. Cardinality(below(x)) # 0
        BY <2>2, <2>3, ExportSets, FS_EmptySet
    <2> QED
        BY <1>1, <2>2, <2>3, <2>4
<1>3. ASSUME NEW x \in S, NEW y \in S, Exp!Before(Exp!Row(x), Exp!Row(y))
      PROVE  f[x] < f[y]
    <2>1. below(x) \in SUBSET below(y) /\ y \notin below(x)
        BY <1>3, RowOrder
    <2>2. y \in below(y) /\ below(x) # below(y)
        BY <1>2, <2>1
    <2>3. Cardinality(below(x)) <= Cardinality(below(y)) /\ Cardinality(below(x)) # Cardinality(below(y))
        BY <1>2, <2>1, <2>2, ExportSets, FS_Subset
    <2>4. Cardinality(below(x)) \in Nat /\ Cardinality(below(y)) \in Nat
        BY <1>1, <1>2
    <2> HIDE DEF below
    <2> QED
        BY <2>3, <2>4
<1>4. \A x \in S : f[x] \in 1..n
    BY <1>2
<1> HIDE DEF below, f
<1>5. \A x, y \in S : x # y => f[x] # f[y]
    <2>1. ASSUME NEW x \in S, NEW y \in S, x # y PROVE f[x] # f[y]
        <3>1. Exp!Before(Exp!Row(x), Exp!Row(y)) \/ Exp!Before(Exp!Row(y), Exp!Row(x))
            BY <2>1, RowOrder
        <3>2. f[x] \in Int /\ f[y] \in Int
            BY <1>4
        <3> QED
            BY <1>3, <3>1, <3>2
    <2> QED
        BY <2>1
<1>6. \A k \in 1..n : \E x \in S : f[x] = k
    <2>1. f \in Injection(S, 1..n)
        BY <1>4, <1>5 DEF Injection, IsInjective, f
    <2>2. IsFiniteSet(1..n) /\ Cardinality(1..n) = n
        BY <1>1, FS_Interval
    <2>3. f \in Surjection(S, 1..n)
        BY <2>1, <2>2, ExportSets, FS_Injection
    <2> QED
        BY <2>3 DEF Surjection
<1> DEFINE s == [k \in 1..n |-> CHOOSE x \in S : f[x] = k]
<1>7. \A k \in 1..n : s[k] \in S /\ f[s[k]] = k
    BY <1>6
<1>8. s \in [1..n -> S] /\ DOMAIN s = 1..n
    BY <1>7
<1> HIDE DEF s
<1>9. ASSUME NEW i \in 1..n, NEW j \in 1..n, i < j
      PROVE  Exp!Before(Exp!Row(s[i]), Exp!Row(s[j]))
    <2>1. s[i] \in S /\ s[j] \in S /\ f[s[i]] = i /\ f[s[j]] = j
        BY <1>7
    <2>2. s[i] # s[j]
        BY <1>9, <2>1
    <2>3. ~Exp!Before(Exp!Row(s[j]), Exp!Row(s[i]))
        BY <1>3, <1>9, <2>1
    <2> QED
        BY <2>1, <2>2, <2>3, RowOrder
<1>10. s \in Exp!Sorted(S)
    BY <1>8, <1>9, ExportSets DEF Exp!Sorted
<1> QED
    BY <1>10 DEF Exp!InOrder

\* It has every row, and one row once.
LEMMA InOrderIs ==
    ASSUME Exp!ExportAssumption, created \in [Ids -> Nat], NEW S \in SUBSET Ids
    PROVE  /\ Exp!InOrder(S) \in Seq(S)
           /\ \A i, j \in 1..Len(Exp!InOrder(S)) : i < j => Exp!Before(Exp!Row(Exp!InOrder(S)[i]), Exp!Row(Exp!InOrder(S)[j]))
           /\ \A i, j \in 1..Len(Exp!InOrder(S)) : i # j => Exp!InOrder(S)[i] # Exp!InOrder(S)[j]
           /\ \A x \in S : \E k \in 1..Len(Exp!InOrder(S)) : Exp!InOrder(S)[k] = x
<1> DEFINE s == Exp!InOrder(S)
           n == Cardinality(S)
<1>1. s \in Exp!Sorted(S)
    BY SortedExists
<1> HIDE DEF s
<1>2. IsFiniteSet(S) /\ n \in Nat
    BY ExportSets, FS_Subset, FS_CardinalityType DEF Exp!ExportAssumption
<1>3. s \in [1..n -> S] /\ \A i, j \in 1..n : i < j => Exp!Before(Exp!Row(s[i]), Exp!Row(s[j]))
    BY <1>1, ExportSets DEF Exp!Sorted
<1>4. s \in Seq(S) /\ Len(s) = n
    BY <1>2, <1>3
<1>5. \A i, j \in 1..n : i # j => s[i] # s[j]
    <2>1. ASSUME NEW i \in 1..n, NEW j \in 1..n, i < j PROVE s[i] # s[j]
        BY <1>3, <2>1, RowOrder
    <2> QED
        BY <1>2, <2>1
<1>6. \A x \in S : \E k \in 1..n : s[k] = x
    <2>1. s \in Injection(1..n, S)
        BY <1>3, <1>5 DEF Injection, IsInjective
    <2>2. Cardinality(1..n) = n
        BY <1>2, FS_Interval
    <2>3. s \in Surjection(1..n, S)
        BY <1>2, <2>1, <2>2, ExportSets, FS_Injection
    <2> QED
        BY <2>3 DEF Surjection
<1> QED
    BY <1>3, <1>4, <1>5, <1>6 DEF s

LEMMA FirstIs ==
    ASSUME NEW S, NEW s \in Seq(S), NEW n \in Nat \ {0}
    PROVE  /\ Exp!FirstOf(n, s) \in Seq(S)
           /\ Len(Exp!FirstOf(n, s)) = IF n < Len(s) THEN n ELSE Len(s)
           /\ \A k \in 1..Len(Exp!FirstOf(n, s)) : Exp!FirstOf(n, s)[k] = s[k]
BY DEF Exp!FirstOf

LEMMA FourOf ==
    ASSUME NEW a, NEW b, NEW c, NEW d, Exp!Sections = <<a, b, c, d>>
    PROVE  /\ Len(Exp!Sections) = 4 /\ DOMAIN Exp!Sections = 1..4
           /\ Exp!Sections[1] = a /\ Exp!Sections[2] = b /\ Exp!Sections[3] = c /\ Exp!Sections[4] = d
OBVIOUS

LEMMA SectionCount == Len(Exp!Sections) = 4 /\ DOMAIN Exp!Sections = 1..4
BY FourOf, Zenon DEF Exp!Sections

LEMMA SectionKinds == Exp!Sections[1] = "at once" /\ \A k \in 1..4 : Exp!Sections[k] \in {"at once", "paged", "newest"}
<1>1. Exp!Sections[1] = "at once" /\ Exp!Sections[2] = "paged" /\ Exp!Sections[3] = "newest" /\ Exp!Sections[4] = "paged"
    BY FourOf, Zenon DEF Exp!Sections
<1>2. \A k \in 1..4 : k = 1 \/ k = 2 \/ k = 3 \/ k = 4
    OBVIOUS
<1> QED
    BY <1>1, <1>2, Zenon

\* A section is read in one way.
LEMMA OneKind ==
    /\ Exp!Reading <=> section \in 1..4
    /\ section \in 1..4 => AtOnce \/ Newest \/ Paged
    /\ AtOnce \/ Newest \/ Paged => section \in 1..4
    /\ ~(AtOnce /\ Newest) /\ ~(AtOnce /\ Paged) /\ ~(Newest /\ Paged)
    /\ section = 1 => AtOnce
<1>1. Exp!Reading <=> section \in 1..4
    BY SectionCount, Zenon DEF Exp!Reading
<1>2. section \in 1..4 => AtOnce \/ Newest \/ Paged
    BY <1>1, SectionKinds, Zenon DEF AtOnce, Newest, Paged, Exp!Kind
<1>3. "at once" # "paged" /\ "at once" # "newest" /\ "newest" # "paged"
    BY Zenon
<1>4. ~(AtOnce /\ Newest) /\ ~(AtOnce /\ Paged) /\ ~(Newest /\ Paged)
    BY <1>3, Zenon DEF AtOnce, Newest, Paged
<1>5. AtOnce \/ Newest \/ Paged => section \in 1..4
    BY <1>1, Zenon DEF AtOnce, Newest, Paged
<1>6. section = 1 => section \in 1..4
    OBVIOUS
<1>7. section = 1 => AtOnce
    BY <1>1, <1>6, SectionKinds, Zenon DEF AtOnce, Exp!Kind
<1> QED
    BY <1>1, <1>2, <1>4, <1>5, <1>7

LEMMA KindsStay ==
    ASSUME section' = section
    PROVE  (AtOnce' <=> AtOnce) /\ (Newest' <=> Newest) /\ (Paged' <=> Paged)
BY Zenon DEF AtOnce, Newest, Paged, Exp!Reading, Exp!Kind

\* The same of what comes next.
LEMMA OneKindNext ==
    /\ section' \in 1..4 => AtOnce' \/ Newest' \/ Paged'
    /\ AtOnce' \/ Newest' \/ Paged' => section' \in 1..4
    /\ ~(AtOnce' /\ Newest') /\ ~(AtOnce' /\ Paged') /\ ~(Newest' /\ Paged')
    /\ section' = 1 => AtOnce'
<1>1. (/\ section \in 1..4 => AtOnce \/ Newest \/ Paged
       /\ AtOnce \/ Newest \/ Paged => section \in 1..4
       /\ ~(AtOnce /\ Newest) /\ ~(AtOnce /\ Paged) /\ ~(Newest /\ Paged)
       /\ section = 1 => AtOnce)'
    BY OneKind, PTL
<1> QED
    BY <1>1

LEMMA ExportInit == ASSUME Exp!ExportAssumption, Exp!Init PROVE ExportInvariant
<1> USE DEF Exp!Init
<1>0. /\ 0..1 \subseteq 0..ExpMaxTime /\ 1 \in 1..ExpMaxTime /\ 0 \in 0..ExpMaxTime
      /\ 0 \in 0..Len(Exp!Sections) + 1 /\ <<>> \in Seq(Ids)
    BY SectionCount DEF Exp!ExportAssumption
<1>1. Exp!TypeOK
    BY <1>0 DEF Exp!TypeOK, Exp!None
<1>2. ~AtOnce /\ ~Newest /\ ~Paged
    BY OneKind
<1> QED
    BY <1>1, <1>2 DEF ExportInvariant, Exp!IsInjective

LEMMA ExportKept ==
    ASSUME Exp!ExportAssumption, ExportInvariant, UNCHANGED Exp!vars
    PROVE  ExportInvariant'
BY KindsStay DEF ExportInvariant, Exp!TypeOK, Exp!vars, Exp!Rows, Exp!after, Exp!Before, Exp!Row

LEMMA ExportAuthorize == ASSUME Exp!ExportAssumption, ExportInvariant, Exp!Authorize PROVE ExportInvariant'
<1> USE DEF Exp!Authorize
<1>1. Exp!TypeOK'
    <2>1. section' = 1 \/ section' = section
        OBVIOUS
    <2>2. section' \in 0..Len(Exp!Sections) + 1
        BY <2>1, SectionCount DEF ExportInvariant, Exp!TypeOK
    <2>3. whole' \subseteq Ids
        BY DEF ExportInvariant, Exp!TypeOK, Exp!Rows
    <2>4. refused' \in BOOLEAN
        BY Zenon DEF ExportInvariant, Exp!TypeOK
    <2> QED
        BY <2>2, <2>3, <2>4 DEF ExportInvariant, Exp!TypeOK
<1>2. Exp!Rows' = Exp!Rows /\ whole' \subseteq Exp!Rows
    BY DEF Exp!Rows, ExportInvariant
<1>3. ~AtOnce /\ ~Newest /\ ~Paged
    BY OneKind
<1>4. ~Paged'
    BY <1>3, KindsStay, OneKindNext
<1>5. out' = <<>> /\ cursor' = Exp!None
    BY DEF ExportInvariant
<1> QED
    BY <1>1, <1>2, <1>4, <1>5 DEF ExportInvariant, Exp!IsInjective

LEMMA ExportAtOnce == ASSUME Exp!ExportAssumption, ExportInvariant, Exp!ReadAtOnce PROVE ExportInvariant'
<1>1. /\ AtOnce /\ out' = Exp!InOrder(Exp!Rows)
      /\ UNCHANGED <<created, expNow, section, cursor, whole, refused>>
    BY Zenon DEF Exp!ReadAtOnce, AtOnce
<1>2. Exp!Rows \in SUBSET Ids /\ created \in [Ids -> Nat] /\ Exp!Rows' = Exp!Rows
    BY <1>1 DEF ExportInvariant, Exp!TypeOK, Exp!Rows
<1>3. /\ out' \in Seq(Exp!Rows)
      /\ \A i, j \in 1..Len(out') : i # j => out'[i] # out'[j]
      /\ \A x \in Exp!Rows : \E k \in 1..Len(out') : out'[k] = x
    BY <1>1, <1>2, InOrderIs
<1>4. Exp!TypeOK'
    BY <1>1, <1>2, <1>3 DEF ExportInvariant, Exp!TypeOK
<1>5. Exp!IsInjective(out') /\ Exp!Rows \subseteq Exp!Range(out')
    BY <1>3 DEF Exp!IsInjective, Exp!Range
<1>6. section' # 0 /\ AtOnce' /\ ~Newest' /\ ~Paged'
    BY <1>1, OneKind, KindsStay
<1> QED
    BY <1>1, <1>2, <1>4, <1>5, <1>6 DEF ExportInvariant

LEMMA ExportNewest == ASSUME Exp!ExportAssumption, ExportInvariant, Exp!ReadNewest PROVE ExportInvariant'
<1> DEFINE s == Exp!InOrder(Exp!Rows)
           r == Exp!Reverse(s)
<1>1. /\ Newest /\ out' = Exp!FirstOf(NewestOnly, r)
      /\ UNCHANGED <<created, expNow, section, cursor, whole, refused>>
    BY Zenon DEF Exp!ReadNewest, Newest
<1>2. Exp!Rows \in SUBSET Ids /\ created \in [Ids -> Nat] /\ Exp!Rows' = Exp!Rows
    BY <1>1 DEF ExportInvariant, Exp!TypeOK, Exp!Rows
<1>3. s \in Seq(Exp!Rows) /\ \A i, j \in 1..Len(s) : i # j => s[i] # s[j]
    BY <1>2, InOrderIs
<1> HIDE DEF s
<1>4. r \in Seq(Exp!Rows) /\ Len(r) = Len(s) /\ \A k \in 1..Len(r) : r[k] = s[(Len(s) - k) + 1]
    BY <1>3 DEF Exp!Reverse
<1> HIDE DEF r
<1>5. /\ out' \in Seq(Exp!Rows) /\ Len(out') <= Len(r)
      /\ \A k \in 1..Len(out') : out'[k] = r[k]
    BY <1>1, <1>4, FirstIs DEF Exp!ExportAssumption
<1>6. ASSUME NEW i \in 1..Len(out'), NEW j \in 1..Len(out'), i # j
      PROVE  out'[i] # out'[j]
    <2>1. i \in 1..Len(r) /\ j \in 1..Len(r)
        BY <1>4, <1>5
    <2>2. /\ (Len(s) - i) + 1 \in 1..Len(s) /\ (Len(s) - j) + 1 \in 1..Len(s)
          /\ (Len(s) - i) + 1 # (Len(s) - j) + 1
        BY <1>3, <1>4, <1>6, <2>1
    <2>3. out'[i] = s[(Len(s) - i) + 1] /\ out'[j] = s[(Len(s) - j) + 1]
        BY <1>4, <1>5, <2>1
    <2> QED
        BY <1>3, <2>2, <2>3
<1>7. Exp!IsInjective(out')
    BY <1>5, <1>6 DEF Exp!IsInjective
<1>8. Exp!TypeOK'
    BY <1>1, <1>2, <1>5 DEF ExportInvariant, Exp!TypeOK
<1>9. section' # 0 /\ ~AtOnce' /\ Newest' /\ ~Paged'
    BY <1>1, OneKind, KindsStay
<1> QED
    BY <1>1, <1>2, <1>7, <1>8, <1>9 DEF ExportInvariant

\* The rows of a batch are after the cursor and before those of the next.
LEMMA PageIs ==
    ASSUME Exp!ExportAssumption, ExportInvariant
    PROVE  LET batch == Exp!FirstOf(PageSize, Exp!InOrder({i \in Exp!Rows : Exp!after(i)})) IN
           /\ batch \in Seq(Exp!Rows)
           /\ \A k \in 1..Len(batch) : Exp!after(batch[k])
           /\ \A i, j \in 1..Len(batch) : i < j => Exp!Before(Exp!Row(batch[i]), Exp!Row(batch[j]))
           /\ \A x \in Exp!Rows : Exp!after(x) /\ (\A k \in 1..Len(batch) : batch[k] # x)
                  => Len(batch) = PageSize /\ Exp!Before(Exp!Row(batch[Len(batch)]), Exp!Row(x))
<1> DEFINE S    == {i \in Exp!Rows : Exp!after(i)}
           s    == Exp!InOrder(S)
           batch == Exp!FirstOf(PageSize, s)
<1>1. S \in SUBSET Ids /\ created \in [Ids -> Nat] /\ Exp!Rows \subseteq Ids
    BY DEF ExportInvariant, Exp!TypeOK, Exp!Rows
<1>2. /\ s \in Seq(S)
      /\ \A i, j \in 1..Len(s) : i < j => Exp!Before(Exp!Row(s[i]), Exp!Row(s[j]))
      /\ \A x \in S : \E k \in 1..Len(s) : s[k] = x
    BY <1>1, InOrderIs
<1> HIDE DEF s
<1>3. PageSize \in Nat \ {0}
    BY DEF Exp!ExportAssumption
<1>4. /\ batch \in Seq(S) /\ Len(batch) = IF PageSize < Len(s) THEN PageSize ELSE Len(s)
      /\ \A k \in 1..Len(batch) : batch[k] = s[k]
    BY <1>2, <1>3, FirstIs
<1> HIDE DEF batch
<1>5. batch \in Seq(Exp!Rows) /\ \A k \in 1..Len(batch) : Exp!after(batch[k])
    BY <1>4
<1>6. \A i, j \in 1..Len(batch) : i < j => Exp!Before(Exp!Row(batch[i]), Exp!Row(batch[j]))
  <2> SUFFICES ASSUME NEW i \in 1..Len(batch), NEW j \in 1..Len(batch), i < j
               PROVE  Exp!Before(Exp!Row(batch[i]), Exp!Row(batch[j]))
    OBVIOUS
  <2>1. Len(batch) \in Nat /\ Len(s) \in Nat /\ Len(batch) <= Len(s)
    BY <1>2, <1>3, <1>4
  <2>2. i \in 1..Len(s) /\ j \in 1..Len(s)
    BY <2>1
  <2>3. Exp!Before(Exp!Row(s[i]), Exp!Row(s[j]))
    BY <1>2, <2>2
  <2>4. batch[i] = s[i] /\ batch[j] = s[j]
    BY <1>4
  <2> QED
    BY <2>3, <2>4
<1>7. ASSUME NEW x \in Exp!Rows, Exp!after(x), \A k \in 1..Len(batch) : batch[k] # x
      PROVE  Len(batch) = PageSize /\ Exp!Before(Exp!Row(batch[Len(batch)]), Exp!Row(x))
    <2>1. PICK k \in 1..Len(s) : s[k] = x
        BY <1>2, <1>7
    <2>2. k > Len(batch) /\ Len(batch) = PageSize /\ Len(batch) \in 1..Len(s)
        <3>1. k > Len(batch)
            BY <1>4, <1>7, <2>1
        <3>2. Len(batch) \in Nat /\ Len(s) \in Nat
            BY <1>2, <1>4
        <3> QED
            BY <1>3, <1>4, <2>1, <3>1, <3>2
    <2>3. Exp!Before(Exp!Row(s[Len(batch)]), Exp!Row(s[k]))
        BY <1>2, <2>2
    <2>4. batch[Len(batch)] = s[Len(batch)]
        BY <1>3, <1>4, <2>2
    <2> QED
        BY <2>1, <2>2, <2>3, <2>4
<1> QED
    BY <1>5, <1>6, <1>7 DEF batch, s

LEMMA CursorOrder ==
    ASSUME Exp!ExportAssumption, ExportInvariant
    PROVE  \A i, j \in Ids : Exp!after(i) /\ Exp!Before(Exp!Row(i), Exp!Row(j)) => Exp!after(j)
<1>1. cursor.at \in Int /\ cursor.id \in Int
    <2>1. cursor.at \in 0..ExpMaxTime /\ cursor.id \in Ids \cup {0, -1}
        BY DEF ExportInvariant, Exp!TypeOK
    <2>2. \A x \in 0..ExpMaxTime : x \in Int
        OBVIOUS
    <2>3. 0 \in Int /\ -1 \in Int /\ Ids \subseteq Int
        BY DEF Exp!ExportAssumption
    <2>4. Ids \cup {0, -1} \subseteq Int
        BY <2>3
    <2> QED
        BY <2>1, <2>2, <2>4, Zenon
<1>2. \A i \in Ids : created[i] \in Int /\ i \in Int
    BY DEF Exp!ExportAssumption, ExportInvariant, Exp!TypeOK
<1> QED
    BY <1>1, <1>2 DEF Exp!after, Exp!Before, Exp!Row

LEMMA ExportPage == ASSUME Exp!ExportAssumption, ExportInvariant, Exp!ReadPage PROVE ExportInvariant'
<1> DEFINE batch == Exp!FirstOf(PageSize, Exp!InOrder({i \in Exp!Rows : Exp!after(i)}))
           n    == Len(batch)
<1>1. /\ Paged /\ cursor.id # -1 /\ out' = out \o batch
      /\ cursor' = IF n < PageSize THEN [at |-> 0, id |-> -1] ELSE Exp!Row(batch[n])
      /\ UNCHANGED <<created, expNow, section, whole, refused>>
    BY Zenon DEF Exp!ReadPage, Paged, Exp!cursorText, Exp!Last
<1>2. /\ batch \in Seq(Exp!Rows)
      /\ \A k \in 1..n : Exp!after(batch[k])
      /\ \A i, j \in 1..n : i < j => Exp!Before(Exp!Row(batch[i]), Exp!Row(batch[j]))
      /\ \A x \in Exp!Rows : Exp!after(x) /\ (\A k \in 1..n : batch[k] # x)
             => n = PageSize /\ Exp!Before(Exp!Row(batch[n]), Exp!Row(x))
    BY PageIs
<1> HIDE DEF batch
<1>3. /\ n \in Nat /\ PageSize \in Nat \ {0} /\ Exp!Rows' = Exp!Rows /\ Exp!Rows \subseteq Ids
      /\ \A k \in 1..n : batch[k] \in Exp!Rows
      /\ created \in [Ids -> 0..ExpMaxTime]
    BY <1>1, <1>2 DEF Exp!ExportAssumption, ExportInvariant, Exp!TypeOK, Exp!Rows
<1>4. created \in [Ids -> Nat]
    BY <1>3 DEF Exp!ExportAssumption
<1>5. /\ out \in Seq(Ids) /\ Len(out) \in Nat /\ batch \in Seq(Ids) /\ out' \in Seq(Ids) /\ Len(out') = Len(out) + n
      /\ \A k \in 1..Len(out') : out'[k] = IF k <= Len(out) THEN out[k] ELSE batch[k - Len(out)]
    BY <1>1, <1>2, <1>3 DEF ExportInvariant, Exp!TypeOK
<1>6. Exp!Range(out') = Exp!Range(out) \cup Exp!Range(batch)
    <2>1. \A k \in 1..Len(out) : k \in 1..Len(out') /\ out'[k] = out[k]
        BY <1>3, <1>5
    <2>2. ASSUME NEW k \in 1..n PROVE \E j \in 1..Len(out') : out'[j] = batch[k]
        <3>1. Len(out) + k \in 1..Len(out') /\ ~(Len(out) + k <= Len(out)) /\ (Len(out) + k) - Len(out) = k
            BY <1>3, <1>5
        <3> QED
            BY <1>5, <3>1
    <2>3. \A k \in 1..Len(out') : \/ k \in 1..Len(out) /\ out'[k] = out[k]
                                  \/ k - Len(out) \in 1..n /\ out'[k] = batch[k - Len(out)]
        BY <1>3, <1>5
    <2>4. DOMAIN out = 1..Len(out) /\ DOMAIN batch = 1..n /\ DOMAIN out' = 1..Len(out')
        BY <1>5
    <2>5. Exp!Range(out') \subseteq Exp!Range(out) \cup Exp!Range(batch)
        BY <2>3, <2>4 DEF Exp!Range
    <2>6. Exp!Range(out) \subseteq Exp!Range(out')
        BY <2>1, <2>4 DEF Exp!Range
    <2>7. Exp!Range(batch) \subseteq Exp!Range(out')
        BY <2>2, <2>4 DEF Exp!Range
    <2> QED
        BY <2>5, <2>6, <2>7
<1>7. \A k \in 1..n : batch[k] \notin Exp!Range(out)
    BY <1>1, <1>2, <1>3 DEF ExportInvariant
<1>8. Exp!IsInjective(out')
    <2>1. \A i, j \in 1..Len(out) : out[i] = out[j] => i = j
        BY <1>5 DEF ExportInvariant, Exp!IsInjective
    <2>2. ASSUME NEW i \in 1..n, NEW j \in 1..n, i < j PROVE batch[i] # batch[j]
        BY <1>2, <1>3, <1>4, <2>2, RowOrder
    <2>3. \A i, j \in 1..n : batch[i] = batch[j] => i = j
        BY <1>3, <2>2
    <2>4. \A i \in 1..Len(out), j \in 1..n : out[i] # batch[j]
        BY <1>5, <1>7 DEF Exp!Range
    <2>5. ASSUME NEW i \in 1..Len(out'), NEW j \in 1..Len(out'), i < j PROVE out'[i] # out'[j]
        <3>1. CASE j <= Len(out)
            BY <1>5, <2>1, <2>5, <3>1
        <3>2. CASE j > Len(out) /\ i <= Len(out)
            <4>1. i \in 1..Len(out) /\ j - Len(out) \in 1..n
                BY <1>3, <1>5, <2>5, <3>2
            <4>2. out'[i] = out[i] /\ out'[j] = batch[j - Len(out)]
                BY <1>5, <2>5, <3>2
            <4> QED
                BY <2>4, <4>1, <4>2
        <3>3. CASE i > Len(out)
            <4>1. i - Len(out) \in 1..n /\ j - Len(out) \in 1..n /\ i - Len(out) # j - Len(out)
                BY <1>3, <1>5, <2>5, <3>3
            <4>2. out'[i] = batch[i - Len(out)] /\ out'[j] = batch[j - Len(out)]
                BY <1>5, <2>5, <3>3
            <4> QED
                BY <2>3, <4>1, <4>2
        <3> QED
            BY <1>5, <3>1, <3>2, <3>3
    <2>6. DOMAIN out' = 1..Len(out')
        BY <1>5
    <2> QED
        BY <1>5, <2>5, <2>6 DEF Exp!IsInjective
<1>9. Exp!TypeOK'
    <2>1. CASE n < PageSize
        <3>1. cursor' \in [at : 0..ExpMaxTime, id : Ids \cup {0, -1}]
            BY <1>1, <2>1 DEF Exp!ExportAssumption
        <3> QED
            BY <1>1, <1>5, <3>1 DEF ExportInvariant, Exp!TypeOK
    <2>2. CASE ~(n < PageSize)
        <3>1. batch[n] \in Ids /\ created[batch[n]] \in 0..ExpMaxTime
            BY <1>3, <2>2
        <3>2. cursor' \in [at : 0..ExpMaxTime, id : Ids \cup {0, -1}]
            BY <1>1, <2>2, <3>1 DEF Exp!Row
        <3> QED
            BY <1>1, <1>5, <3>2 DEF ExportInvariant, Exp!TypeOK
    <2> QED
        BY <2>1, <2>2
<1>10. CASE n < PageSize
    <2>1. \A i \in whole : i \in Exp!Range(out) \/ i \in Exp!Range(batch)
        <3>1. ASSUME NEW i \in whole, i \notin Exp!Range(out) PROVE \E k \in 1..n : batch[k] = i
            <4>1. i \in Exp!Rows /\ Exp!after(i)
                BY <1>1, <3>1 DEF ExportInvariant
            <4> QED
                BY <1>2, <1>3, <1>10, <4>1
        <3>2. DOMAIN batch = 1..n
            BY <1>5
        <3> QED
            BY <3>1, <3>2 DEF Exp!Range
    <2>2. whole' \subseteq Exp!Range(out') /\ cursor'.id = -1
        BY <1>1, <1>6, <1>10, <2>1
    <2>3. section' # 0 /\ ~AtOnce' /\ ~Newest'
        BY <1>1, OneKind, KindsStay
    <2> QED
        BY <1>1, <1>3, <1>8, <1>9, <2>2, <2>3 DEF ExportInvariant
<1>11. CASE ~(n < PageSize)
    <2>1. n \in 1..n /\ cursor' = Exp!Row(batch[n]) /\ batch[n] \in Exp!Rows /\ Exp!after(batch[n])
        BY <1>1, <1>2, <1>3, <1>11
    <2>2. \A i : Exp!after(i)' <=> Exp!Before(Exp!Row(batch[n]), Exp!Row(i))
        BY <1>1, <2>1 DEF Exp!after, Exp!Row
    <2>3. ASSUME NEW i \in Exp!Range(out') \cap Exp!Rows PROVE ~Exp!Before(Exp!Row(batch[n]), Exp!Row(i))
        <3>1. CASE i \in Exp!Range(out)
            <4>1. ~Exp!after(i)
                BY <1>1, <2>3, <3>1 DEF ExportInvariant
            <4> QED
                BY <1>3, <2>1, <2>3, <4>1, CursorOrder
        <3>2. CASE i \in Exp!Range(batch)
            <4>1. PICK k \in 1..n : i = batch[k]
                BY <1>5, <3>2 DEF Exp!Range
            <4>2. k = n \/ Exp!Before(Exp!Row(i), Exp!Row(batch[n]))
                BY <1>2, <1>3, <2>1, <4>1
            <4> QED
                BY <1>3, <1>4, <2>1, <2>3, <4>1, <4>2, RowOrder
        <3> QED
            BY <1>6, <2>3, <3>1, <3>2
    <2>4. ASSUME NEW i \in whole PROVE i \in Exp!Range(out') \/ Exp!Before(Exp!Row(batch[n]), Exp!Row(i))
        <3>1. i \in Exp!Rows /\ (i \in Exp!Range(out) \/ Exp!after(i))
            BY <1>1, <2>4 DEF ExportInvariant
        <3>2. DOMAIN batch = 1..n
            BY <1>5
        <3> QED
            BY <1>2, <1>6, <3>1, <3>2 DEF Exp!Range
    <2>5. section' # 0 /\ ~AtOnce' /\ ~Newest'
        BY <1>1, OneKind, KindsStay
    <2>6. cursor'.id # -1
        BY <1>3, <2>1 DEF Exp!Row, Exp!ExportAssumption
    <2> QED
        BY <1>1, <1>3, <1>8, <1>9, <2>2, <2>3, <2>4, <2>5, <2>6 DEF ExportInvariant
<1> QED
    BY <1>10, <1>11

LEMMA ExportEndSection == ASSUME Exp!ExportAssumption, ExportInvariant, Exp!EndSection PROVE ExportInvariant'
<1>1. /\ Exp!Reading /\ section' = section + 1 /\ cursor' = Exp!None /\ out' = <<>>
      /\ created' \in [Ids -> 0..expNow] /\ whole' = Exp!Rows'
      /\ expNow' = expNow /\ UNCHANGED refused
    BY Zenon DEF Exp!EndSection, Exp!NextSection, Exp!Complete, Exp!Rows
<1>2. section \in 1..4
    BY <1>1, OneKind
<1>3. Exp!TypeOK'
    <2>1. 0..expNow \subseteq 0..ExpMaxTime
        BY DEF Exp!ExportAssumption, ExportInvariant, Exp!TypeOK
    <2>2. section' \in 0..Len(Exp!Sections) + 1
        BY <1>1, <1>2, SectionCount
    <2>3. whole' \subseteq Ids
        BY <1>1 DEF Exp!Rows
    <2>4. Exp!None \in [at : 0..ExpMaxTime, id : Ids \cup {0, -1}]
        BY DEF Exp!None, Exp!ExportAssumption
    <2> QED
        BY <1>1, <2>1, <2>2, <2>3, <2>4 DEF ExportInvariant, Exp!TypeOK
<1>4. \A i \in Ids : i \in Exp!Rows' => Exp!after(i)'
    <2>1. \A i \in Ids : created'[i] \in Int
        BY <1>1 DEF ExportInvariant, Exp!TypeOK
    <2>2. \A i \in Ids : i \in Exp!Rows' => created'[i] > 0
        BY <1>1 DEF Exp!Rows, ExportInvariant, Exp!TypeOK
    <2> QED
        BY <1>1, <2>2 DEF Exp!after, Exp!Before, Exp!Row, Exp!None
<1>5. Exp!Rows' \subseteq Ids /\ Exp!Range(out') = {} /\ Exp!IsInjective(out')
    BY <1>1 DEF Exp!Rows, Exp!Range, Exp!IsInjective
<1>6. cursor'.id # -1 /\ section' # 0
    BY <1>1, <1>2 DEF Exp!None
<1> QED
    BY <1>1, <1>3, <1>4, <1>5, <1>6 DEF ExportInvariant

LEMMA ExportTick == ASSUME Exp!ExportAssumption, ExportInvariant, Exp!Tick PROVE ExportInvariant'
<1>1. Exp!TypeOK'
    BY DEF Exp!Tick, Exp!ExportAssumption, ExportInvariant, Exp!TypeOK
<1> QED
    BY <1>1, KindsStay DEF Exp!Tick, ExportInvariant, Exp!Rows, Exp!after, Exp!Before, Exp!Row

LEMMA ExportInsert ==
    ASSUME Exp!ExportAssumption, ExportInvariant, NEW i \in Ids, Exp!Insert(i)
    PROVE  ExportInvariant'
<1>1. PICK t \in {expNow - 1, expNow} \ {0} : created' = [created EXCEPT ![i] = t]
    BY Zenon DEF Exp!Insert
<1>2. /\ created[i] = 0 /\ i \notin Exp!Range(out)
      /\ UNCHANGED <<expNow, section, cursor, out, whole, refused>>
    BY Zenon DEF Exp!Insert
<1>3. Exp!TypeOK'
    BY <1>1, <1>2 DEF Exp!ExportAssumption, ExportInvariant, Exp!TypeOK
<1>4. Exp!Rows \subseteq Exp!Rows' /\ Exp!Rows' \subseteq Exp!Rows \cup {i}
    BY <1>1, <1>2 DEF Exp!Rows, ExportInvariant, Exp!TypeOK
<1>5. i \notin whole
    BY <1>2 DEF ExportInvariant, Exp!Rows
<1>6. \A j \in Ids : j # i => Exp!Row(j)' = Exp!Row(j)
    BY <1>1 DEF Exp!Row, ExportInvariant, Exp!TypeOK
<1>7. \A j \in Ids : j # i => (Exp!after(j)' <=> Exp!after(j))
    BY <1>2, <1>6 DEF Exp!after
<1>8. whole \subseteq Ids /\ Exp!Rows \subseteq Ids
    BY DEF ExportInvariant, Exp!TypeOK, Exp!Rows
<1> QED
    BY <1>2, <1>3, <1>4, <1>5, <1>7, <1>8, KindsStay DEF ExportInvariant

LEMMA ExportDelete ==
    ASSUME Exp!ExportAssumption, ExportInvariant, NEW i \in Ids, Exp!Delete(i)
    PROVE  ExportInvariant'
<1>1. /\ created[i] # 0 /\ created' = [created EXCEPT ![i] = 0] /\ whole' = whole \ {i}
      /\ UNCHANGED <<expNow, section, cursor, out, refused>>
    BY Zenon DEF Exp!Delete
<1>2. Exp!TypeOK'
    BY <1>1 DEF Exp!ExportAssumption, ExportInvariant, Exp!TypeOK
<1>3. Exp!Rows' = Exp!Rows \ {i}
    BY <1>1 DEF Exp!Rows, ExportInvariant, Exp!TypeOK
<1>4. \A j \in Ids : j # i => Exp!Row(j)' = Exp!Row(j)
    BY <1>1 DEF Exp!Row, ExportInvariant, Exp!TypeOK
<1>5. \A j \in Ids : j # i => (Exp!after(j)' <=> Exp!after(j))
    BY <1>1, <1>4 DEF Exp!after
<1>6. whole \subseteq Ids /\ Exp!Rows \subseteq Ids
    BY DEF ExportInvariant, Exp!TypeOK, Exp!Rows
<1> QED
    BY <1>1, <1>2, <1>3, <1>5, <1>6, KindsStay DEF ExportInvariant

LEMMA ExportHolds == ASSUME Exp!ExportAssumption PROVE Exp!Spec => []ExportInvariant
<1>1. Exp!Init => ExportInvariant
    BY ExportInit
<1>2. ExportInvariant /\ [Exp!Next]_Exp!vars => ExportInvariant'
    <2> SUFFICES ASSUME ExportInvariant, [Exp!Next]_Exp!vars PROVE ExportInvariant'
        OBVIOUS
    <2>1. CASE Exp!Authorize
        BY <2>1, ExportAuthorize
    <2>2. CASE Exp!ReadAtOnce
        BY <2>2, ExportAtOnce
    <2>3. CASE Exp!ReadNewest
        BY <2>3, ExportNewest
    <2>4. CASE Exp!ReadPage
        BY <2>4, ExportPage
    <2>5. CASE Exp!EndSection
        BY <2>5, ExportEndSection
    <2>6. CASE Exp!Tick
        BY <2>6, ExportTick
    <2>7. ASSUME NEW i \in Ids, Exp!Insert(i) PROVE ExportInvariant'
        BY <2>7, ExportInsert
    <2>8. ASSUME NEW i \in Ids, Exp!Delete(i) PROVE ExportInvariant'
        BY <2>8, ExportDelete
    <2>9. CASE UNCHANGED Exp!vars
        BY <2>9, ExportKept
    <2> QED
        BY <2>1, <2>2, <2>3, <2>4, <2>5, <2>6, <2>7, <2>8, <2>9 DEF Exp!Next
<1> QED
    BY <1>1, <1>2, PTL DEF Exp!Spec

(* An export has every row once, whatever is written and deleted between   *)
(* its pages (workspace-data/export.ts).                                   *)
THEOREM ExportsAreExact == ASSUME Exp!ExportAssumption PROVE Exp!Spec => [](Exp!TypeOK /\ Exp!ExportIsExact)
<1>1. ExportInvariant => Exp!ExportIsExact
    <2> SUFFICES ASSUME ExportInvariant, Exp!Complete, Exp!Kind # "newest" PROVE whole \subseteq Exp!Range(out)
        BY Zenon DEF ExportInvariant, Exp!ExportIsExact
    <2>1. Exp!Reading /\ (cursor.id = -1 \/ (Exp!Kind # "paged" /\ (out # <<>> \/ Exp!Rows = {})))
        BY Zenon DEF Exp!Complete
    <2>2. ~Newest /\ (AtOnce \/ Paged)
        BY <2>1, OneKind, Zenon DEF Newest
    <2>3. CASE AtOnce
        <3>1. cursor.id # -1
            BY <2>3 DEF ExportInvariant, Exp!None
        <3>2. out # <<>> \/ Exp!Rows = {}
            BY <2>1, <3>1, Zenon
        <3> QED
            BY <2>3, <3>2 DEF ExportInvariant
    <2>4. CASE Paged
        <3>1. cursor.id = -1
            BY <2>1, <2>4, Zenon DEF Paged
        <3> QED
            BY <2>4, <3>1 DEF ExportInvariant
    <2> QED
        BY <2>2, <2>3, <2>4
<1>2. ExportInvariant => Exp!TypeOK
    BY DEF ExportInvariant
<1> QED
    BY <1>1, <1>2, ExportHolds, PTL

-----------------------------------------------------------------------------
(* The schema has what the proof of the erasure asks of it: its tables, the *)
(* keys of each, what refers to what in cascade, and where that leads.     *)
Sch == INSTANCE Schema

SchemaIs ==
    /\ Tables = Sch!Tables /\ PlatformTables = Sch!PlatformTables
    /\ References = Sch!References /\ CascadesTo = Sch!CascadesTo /\ OfWorkspace = Sch!OfWorkspace

Roots == {"authUsers", "authOrganizations", "authVerifications", "authRateLimits", "workspaces",
         "stripeEvents", "betaApplications"}
Plain == {"workspaceSettings", "subscriptions", "usageMonths", "stripeUsageReports", "usageDays",
          "domains", "workspaceProviderAccounts", "suppressions", "transactionalProfiles", "outboxJobs",
          "apiKeys", "apiRateLimits", "idempotencyKeys", "webhookEndpoints", "auditEvents", "adminReviews"}
Linked == {"authSessions", "authAccounts", "authMembers", "authInvitations", "authPasskeys",
           "stripeUsageReportJobs", "stripeCheckoutAttempts", "domainProviderBindings", "sesResources",
           "templates", "templateVersions", "messages", "usageLedger", "messageAttempts", "emailEvents",
           "attachments", "webhookDeliveries", "clientProvisioningRuns"}
TenantTables == Plain \cup (Linked \ {"authSessions", "authAccounts", "authMembers", "authInvitations", "authPasskeys"})

LEMMA TablesAre == ASSUME SchemaIs PROVE Tables = Roots \cup Plain \cup Linked
BY DEF SchemaIs, Sch!Tables, Sch!References, Roots, Plain, Linked

LEMMA RootKeys == ASSUME SchemaIs PROVE \A t \in Roots : References[t] = {}
BY DEF SchemaIs, Sch!References, Roots, Sch!authUsers, Sch!authOrganizations,
       Sch!authVerifications, Sch!authRateLimits, Sch!workspaces, Sch!stripeEvents,
       Sch!betaApplications

LEMMA PlainKeys == ASSUME SchemaIs PROVE \A t \in Plain : References[t] = {OfWorkspace}
BY DEF SchemaIs, Sch!References, Plain, Sch!workspaceSettings, Sch!subscriptions, Sch!usageMonths,
       Sch!stripeUsageReports, Sch!usageDays, Sch!domains, Sch!workspaceProviderAccounts,
       Sch!suppressions, Sch!transactionalProfiles, Sch!outboxJobs, Sch!apiKeys, Sch!apiRateLimits,
       Sch!idempotencyKeys, Sch!webhookEndpoints, Sch!auditEvents, Sch!adminReviews

LEMMA LinkedKeys ==
    ASSUME SchemaIs
    PROVE  /\ References["authSessions"] = {Sch!With("authUsers"), Sch!Nulls("authOrganizations")}
           /\ References["authAccounts"] = {Sch!With("authUsers")}
           /\ References["authMembers"] = {Sch!With("authOrganizations"), Sch!With("authUsers")}
           /\ References["authInvitations"] = {Sch!With("authOrganizations"), Sch!Nulls("authUsers")}
           /\ References["authPasskeys"] = {Sch!With("authUsers")}
           /\ References["stripeUsageReportJobs"] = {OfWorkspace, Sch!Nulls("stripeUsageReports")}
           /\ References["stripeCheckoutAttempts"] = {OfWorkspace, Sch!With("subscriptions")}
           /\ References["domainProviderBindings"] = {OfWorkspace, Sch!With("domains")}
           /\ References["sesResources"] = {OfWorkspace, Sch!With("domains")}
           /\ References["templates"] = {OfWorkspace, Sch!Needs("transactionalProfiles")}
           /\ References["templateVersions"] = {OfWorkspace, Sch!With("templates")}
           /\ References["messages"] = {OfWorkspace, Sch!Needs("domains"), Sch!Needs("transactionalProfiles")}
           /\ References["usageLedger"] = {Sch!With("messages"), OfWorkspace}
           /\ References["messageAttempts"] = {OfWorkspace, Sch!With("messages")}
           /\ References["emailEvents"] = {OfWorkspace, Sch!With("messages")}
           /\ References["attachments"] = {OfWorkspace, Sch!Nulls("messages")}
           /\ References["webhookDeliveries"] = {OfWorkspace, Sch!With("webhookEndpoints"), Sch!With("emailEvents")}
           /\ References["clientProvisioningRuns"] = {OfWorkspace, Sch!With("authInvitations")}
BY DEF SchemaIs, Sch!References, Sch!authSessions, Sch!authAccounts, Sch!authMembers,
       Sch!authInvitations, Sch!authPasskeys, Sch!stripeUsageReportJobs,
       Sch!stripeCheckoutAttempts, Sch!domainProviderBindings, Sch!sesResources, Sch!templates,
       Sch!templateVersions, Sch!messages, Sch!usageLedger, Sch!messageAttempts, Sch!emailEvents,
       Sch!attachments, Sch!webhookDeliveries, Sch!clientProvisioningRuns

\* What becomes of a row is told by the form of its key.
LEMMA KeyKinds ==
    \A s : /\ Sch!With(s).onDelete = "cascade" /\ Sch!Nulls(s).onDelete = "set null"
           /\ Sch!Needs(s).onDelete = "no action" /\ Sch!With(s).to = s /\ Sch!Nulls(s).to = s /\ Sch!Needs(s).to = s
<1>1. \A s : Sch!With(s).onDelete = "cascade" /\ Sch!With(s).to = s
    BY Zenon DEF Sch!With
<1>2. \A s : Sch!Nulls(s).onDelete = "set null" /\ Sch!Nulls(s).to = s
    BY Zenon DEF Sch!Nulls
<1>3. \A s : Sch!Needs(s).onDelete = "no action" /\ Sch!Needs(s).to = s
    BY Zenon DEF Sch!Needs
<1> QED
    BY <1>1, <1>2, <1>3, Zenon

LEMMA KeyForms ==
    \A s, t : (Sch!With(s) = Sch!With(t) => s = t) /\ Sch!Nulls(s) # Sch!With(t) /\ Sch!Needs(s) # Sch!With(t)
<1>1. \A s, t : Sch!With(s) = Sch!With(t) => s = t
    BY DEF Sch!With
<1>2. "set null" # "cascade" /\ "no action" # "cascade"
    BY Zenon
<1>3. \A s, t : Sch!Nulls(s) # Sch!With(t)
    BY <1>2, KeyKinds, Zenon
<1>4. \A s, t : Sch!Needs(s) # Sch!With(t)
    BY <1>2, KeyKinds, Zenon
<1> QED
    BY <1>1, <1>3, <1>4

\* u refers to t in cascade.
Edges ==
    {<<"authUsers", "authSessions">>, <<"authUsers", "authAccounts">>, <<"authUsers", "authMembers">>,
     <<"authUsers", "authPasskeys">>, <<"authOrganizations", "authMembers">>,
     <<"authOrganizations", "authInvitations">>, <<"authInvitations", "clientProvisioningRuns">>,
     <<"subscriptions", "stripeCheckoutAttempts">>, <<"domains", "domainProviderBindings">>,
     <<"domains", "sesResources">>, <<"templates", "templateVersions">>, <<"messages", "usageLedger">>,
     <<"messages", "messageAttempts">>, <<"messages", "emailEvents">>,
     <<"webhookEndpoints", "webhookDeliveries">>, <<"emailEvents", "webhookDeliveries">>}
Edge(t, u) == \/ t = "workspaces" /\ u \in TenantTables
              \/ <<t, u>> \in Edges
Goes(t, u) == \/ t = u
              \/ Edge(t, u)
              \/ <<t, u>> \in {<<"messages", "webhookDeliveries">>, <<"authOrganizations", "clientProvisioningRuns">>}

LEMMA EdgesAre ==
    ASSUME SchemaIs, NEW u \in Tables, NEW t
    PROVE  Sch!With(t) \in References[u] <=> Edge(t, u)
<1>1. OfWorkspace = Sch!With("workspaces")
    BY DEF SchemaIs, Sch!OfWorkspace
<1>2. CASE u \in Roots
    BY <1>2, RootKeys DEF Edge, Edges, Roots, TenantTables, Plain, Linked
<1>3. CASE u \in Plain
    BY <1>1, <1>3, PlainKeys, KeyForms DEF Edge, Edges, Plain, TenantTables
<1>4. CASE u \in Linked
    BY <1>1, <1>4, LinkedKeys, KeyForms DEF Edge, Edges, Linked, TenantTables, Plain
<1> QED
    BY <1>2, <1>3, <1>4, TablesAre

LEMMA GoesOn == \A t, u, v : Goes(t, u) /\ Goes(u, v) => Goes(t, v)
BY DEF Goes, Edge, Edges, TenantTables, Plain, Linked

LEMMA GoesThere == \A t, u : Goes(t, u) => \E v : (t = v \/ Edge(t, v)) /\ (v = u \/ Edge(v, u))
BY DEF Goes, Edge, Edges

LEMMA EdgeTables == ASSUME SchemaIs PROVE \A t, u : Edge(t, u) => t \in Tables /\ u \in Tables
BY TablesAre DEF Edge, Edges, Roots, Plain, Linked, TenantTables

-----------------------------------------------------------------------------
\* Eight steps lead where two do.
Chains == [t \in Tables |-> {u \in Tables : Goes(t, u)}]

LEMMA CascadesAre == ASSUME SchemaIs PROVE CascadesTo = Chains
<1>1. Sch!Direct = [t \in Tables |-> {u \in Tables : t = u \/ Edge(t, u)}]
    <2>1. ASSUME NEW t \in Tables PROVE {t} \cup {u \in Tables : Sch!With(t) \in References[u]} = {u \in Tables : t = u \/ Edge(t, u)}
        BY EdgesAre
    <2> QED
        BY <2>1 DEF SchemaIs, Sch!Direct
<1>2. Sch!Twice(Sch!Direct) = Chains
    <2>1. ASSUME NEW t \in Tables PROVE UNION {Sch!Direct[u] : u \in Sch!Direct[t]} = {u \in Tables : Goes(t, u)}
        <3>1. ASSUME NEW u \in Tables, NEW v \in Tables, v \in Sch!Direct[u], u \in Sch!Direct[t] PROVE Goes(t, v)
            BY <1>1, <3>1, GoesOn DEF Goes
        <3>2. ASSUME NEW v \in Tables, Goes(t, v) PROVE \E u \in Sch!Direct[t] : v \in Sch!Direct[u]
            <4>1. PICK u : (t = u \/ Edge(t, u)) /\ (u = v \/ Edge(u, v))
                BY <3>2, GoesThere
            <4> QED
                BY <1>1, <4>1, EdgeTables
        <3>3. Sch!Direct[t] \subseteq Tables /\ \A u \in Tables : Sch!Direct[u] \subseteq Tables
            BY <1>1
        <3> QED
            BY <3>1, <3>2, <3>3
    <2> QED
        BY <2>1 DEF SchemaIs, Sch!Twice, Chains
<1>3. Sch!Twice(Chains) = Chains
    <2>1. ASSUME NEW t \in Tables PROVE UNION {Chains[u] : u \in Chains[t]} = {u \in Tables : Goes(t, u)}
        <3>1. t \in Chains[t] /\ Chains[t] = {u \in Tables : Goes(t, u)}
            BY DEF Chains, Goes
        <3>2. ASSUME NEW u \in Chains[t] PROVE Chains[u] \subseteq Chains[t]
            BY <3>2, GoesOn DEF Chains
        <3> QED
            BY <3>1, <3>2
    <2> QED
        BY <2>1 DEF SchemaIs, Sch!Twice, Chains
<1> QED
    BY <1>2, <1>3 DEF SchemaIs, Sch!CascadesTo

LEMMA CascadesOf == ASSUME SchemaIs, NEW t \in Tables PROVE CascadesTo[t] = {u \in Tables : Goes(t, u)}
BY CascadesAre DEF Chains

LEMMA SchemaCascades == ASSUME SchemaIs PROVE CascadesFit
<1>1. ASSUME NEW t \in Tables PROVE t \in CascadesTo[t] /\ CascadesTo[t] \subseteq Tables
    BY CascadesOf DEF Goes
<1>2. ASSUME NEW t \in Tables, NEW u \in Tables, NEW v \in CascadesTo[t],
             [to |-> v, onDelete |-> "cascade"] \in References[u]
      PROVE  u \in CascadesTo[t]
    <2>1. Sch!With(v) \in References[u] /\ Goes(t, v)
        BY <1>2, CascadesOf DEF Sch!With
    <2>2. Goes(v, u)
        BY <2>1, EdgesAre DEF Goes
    <2> QED
        BY <2>1, <2>2, GoesOn, CascadesOf
<1> QED
    BY <1>1, <1>2 DEF CascadesFit

\* Every key is of a form, and only two tables need another.
LEMMA KeysAre ==
    ASSUME SchemaIs, NEW t \in Tables, NEW r \in References[t]
    PROVE  \/ \E s \in Tables : r = Sch!With(s) \/ r = Sch!Nulls(s)
           \/ /\ OfWorkspace \in References[t]
              /\ r = Sch!Needs("domains") \/ r = Sch!Needs("transactionalProfiles")
<1>1. OfWorkspace = Sch!With("workspaces")
    BY DEF SchemaIs, Sch!OfWorkspace
<1>2. CASE t \in Roots
    BY <1>2, RootKeys
<1>3. CASE t \in Plain
    BY <1>1, <1>3, PlainKeys, TablesAre DEF Roots
<1>4. CASE t \in Linked
    BY <1>1, <1>4, LinkedKeys, TablesAre DEF Linked, Roots, Plain
<1> QED
    BY <1>2, <1>3, <1>4, TablesAre

LEMMA SchemaTyped == ASSUME SchemaIs PROVE KeysAreTyped
<1>1. ASSUME NEW s \in Tables PROVE Sch!With(s) \in [to : Tables, onDelete : Kinds]
    BY Zenon DEF Sch!With, Kinds
<1>2. ASSUME NEW s \in Tables PROVE Sch!Nulls(s) \in [to : Tables, onDelete : Kinds]
    BY Zenon DEF Sch!Nulls, Kinds
<1>3. ASSUME NEW s \in Tables PROVE Sch!Needs(s) \in [to : Tables, onDelete : Kinds]
    BY Zenon DEF Sch!Needs, Kinds
<1>4. "domains" \in Tables /\ "transactionalProfiles" \in Tables
    BY TablesAre DEF Plain
<1>5. ASSUME NEW t \in Tables, NEW r \in References[t] PROVE r \in [to : Tables, onDelete : Kinds]
    BY <1>1, <1>2, <1>3, <1>4, KeysAre
<1> QED
    BY <1>5 DEF KeysAreTyped

Sweeping == {"webhookDeliveries", "emailEvents", "messageAttempts", "usageLedger", "stripeUsageReportJobs",
             "stripeUsageReports", "attachments", "outboxJobs", "idempotencyKeys", "suppressions", "messages"}

LEMMA SweptAre == Swept = Sweeping
<1> DEFINE s == Ers!purgeOrder
<1>1. /\ Len(s) = 11 /\ s[1] = "webhookDeliveries" /\ s[2] = "emailEvents" /\ s[3] = "messageAttempts"
      /\ s[4] = "usageLedger" /\ s[5] = "stripeUsageReportJobs" /\ s[6] = "stripeUsageReports"
      /\ s[7] = "attachments" /\ s[8] = "outboxJobs" /\ s[9] = "idempotencyKeys"
      /\ s[10] = "suppressions" /\ s[11] = "messages"
    BY DEF Ers!purgeOrder
<1>2. 1..11 = {1, 2, 3, 4, 5, 6, 7, 8, 9, 10, 11}
    OBVIOUS
<1> HIDE DEF s
<1> QED
    BY <1>1, <1>2 DEF Swept, Sweeping, s

LEMMA SchemaKeys == ASSUME SchemaIs PROVE KeysFit
<1>1. OfWorkspace = [to |-> "workspaces", onDelete |-> "cascade"]
    BY DEF SchemaIs, Sch!OfWorkspace, Sch!With
<1>2. ASSUME NEW t \in Tables, NEW r \in References[t], r.onDelete = "no action"
      PROVE  OfWorkspace \in References[t] /\ \A s \in Swept : r.to \notin CascadesTo[s]
    <2>1. "no action" # "cascade" /\ "no action" # "set null"
        BY Zenon
    <2>2. ~\E s \in Tables : r = Sch!With(s) \/ r = Sch!Nulls(s)
        BY <1>2, <2>1, KeyKinds, Zenon
    <2>3. OfWorkspace \in References[t] /\ (r = Sch!Needs("domains") \/ r = Sch!Needs("transactionalProfiles"))
        BY <2>2, KeysAre
    <2>4. r.to = "domains" \/ r.to = "transactionalProfiles"
        BY <2>3, KeyKinds, Zenon
    <2>5. ASSUME NEW s \in Sweeping PROVE ~Goes(s, "domains") /\ ~Goes(s, "transactionalProfiles") /\ s \in Tables
        BY TablesAre DEF Goes, Edge, Edges, Sweeping, Plain, Linked
    <2> QED
        BY <2>3, <2>4, <2>5, SweptAre, CascadesOf
<1> QED
    BY <1>1, <1>2 DEF KeysFit

LEMMA SchemaTables == ASSUME SchemaIs PROVE TablesFit
<1> DEFINE Aged == {"emailEvents", "idempotencyKeys", "outboxJobs", "messageAttempts", "auditEvents", "usageDays", "webhookEndpoints"}
<1>0. Forgotten = Aged
    BY DEF Forgotten, Ers!retentionTables
<1>1. Sweeping \cup Aged \cup {"workspaces", "authUsers", "authOrganizations"} \subseteq Tables
    BY TablesAre DEF Sweeping, Roots, Plain, Linked
<1>2. "workspaces" \notin PlatformTables
    BY DEF SchemaIs, Sch!PlatformTables
<1>3. Tables \subseteq CascadesTo["workspaces"] \cup CascadesTo["authOrganizations"] \cup PlatformTables
    <2>1. ASSUME NEW t \in Tables PROVE Goes("workspaces", t) \/ Goes("authOrganizations", t) \/ t \in PlatformTables
        BY TablesAre DEF SchemaIs, Goes, Edge, Edges, TenantTables, Roots, Plain, Linked,
                         Sch!PlatformTables
    <2> QED
        BY <1>1, <2>1, CascadesOf
<1>4. ASSUME NEW k \in 1..Len(Ers!purgeOrder)
      PROVE  CascadesTo[Ers!purgeOrder[k]] \subseteq {Ers!purgeOrder[j] : j \in 1..k}
    <2> DEFINE s == Ers!purgeOrder
    <2>1. /\ Len(s) = 11 /\ s[1] = "webhookDeliveries" /\ s[2] = "emailEvents" /\ s[3] = "messageAttempts"
          /\ s[4] = "usageLedger" /\ s[5] = "stripeUsageReportJobs" /\ s[6] = "stripeUsageReports"
          /\ s[7] = "attachments" /\ s[8] = "outboxJobs" /\ s[9] = "idempotencyKeys"
          /\ s[10] = "suppressions" /\ s[11] = "messages"
        BY DEF Ers!purgeOrder
    <2> HIDE DEF s
    <2>2. s[k] \in Tables /\ k \in 1..11
        BY <1>1, <2>1, SweptAre DEF Swept, s
    <2>3. ASSUME NEW t, Goes(s[k], t) PROVE \E j \in 1..k : t = s[j]
        <3>1. CASE k = 11
            BY <2>1, <2>3, <3>1 DEF Goes, Edge, Edges
        <3>2. CASE k = 2
            BY <2>1, <2>3, <3>2 DEF Goes, Edge, Edges
        <3>3. CASE k # 11 /\ k # 2
            BY <2>1, <2>2, <2>3, <3>3 DEF Goes, Edge, Edges
        <3> QED
            BY <3>1, <3>2, <3>3
    <2> QED
        BY <2>2, <2>3, CascadesOf DEF s
<1>5. ASSUME NEW t \in Aged \cup {"authUsers"}
      PROVE  CascadesTo[t] \cap (Billing \cup {"authInvitations", "authOrganizations"}) = {}
    BY <1>1, CascadesOf DEF Goes, Edge, Edges, Billing
<1>6. ASSUME NEW t \in Aged \cup Sweeping \cup {"authUsers", "authOrganizations"}
      PROVE  "workspaces" \notin CascadesTo[t]
    BY <1>1, CascadesOf DEF Goes, Edge, Edges, Sweeping, TenantTables, Plain, Linked
<1>7. ASSUME NEW t \in Aged \cup Sweeping \cup {"workspaces", "authOrganizations"}
      PROVE  CascadesTo[t] \cap Person = {}
    BY <1>1, CascadesOf DEF Goes, Edge, Edges, Sweeping, TenantTables, Plain, Linked, Person
<1> HIDE DEF Aged
<1> QED
    BY <1>0, <1>1, <1>2, <1>3, <1>4, <1>5, <1>6, <1>7, SweptAre DEF TablesFit
LEMMA SchemaIsFit == ASSUME SchemaIs PROVE SchemaFits
BY SchemaCascades, SchemaTyped, SchemaKeys, SchemaTables DEF SchemaFits
=============================================================================
