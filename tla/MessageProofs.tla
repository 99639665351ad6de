---------------------------- MODULE MessageProofs ---------------------------
(***************************************************************************)
(* Theorems about the parts that a message meets on its way: acceptance,   *)
(* the templates it may use, the warmup that limits it, the call of a      *)
(* provider, the secrets that the workers load, the resources that the     *)
(* providers keep for a workspace, its attachments, and the events that    *)
(* tell what became of it.                                                 *)
(*                                                                         *)
(* Each part is an instance of its module.  A parameter of several parts   *)
(* is declared once; a name that stands for another thing in a later part  *)
(* has that part's name before it.  The invariant of a part precedes the   *)
(* lemmas on its steps, and the theorem is last.                           *)
(***************************************************************************)
EXTENDS Integers, Sequences, FiniteSets, FiniteSetTheorems, TLAPS

CONSTANTS
    Requests, None, Keys, ConsoleKeys, Bodies, Files, FilesOf, RateLimit,
    Limits, MaxMinute, MaxFaults, Editors, MaxVersions, Steps, Policy,
    Window, DefaultLimit, Pins, Workers, MaxDay, MaxEvents, MaxTries,
    Secrets, Callers, SecMaxFaults, Bindings, MaxOps, PmkMaxFaults, MaxLost,
    Runs, Environment, SesMaxFaults, AttFiles, Typed, Scanners, MaxVerdicts,
    Events, Invalid, Messages, Tag, Id, Records, Invocations, BatchSize,
    MaxReceive, Timeout, Visibility, EvpMaxFaults, EvpMaxOps

VARIABLES
    call, answer, created, record, owner, ready, used, limit, minute, spent,
    paid, faults, status, versions, current, profile, editor, served, passed,
    reason, stage, wrmLimit, pinned, approvedAt, advancedAt, usage, today,
    worker, happened, provider, enabled, cached, prvStatus, pc, prvAnswer,
    sent, taken, tries, env, loading, running, secCall, secFaults, binding,
    account, servers, param, domains, webhooks, late, lock, pmkWorker,
    reading, ops, lost, identity, mailFrom, resources, recorded, run,
    sesFaults, attRow, owned, object, window, expired, verdicts, scanner,
    message, purge, erased, condemned, evpRecord, evpRun, ingested, applied,
    stored, standby, evpFaults, evpOps

Acc == INSTANCE Acceptance
Tpl == INSTANCE Templates
Wrm == INSTANCE Warmup WITH limit <- wrmLimit
Prv == INSTANCE ProviderCall WITH status <- prvStatus, answer <- prvAnswer
Sec == INSTANCE RuntimeSecrets WITH
    MaxFaults <- SecMaxFaults, call <- secCall, faults <- secFaults
Pmk == INSTANCE Provisioning WITH
    MaxFaults <- PmkMaxFaults, worker <- pmkWorker
Ses == INSTANCE SesDomain WITH MaxFaults <- SesMaxFaults, faults <- sesFaults
Att == INSTANCE Attachments WITH Files <- AttFiles, row <- attRow
Evp == INSTANCE EventPipeline WITH
    MaxFaults <- EvpMaxFaults, MaxOps <- EvpMaxOps, record <- evpRecord,
    run <- evpRun, faults <- evpFaults, ops <- evpOps

-----------------------------------------------------------------------------
\* Finite sets are the same inside and outside the instance.
LEMMA AcceptanceSets ==
    \A S : (Acc!IsFiniteSet(S) <=> IsFiniteSet(S)) /\ Acc!Cardinality(S) = Cardinality(S)
BY DEF Acc!IsFiniteSet, IsFiniteSet, Acc!Cardinality, Cardinality

\* What a request has in hand, by how far it is.
LEMMA CallShape ==
    ASSUME NEW c \in Acc!Calls
    PROVE  /\ c.pc \in {"idle", "lookup", "limit", "prepare", "recover", "done", "commit"}
           /\ c.pc # "idle" => /\ c.in \in Acc!Inputs
                               /\ c.in.key \in Keys /\ c.in.body \in Bodies /\ c.in.mode \in Acc!Modes
           /\ c.pc = "commit" => c.limit \in Limits
BY DEF Acc!Calls, Acc!NoInput, Acc!Inputs

LEMMA CallMakers ==
    ASSUME NEW in \in Acc!Inputs
    PROVE  /\ \A at \in {"lookup", "limit", "prepare", "recover", "done"} : [pc |-> at, in |-> in] \in Acc!Calls
           /\ \A l \in Limits : [pc |-> "commit", in |-> in, limit |-> l] \in Acc!Calls
BY DEF Acc!Calls

LEMMA AnswerMakers ==
    /\ \A m \in Requests : [code |-> "accepted", message |-> m] \in Acc!Answers
    /\ \A c \in Acc!Codes : [code |-> c, message |-> None] \in Acc!Answers
BY DEF Acc!Answers

LEMMA GotoType ==
    ASSUME Acc!TypeOK, NEW r \in Requests, ~Acc!At(r, "idle"),
           NEW at \in {"lookup", "limit", "prepare", "recover", "done"}, Acc!Goto(r, at)
    PROVE  call' \in [Requests -> Acc!Calls]
BY CallShape, CallMakers DEF Acc!TypeOK, Acc!Goto, Acc!In, Acc!At

LEMMA RefuseType ==
    ASSUME Acc!TypeOK, NEW r \in Requests, ~Acc!At(r, "idle"), NEW code \in Acc!Codes, Acc!Refuse(r, code)
    PROVE  call' \in [Requests -> Acc!Calls] /\ answer' \in [Requests -> Acc!Answers]
BY GotoType, AnswerMakers DEF Acc!TypeOK, Acc!Refuse, Acc!Respond

LEMMA RespondType ==
    ASSUME Acc!TypeOK, NEW r \in Requests, ~Acc!At(r, "idle"), NEW m \in Requests, Acc!Respond(r, "accepted", m)
    PROVE  call' \in [Requests -> Acc!Calls] /\ answer' \in [Requests -> Acc!Answers]
BY GotoType, AnswerMakers DEF Acc!TypeOK, Acc!Respond

LEMMA InsertType ==
    ASSUME Acc!TypeOK, NEW r \in Requests, ~Acc!At(r, "idle"), Acc!Insert(r)
    PROVE  /\ created' \subseteq Requests /\ used' \in Nat
           /\ record' \in [Keys -> Requests \cup {None}]
           /\ owner' \in [Files -> Requests \cup {None}]
BY CallShape DEF Acc!TypeOK, Acc!Insert, Acc!At, Acc!In

LEMMA AcceptanceInitTypes == Acc!AcceptanceAssumption => (Acc!Init => Acc!TypeOK)
BY DEF Acc!AcceptanceAssumption, Acc!Init, Acc!TypeOK, Acc!Calls, Acc!Answers, Acc!Unanswered, Acc!Modes

LEMMA AcceptanceTypes ==
    ASSUME Acc!AcceptanceAssumption, Acc!TypeOK, [Acc!Next]_Acc!vars
    PROVE  Acc!TypeOK'
<1> USE DEF Acc!AcceptanceAssumption
<1>1. ASSUME NEW r \in Requests, Acc!authenticateApiKey(r) PROVE Acc!TypeOK'
    <2>1. PICK in \in Acc!Inputs : call' = [call EXCEPT ![r] = [pc |-> "lookup", in |-> in]]
        BY <1>1 DEF Acc!authenticateApiKey
    <2>2. [pc |-> "lookup", in |-> in] \in Acc!Calls
        BY CallMakers
    <2>3. call' \in [Requests -> Acc!Calls]
        BY <2>1, <2>2 DEF Acc!TypeOK
    <2>4. UNCHANGED <<answer, created, record, owner, used, ready, limit, minute, spent, paid, faults>>
        BY <1>1 DEF Acc!authenticateApiKey, Acc!rows, Acc!env
    <2> QED
        BY <2>3, <2>4 DEF Acc!TypeOK
<1>2. ASSUME NEW r \in Requests, Acc!sendConsoleTest(r) PROVE Acc!TypeOK'
    <2>1. PICK k \in ConsoleKeys, b \in Bodies :
              call' = [call EXCEPT ![r] = [pc |-> "limit", in |-> [key |-> k, body |-> b, mode |-> "test"]]]
        BY <1>2 DEF Acc!sendConsoleTest
    <2>2. [key |-> k, body |-> b, mode |-> "test"] \in Acc!Inputs
        BY DEF Acc!Inputs, Acc!Modes
    <2> QED
        BY <1>2, <2>1, <2>2, CallMakers DEF Acc!sendConsoleTest, Acc!TypeOK, Acc!rows, Acc!env
<1>3. ASSUME NEW r \in Requests, Acc!Lookup(r) PROVE Acc!TypeOK'
    <2>1. ~Acc!At(r, "idle") /\ record[Acc!In(r).key] \in Requests \cup {None}
        BY <1>3, CallShape DEF Acc!Lookup, Acc!At, Acc!In, Acc!TypeOK
    <2>2. call' \in [Requests -> Acc!Calls] /\ answer' \in [Requests -> Acc!Answers]
        BY <1>3, <2>1, GotoType, RefuseType, RespondType DEF Acc!Lookup, Acc!TypeOK, Acc!Codes
    <2> QED
        BY <1>3, <2>2 DEF Acc!Lookup, Acc!TypeOK, Acc!rows, Acc!env
<1>4. ASSUME NEW r \in Requests, Acc!consumeWorkspaceRateLimit(r) PROVE Acc!TypeOK'
    <2>1. ~Acc!At(r, "idle") /\ Acc!In(r).mode \in Acc!Modes
        BY <1>4, CallShape DEF Acc!consumeWorkspaceRateLimit, Acc!At, Acc!In, Acc!TypeOK
    <2>2. call' \in [Requests -> Acc!Calls] /\ answer' \in [Requests -> Acc!Answers]
        BY <1>4, <2>1, GotoType, RefuseType DEF Acc!consumeWorkspaceRateLimit, Acc!TypeOK, Acc!Codes
    <2>3. spent' \in [Acc!Modes -> Nat] /\ (\A m \in Acc!Modes : spent'[m] <= RateLimit[m]) /\ paid' \in [Requests -> 0..MaxMinute]
        BY <1>4, <2>1 DEF Acc!consumeWorkspaceRateLimit, Acc!TypeOK, Acc!BelowRate
    <2> QED
        BY <1>4, <2>2, <2>3 DEF Acc!consumeWorkspaceRateLimit, Acc!TypeOK, Acc!rows, Acc!env
<1>5. ASSUME NEW r \in Requests, Acc!Prepare(r) PROVE Acc!TypeOK'
    <2>1. ~Acc!At(r, "idle") /\ Acc!In(r) \in Acc!Inputs
        BY <1>5, CallShape DEF Acc!Prepare, Acc!At, Acc!In, Acc!TypeOK
    <2>2. CASE \E code \in Acc!Codes : Acc!Refuse(r, code)
        BY <1>5, <2>1, <2>2, RefuseType DEF Acc!Prepare, Acc!TypeOK, Acc!rows, Acc!env
    <2>3. CASE call' = [call EXCEPT ![r] = [pc |-> "commit", in |-> Acc!In(r), limit |-> limit]] /\ UNCHANGED answer
        BY <1>5, <2>1, <2>3, CallMakers DEF Acc!Prepare, Acc!TypeOK, Acc!rows, Acc!env
    <2> QED
        BY <1>5, <2>2, <2>3 DEF Acc!Prepare, Acc!Codes
<1>6. ASSUME NEW r \in Requests, Acc!Commit(r) PROVE Acc!TypeOK'
    <2>1. ~Acc!At(r, "idle")
        BY <1>6 DEF Acc!Commit, Acc!At
    <2>2. call' \in [Requests -> Acc!Calls] /\ answer' \in [Requests -> Acc!Answers]
        BY <1>6, <2>1, GotoType, RespondType, RefuseType DEF Acc!Commit, Acc!TypeOK, Acc!Codes
    <2>3. /\ created' \subseteq Requests /\ used' \in Nat
          /\ record' \in [Keys -> Requests \cup {None}]
          /\ owner' \in [Files -> Requests \cup {None}]
        BY <1>6, <2>1, InsertType DEF Acc!Commit, Acc!RollBack, Acc!RolledBack, Acc!rows, Acc!TypeOK
    <2> QED
        BY <1>6, <2>2, <2>3 DEF Acc!Commit, Acc!TypeOK, Acc!env
<1>7. ASSUME NEW r \in Requests, Acc!CommitUnheard(r) PROVE Acc!TypeOK'
    <2>1. ~Acc!At(r, "idle")
        BY <1>7 DEF Acc!CommitUnheard, Acc!At
    <2> QED
        BY <1>7, <2>1, RefuseType, InsertType DEF Acc!CommitUnheard, Acc!TypeOK, Acc!env, Acc!Fault, Acc!Codes
<1>8. ASSUME NEW r \in Requests, Acc!Recover(r) PROVE Acc!TypeOK'
    <2>1. ~Acc!At(r, "idle") /\ record[Acc!In(r).key] \in Requests \cup {None}
        BY <1>8, CallShape DEF Acc!Recover, Acc!At, Acc!In, Acc!TypeOK
    <2>2. call' \in [Requests -> Acc!Calls] /\ answer' \in [Requests -> Acc!Answers]
        BY <1>8, <2>1, RefuseType, RespondType DEF Acc!Recover, Acc!TypeOK, Acc!Codes, Acc!SameBody
    <2> QED
        BY <1>8, <2>2 DEF Acc!Recover, Acc!TypeOK, Acc!rows, Acc!env
<1>9. ASSUME NEW r \in Requests, Acc!Fail(r) PROVE Acc!TypeOK'
    BY <1>9, RefuseType DEF Acc!Fail, Acc!Running, Acc!At, Acc!TypeOK, Acc!rows, Acc!env, Acc!Fault, Acc!Codes
<1>10. CASE \E l \in Limits : Acc!SetLimit(l)
    BY <1>10 DEF Acc!SetLimit, Acc!TypeOK, Acc!rows
<1>11. CASE \E f \in Files : Acc!Spoil(f)
    BY <1>11 DEF Acc!Spoil, Acc!TypeOK, Acc!rows
<1>12. CASE Acc!NextMinute
    BY <1>12 DEF Acc!NextMinute, Acc!TypeOK, Acc!rows
<1>13. CASE \E k \in Keys : Acc!PurgeRecord(k)
    BY <1>13 DEF Acc!PurgeRecord, Acc!TypeOK, Acc!env
<1>14. CASE UNCHANGED Acc!vars
    BY <1>14 DEF Acc!vars, Acc!rows, Acc!env, Acc!TypeOK
<1> QED
    BY <1>1, <1>2, <1>3, <1>4, <1>5, <1>6, <1>7, <1>8, <1>9, <1>10, <1>11, <1>12, <1>13, <1>14 DEF Acc!Next, Acc!Handle

-----------------------------------------------------------------------------
(* A request names its message from the moment it is read, and a request   *)
(* that is done stays as it is.                                            *)
Paying(mode, t) == {r \in Requests : paid[r] = t /\ Acc!In(r).mode = mode}

RequestHolds(r) ==
    /\ r \in created => Acc!At(r, "done") /\ paid[r] > 0
    /\ call[r].pc \in {"prepare", "commit", "recover"} => paid[r] > 0
    /\ call[r].pc \in {"idle", "lookup", "limit"} => paid[r] = 0
    /\ paid[r] <= minute
    /\ answer[r].code = "accepted" => Acc!At(r, "done")
RecordsHold ==
    \A k \in Keys : record[k] # None => record[k] \in created /\ Acc!In(record[k]).key = k
RatesHold ==
    \A mode \in Acc!Modes, t \in 1..MaxMinute :
        /\ Cardinality(Paying(mode, t)) <= RateLimit[mode]
        /\ t = minute => Cardinality(Paying(mode, t)) <= spent[mode]
AcceptanceInvariant ==
    /\ \A r \in Requests : RequestHolds(r)
    /\ RecordsHold /\ RatesHold
    /\ Acc!OneMessagePerKey /\ Acc!AnswersNameTheRequest /\ Acc!FilesFollowTheMessage
    /\ Acc!ReservationsAreMessages

\* What no step does to a request: forget what it asks, or go on after the end.
LEMMA RequestsKeep ==
    ASSUME Acc!TypeOK, [Acc!Next]_Acc!vars
    PROVE  \A q \in Requests :
             /\ Acc!At(q, "done") => call'[q] = call[q] /\ answer'[q] = answer[q] /\ paid'[q] = paid[q]
             /\ ~Acc!At(q, "idle") => call'[q].pc # "idle" /\ call'[q].in = call[q].in
             /\ answer'[q] = answer[q] \/ call'[q].pc = "done"
<1>1. ASSUME NEW r \in Requests,
             Acc!authenticateApiKey(r) \/ Acc!sendConsoleTest(r) \/ Acc!Handle(r) \/ Acc!CommitUnheard(r) \/ Acc!Fail(r)
      PROVE  /\ ~Acc!At(r, "done")
             /\ \A q \in Requests \ {r} : call'[q] = call[q] /\ answer'[q] = answer[q] /\ paid'[q] = paid[q]
             /\ ~Acc!At(r, "idle") => call'[r].pc # "idle" /\ call'[r].in = call[r].in
             /\ answer'[r] = answer[r] \/ call'[r].pc = "done"
    <2> USE DEF Acc!TypeOK, Acc!At, Acc!In, Acc!Goto, Acc!Refuse, Acc!Respond
    <2>1. CASE Acc!authenticateApiKey(r)
        BY <2>1 DEF Acc!authenticateApiKey
    <2>2. CASE Acc!sendConsoleTest(r)
        BY <2>2 DEF Acc!sendConsoleTest
    <2>3. CASE Acc!Lookup(r)
        BY <2>3 DEF Acc!Lookup
    <2>4. CASE Acc!consumeWorkspaceRateLimit(r)
        BY <2>4 DEF Acc!consumeWorkspaceRateLimit
    <2>5. CASE Acc!Prepare(r)
        BY <2>5 DEF Acc!Prepare
    <2>6. CASE Acc!Commit(r)
        BY <2>6 DEF Acc!Commit
    <2>7. CASE Acc!Recover(r)
        BY <2>7 DEF Acc!Recover
    <2>8. CASE Acc!CommitUnheard(r)
        BY <2>8 DEF Acc!CommitUnheard
    <2>9. CASE Acc!Fail(r)
        BY <2>9 DEF Acc!Fail, Acc!Running
    <2> QED
        BY <1>1, <2>1, <2>2, <2>3, <2>4, <2>5, <2>6, <2>7, <2>8, <2>9 DEF Acc!Handle
<1>2. CASE UNCHANGED <<call, answer, paid>>
    BY <1>2 DEF Acc!At
<1>3. (\E l \in Limits : Acc!SetLimit(l)) \/ (\E f \in Files : Acc!Spoil(f)) \/ Acc!NextMinute
        \/ (\E k \in Keys : Acc!PurgeRecord(k)) \/ UNCHANGED Acc!vars => UNCHANGED <<call, answer, paid>>
    BY DEF Acc!SetLimit, Acc!Spoil, Acc!NextMinute, Acc!PurgeRecord, Acc!vars
<1> QED
    BY <1>1, <1>2, <1>3 DEF Acc!Next, Acc!At

\* The rows change by the one transaction, or a record is purged.
Inserts(r) ==
    /\ Acc!Insert(r) /\ Acc!At(r, "commit") /\ call'[r].pc = "done"
    /\ Acc!KeyFree(Acc!In(r).key) /\ Acc!Claimable(FilesOf[Acc!In(r).body])
    /\ Acc!In(r).mode = "live" => used < call[r].limit

LEMMA RowsMove ==
    ASSUME Acc!TypeOK, [Acc!Next]_Acc!vars
    PROVE  \/ UNCHANGED Acc!rows
           \/ \E r \in Requests : Inserts(r)
           \/ \E k \in Keys : record' = [record EXCEPT ![k] = None] /\ UNCHANGED <<created, owner, used>>
<1>1. ASSUME NEW r \in Requests, Acc!Commit(r) \/ Acc!CommitUnheard(r)
      PROVE  UNCHANGED Acc!rows \/ Inserts(r)
    BY <1>1 DEF Acc!Commit, Acc!CommitUnheard, Inserts, Acc!Goto, Acc!Respond, Acc!Refuse, Acc!RollBack, Acc!RolledBack, Acc!rows, Acc!TypeOK,
                Acc!OverQuota, Acc!QuotaLeft
<1>2. ASSUME NEW r \in Requests,
             Acc!authenticateApiKey(r) \/ Acc!sendConsoleTest(r) \/ Acc!Lookup(r) \/ Acc!consumeWorkspaceRateLimit(r)
             \/ Acc!Prepare(r) \/ Acc!Recover(r) \/ Acc!Fail(r)
      PROVE  UNCHANGED Acc!rows
    BY <1>2 DEF Acc!authenticateApiKey, Acc!sendConsoleTest, Acc!Lookup, Acc!consumeWorkspaceRateLimit, Acc!Prepare, Acc!Recover, Acc!Fail
<1>3. (\E l \in Limits : Acc!SetLimit(l)) \/ (\E f \in Files : Acc!Spoil(f)) \/ Acc!NextMinute \/ UNCHANGED Acc!vars
        => UNCHANGED Acc!rows
    BY DEF Acc!SetLimit, Acc!Spoil, Acc!NextMinute, Acc!vars
<1>4. ASSUME NEW k \in Keys, Acc!PurgeRecord(k)
      PROVE  record' = [record EXCEPT ![k] = None] /\ UNCHANGED <<created, owner, used>>
    BY <1>4 DEF Acc!PurgeRecord
<1> QED
    BY <1>1, <1>2, <1>3, <1>4 DEF Acc!Next, Acc!Handle

\* The budget of a minute is paid in one step, on the way from "limit".
Pays(r) ==
    /\ Acc!At(r, "limit") /\ call'[r].pc = "prepare"
    /\ spent[Acc!In(r).mode] < RateLimit[Acc!In(r).mode]
    /\ spent' = [spent EXCEPT ![Acc!In(r).mode] = @ + 1]
    /\ paid' = [paid EXCEPT ![r] = minute]
    /\ UNCHANGED <<created, minute, answer>>
    /\ \A q \in Requests \ {r} : call'[q] = call[q]

LEMMA BudgetMoves ==
    ASSUME Acc!TypeOK, [Acc!Next]_Acc!vars
    PROVE  \/ UNCHANGED <<spent, paid, minute>>
           \/ \E r \in Requests : Pays(r)
           \/ /\ minute' = minute + 1 /\ minute < MaxMinute /\ spent' = [m \in Acc!Modes |-> 0]
              /\ UNCHANGED <<call, answer, created, paid>>
<1>1. ASSUME NEW r \in Requests, Acc!consumeWorkspaceRateLimit(r)
      PROVE  UNCHANGED <<spent, paid, minute>> \/ Pays(r)
    BY <1>1 DEF Acc!consumeWorkspaceRateLimit, Pays, Acc!BelowRate, Acc!Goto, Acc!env, Acc!rows, Acc!TypeOK, Acc!At
<1>2. ASSUME NEW r \in Requests,
             Acc!authenticateApiKey(r) \/ Acc!sendConsoleTest(r) \/ Acc!Lookup(r) \/ Acc!Commit(r) \/ Acc!CommitUnheard(r)
             \/ Acc!Prepare(r) \/ Acc!Recover(r) \/ Acc!Fail(r)
      PROVE  UNCHANGED <<spent, paid, minute>>
    BY <1>2 DEF Acc!authenticateApiKey, Acc!sendConsoleTest, Acc!Lookup, Acc!Commit, Acc!CommitUnheard, Acc!Prepare, Acc!Recover, Acc!Fail, Acc!env
<1>3. (\E l \in Limits : Acc!SetLimit(l)) \/ (\E f \in Files : Acc!Spoil(f)) \/ (\E k \in Keys : Acc!PurgeRecord(k))
        \/ UNCHANGED Acc!vars => UNCHANGED <<spent, paid, minute>>
    BY DEF Acc!SetLimit, Acc!Spoil, Acc!PurgeRecord, Acc!vars, Acc!env
<1>4. Acc!NextMinute => /\ minute' = minute + 1 /\ minute < MaxMinute /\ spent' = [m \in Acc!Modes |-> 0]
                        /\ UNCHANGED <<call, answer, created, paid>>
    BY DEF Acc!NextMinute, Acc!rows
<1> QED
    BY <1>1, <1>2, <1>3, <1>4 DEF Acc!Next, Acc!Handle

\* How a request gets from one step to the next.
LEMMA RequestsMove ==
    ASSUME Acc!TypeOK, [Acc!Next]_Acc!vars, NEW r \in Requests, UNCHANGED spent
    PROVE  \/ call'[r] = call[r]
           \/ call[r].pc \in {"idle", "lookup", "limit"} /\ call'[r].pc \in {"lookup", "limit", "done"}
           \/ call[r].pc \in {"prepare", "commit", "recover"} /\ call'[r].pc \in {"commit", "recover", "done"}
<1>1. ASSUME NEW q \in Requests,
             Acc!authenticateApiKey(q) \/ Acc!sendConsoleTest(q) \/ Acc!Handle(q) \/ Acc!CommitUnheard(q) \/ Acc!Fail(q)
      PROVE  /\ q # r => call'[r] = call[r]
             /\ \/ call'[q] = call[q]
                \/ call[q].pc \in {"idle", "lookup", "limit"} /\ call'[q].pc \in {"lookup", "limit", "done"}
                \/ call[q].pc \in {"prepare", "commit", "recover"} /\ call'[q].pc \in {"commit", "recover", "done"}
    <2> USE DEF Acc!TypeOK, Acc!At, Acc!In, Acc!Goto, Acc!Refuse, Acc!Respond
    <2>1. CASE Acc!authenticateApiKey(q)
        BY <2>1 DEF Acc!authenticateApiKey
    <2>2. CASE Acc!sendConsoleTest(q)
        BY <2>2 DEF Acc!sendConsoleTest
    <2>3. CASE Acc!Lookup(q)
        BY <2>3 DEF Acc!Lookup
    <2>4. CASE Acc!consumeWorkspaceRateLimit(q)
        <3>1. Acc!In(q).mode \in Acc!Modes /\ spent[Acc!In(q).mode] + 1 # spent[Acc!In(q).mode]
            BY <2>4, CallShape DEF Acc!consumeWorkspaceRateLimit
        <3> QED
            BY <2>4, <3>1 DEF Acc!consumeWorkspaceRateLimit
    <2>5. CASE Acc!Prepare(q)
        BY <2>5 DEF Acc!Prepare
    <2>6. CASE Acc!Commit(q)
        BY <2>6 DEF Acc!Commit
    <2>7. CASE Acc!Recover(q)
        BY <2>7 DEF Acc!Recover
    <2>8. CASE Acc!CommitUnheard(q)
        BY <2>8 DEF Acc!CommitUnheard
    <2>9. CASE Acc!Fail(q)
        BY <2>9, CallShape DEF Acc!Fail, Acc!Running
    <2> QED
        BY <1>1, <2>1, <2>2, <2>3, <2>4, <2>5, <2>6, <2>7, <2>8, <2>9 DEF Acc!Handle
<1>2. (\E l \in Limits : Acc!SetLimit(l)) \/ (\E f \in Files : Acc!Spoil(f)) \/ Acc!NextMinute
        \/ (\E k \in Keys : Acc!PurgeRecord(k)) \/ UNCHANGED Acc!vars => UNCHANGED call
    BY DEF Acc!SetLimit, Acc!Spoil, Acc!NextMinute, Acc!PurgeRecord, Acc!vars
<1> QED
    BY <1>1, <1>2 DEF Acc!Next

LEMMA RequestsNext ==
    ASSUME Acc!TypeOK, Acc!TypeOK', AcceptanceInvariant, [Acc!Next]_Acc!vars, NEW r \in Requests
    PROVE  RequestHolds(r)'
<1>1. RequestHolds(r) /\ paid[r] \in Nat /\ minute \in Nat
    BY DEF AcceptanceInvariant, Acc!TypeOK
<1>2. r \in created' => r \in created \/ Inserts(r)
    BY RowsMove DEF Acc!rows, Inserts, Acc!Insert
<1>3. answer'[r] = answer[r] \/ call'[r].pc = "done"
    BY RequestsKeep
<1>4. CASE UNCHANGED <<spent, paid, minute>>
    <2>1. r \in created' => call'[r].pc = "done" /\ paid'[r] > 0
        BY <1>1, <1>2, <1>4, RequestsKeep DEF RequestHolds, Acc!At, Inserts
    <2> QED
        BY <1>1, <1>3, <1>4, <2>1, RequestsMove, RequestsKeep DEF RequestHolds, Acc!At
<1>5. ASSUME NEW q \in Requests, Pays(q) PROVE RequestHolds(r)'
    BY <1>1, <1>5, CallShape DEF RequestHolds, Pays, Acc!At, Acc!TypeOK
<1>6. CASE minute' = minute + 1 /\ UNCHANGED <<call, answer, created, paid>>
    BY <1>1, <1>6 DEF RequestHolds, Acc!At
<1> QED
    BY <1>4, <1>5, <1>6, BudgetMoves

LEMMA PayingIsFinite ==
    ASSUME Acc!AcceptanceAssumption, NEW mode, NEW t
    PROVE  IsFiniteSet(Paying(mode, t)) /\ Cardinality(Paying(mode, t)) \in Nat
BY AcceptanceSets, FS_Subset, FS_CardinalityType DEF Acc!AcceptanceAssumption, Paying

LEMMA RatesNext ==
    ASSUME Acc!AcceptanceAssumption, Acc!TypeOK, Acc!TypeOK', AcceptanceInvariant, [Acc!Next]_Acc!vars
    PROVE  RatesHold'
<1>1. SUFFICES ASSUME NEW mode \in Acc!Modes, NEW t \in 1..MaxMinute
               PROVE  /\ Cardinality(Paying(mode, t)') <= RateLimit[mode]
                      /\ t = minute' => Cardinality(Paying(mode, t)') <= spent'[mode]
    BY DEF RatesHold
<1>2. /\ Cardinality(Paying(mode, t)) <= RateLimit[mode]
      /\ t = minute => Cardinality(Paying(mode, t)) <= spent[mode]
      /\ \A q \in Requests : paid[q] = t => call[q].pc # "idle"
    BY DEF AcceptanceInvariant, RatesHold, RequestHolds
<1>3. ASSUME UNCHANGED paid PROVE Paying(mode, t)' = Paying(mode, t)
    BY <1>2, <1>3, RequestsKeep DEF Paying, Acc!In, Acc!At
<1>4. CASE UNCHANGED <<spent, paid, minute>>
    BY <1>2, <1>3, <1>4
<1>5. ASSUME NEW q \in Requests, Pays(q)
      PROVE  /\ Cardinality(Paying(mode, t)') <= RateLimit[mode]
             /\ t = minute' => Cardinality(Paying(mode, t)') <= spent'[mode]
    <2>1. paid[q] = 0 /\ Acc!In(q)' = Acc!In(q) /\ Acc!In(q).mode \in Acc!Modes
        BY <1>5, RequestsKeep, CallShape DEF AcceptanceInvariant, RequestHolds, Pays, Acc!At, Acc!In, Acc!TypeOK
    <2>2. CASE t = minute /\ mode = Acc!In(q).mode
        <3>1. Paying(mode, t)' = Paying(mode, t) \cup {q} /\ q \notin Paying(mode, t)
            BY <1>2, <1>5, <2>1, <2>2, RequestsKeep DEF Paying, Pays, Acc!In, Acc!At, Acc!TypeOK
        <3>2. Cardinality(Paying(mode, t)') = Cardinality(Paying(mode, t)) + 1
            BY <3>1, PayingIsFinite, FS_AddElement
        <3>3. spent'[mode] = spent[mode] + 1 /\ spent[mode] \in Nat /\ spent[mode] + 1 <= RateLimit[mode]
            BY <1>5, <2>2 DEF Pays, Acc!TypeOK, Acc!AcceptanceAssumption
        <3> QED
            BY <1>2, <2>2, <3>2, <3>3, PayingIsFinite DEF Acc!AcceptanceAssumption
    <2>3. CASE ~(t = minute /\ mode = Acc!In(q).mode)
        <3>1. Paying(mode, t)' = Paying(mode, t)
            BY <1>2, <1>5, <2>1, <2>3, RequestsKeep DEF Paying, Pays, Acc!In, Acc!At, Acc!TypeOK
        <3>2. t = minute => spent'[mode] = spent[mode]
            BY <1>5, <2>1, <2>3 DEF Pays, Acc!TypeOK
        <3> QED
            BY <1>2, <1>5, <3>1, <3>2 DEF Pays
    <2> QED
        BY <2>2, <2>3
<1>6. CASE /\ minute' = minute + 1 /\ spent' = [m \in Acc!Modes |-> 0]
           /\ UNCHANGED <<call, answer, created, paid>>
    <2>1. t = minute + 1 => Paying(mode, t) = {}
        BY DEF AcceptanceInvariant, RequestHolds, Paying, Acc!TypeOK
    <2>2. t = minute + 1 => Cardinality(Paying(mode, t)) = 0
        BY <2>1, FS_EmptySet
    <2> QED
        BY <1>2, <1>3, <1>6, <2>2
<1> QED
    BY <1>4, <1>5, <1>6, BudgetMoves

\* An acceptance is answered from a record, or by the transaction.
LEMMA AnswersMove ==
    ASSUME Acc!TypeOK, [Acc!Next]_Acc!vars, NEW r \in Requests
    PROVE  \/ answer'[r] = answer[r]
           \/ answer'[r].code # "accepted"
           \/ Inserts(r) /\ answer'[r].message = r
           \/ /\ UNCHANGED Acc!rows /\ ~Acc!At(r, "idle")
              /\ answer'[r].message = record[Acc!In(r).key]
              /\ Acc!SameBody(record[Acc!In(r).key], Acc!In(r).body)
<1>1. ASSUME NEW q \in Requests,
             Acc!authenticateApiKey(q) \/ Acc!sendConsoleTest(q) \/ Acc!consumeWorkspaceRateLimit(q) \/ Acc!Prepare(q)
             \/ Acc!CommitUnheard(q) \/ Acc!Fail(q)
      PROVE  answer'[r] = answer[r] \/ answer'[r].code # "accepted"
    BY <1>1 DEF Acc!authenticateApiKey, Acc!sendConsoleTest, Acc!consumeWorkspaceRateLimit, Acc!Prepare, Acc!CommitUnheard, Acc!Fail,
                Acc!Refuse, Acc!Respond, Acc!TypeOK
<1>2. ASSUME NEW q \in Requests, Acc!Commit(q)
      PROVE  answer'[r] = answer[r] \/ answer'[r].code # "accepted" \/ (Inserts(r) /\ answer'[r].message = r)
    <2>1. CASE q # r
        BY <1>2, <2>1 DEF Acc!Commit, Acc!Refuse, Acc!Respond, Acc!TypeOK
    <2>2. CASE q = r
        BY <1>2, <2>2 DEF Acc!Commit, Inserts, Acc!Goto, Acc!Refuse, Acc!Respond, Acc!TypeOK, Acc!OverQuota, Acc!QuotaLeft
    <2> QED
        BY <2>1, <2>2
<1>3. ASSUME NEW q \in Requests, Acc!Lookup(q) \/ Acc!Recover(q)
      PROVE  \/ answer'[r] = answer[r]
             \/ answer'[r].code # "accepted"
             \/ /\ UNCHANGED Acc!rows /\ ~Acc!At(r, "idle")
                /\ answer'[r].message = record[Acc!In(r).key]
                /\ Acc!SameBody(record[Acc!In(r).key], Acc!In(r).body)
    BY <1>3 DEF Acc!Lookup, Acc!Recover, Acc!Refuse, Acc!Respond, Acc!TypeOK, Acc!At
<1>4. (\E l \in Limits : Acc!SetLimit(l)) \/ (\E f \in Files : Acc!Spoil(f)) \/ Acc!NextMinute
        \/ (\E k \in Keys : Acc!PurgeRecord(k)) \/ UNCHANGED Acc!vars => UNCHANGED answer
    BY DEF Acc!SetLimit, Acc!Spoil, Acc!NextMinute, Acc!PurgeRecord, Acc!vars
<1> QED
    BY <1>1, <1>2, <1>3, <1>4 DEF Acc!Next, Acc!Handle

LEMMA MessagesNext ==
    ASSUME Acc!AcceptanceAssumption, Acc!TypeOK, Acc!TypeOK', AcceptanceInvariant, [Acc!Next]_Acc!vars
    PROVE  /\ Acc!OneMessagePerKey' /\ RecordsHold' /\ Acc!FilesFollowTheMessage'
           /\ Acc!ReservationsAreMessages' /\ Acc!AnswersNameTheRequest'
<1>1. \A m \in created : m \in Requests /\ ~Acc!At(m, "idle") /\ Acc!At(m, "done") /\ Acc!In(m)' = Acc!In(m)
    BY RequestsKeep DEF AcceptanceInvariant, RequestHolds, Acc!TypeOK, Acc!At, Acc!In
<1>2. created \subseteq created'
    BY RowsMove DEF Acc!rows, Inserts, Acc!Insert
<1>3. Acc!AnswersNameTheRequest'
    <2>1. SUFFICES ASSUME NEW r \in Requests, answer'[r].code = "accepted"
                   PROVE  /\ answer'[r].message \in created'
                          /\ Acc!In(answer[r].message)'.key = Acc!In(r)'.key /\ Acc!In(answer[r].message)'.body = Acc!In(r)'.body
        BY DEF Acc!AnswersNameTheRequest, Acc!In
    <2>2. CASE answer'[r] = answer[r]
        <3>1. Acc!At(r, "done") /\ answer[r].message \in created
              /\ Acc!In(answer[r].message).key = Acc!In(r).key /\ Acc!In(answer[r].message).body = Acc!In(r).body
            BY <2>1, <2>2 DEF AcceptanceInvariant, RequestHolds, Acc!AnswersNameTheRequest
        <3> QED
            BY <1>1, <1>2, <2>2, <3>1, RequestsKeep DEF Acc!At, Acc!In
    <2>3. CASE Inserts(r) /\ answer'[r].message = r
        BY <2>3 DEF Inserts, Acc!Insert, Acc!In
    <2>4. CASE /\ UNCHANGED Acc!rows /\ ~Acc!At(r, "idle")
               /\ answer'[r].message = record[Acc!In(r).key]
               /\ Acc!SameBody(record[Acc!In(r).key], Acc!In(r).body)
        <3>1. Acc!In(r).key \in Keys
            BY <2>4, CallShape DEF Acc!TypeOK, Acc!At, Acc!In
        <3>2. /\ answer'[r].message \in created /\ Acc!In(answer'[r].message).key = Acc!In(r).key
              /\ Acc!In(answer'[r].message).body = Acc!In(r).body
            BY <2>4, <3>1 DEF AcceptanceInvariant, RecordsHold, Acc!SameBody
        <3> QED
            BY <1>1, <2>4, <3>2, RequestsKeep DEF Acc!At, Acc!In, Acc!rows
    <2> QED
        BY <2>1, <2>2, <2>3, <2>4, AnswersMove
<1>4. CASE UNCHANGED Acc!rows
    <2>1. Acc!OneMessagePerKey' /\ RecordsHold' /\ Acc!FilesFollowTheMessage'
        BY <1>1, <1>4 DEF AcceptanceInvariant, Acc!OneMessagePerKey, RecordsHold, Acc!FilesFollowTheMessage, Acc!rows, Acc!TypeOK, Acc!In
    <2>2. Acc!LiveIn(created)' = Acc!LiveIn(created)
        BY <1>1, <1>4 DEF Acc!LiveIn, Acc!rows, Acc!In
    <2>3. Acc!ReservationsAreMessages'
        BY <1>4, <2>2 DEF AcceptanceInvariant, Acc!ReservationsAreMessages, Acc!rows
    <2> QED
        BY <1>3, <2>1, <2>3
<1>5. ASSUME NEW k \in Keys, record' = [record EXCEPT ![k] = None], UNCHANGED <<created, owner, used>>
      PROVE  Acc!OneMessagePerKey' /\ RecordsHold' /\ Acc!FilesFollowTheMessage' /\ Acc!ReservationsAreMessages'
    <2>1. Acc!OneMessagePerKey' /\ RecordsHold' /\ Acc!FilesFollowTheMessage'
        BY <1>1, <1>5 DEF AcceptanceInvariant, Acc!OneMessagePerKey, RecordsHold, Acc!FilesFollowTheMessage, Acc!TypeOK, Acc!In
    <2>2. Acc!LiveIn(created)' = Acc!LiveIn(created)
        BY <1>1, <1>5 DEF Acc!LiveIn, Acc!In
    <2> QED
        BY <1>5, <2>1, <2>2 DEF AcceptanceInvariant, Acc!ReservationsAreMessages
<1>6. ASSUME NEW r \in Requests, Inserts(r)
      PROVE  Acc!OneMessagePerKey' /\ RecordsHold' /\ Acc!FilesFollowTheMessage' /\ Acc!ReservationsAreMessages'
    <2>1. /\ r \notin created /\ Acc!In(r)' = Acc!In(r)
          /\ Acc!In(r).key \in Keys /\ Acc!In(r).body \in Bodies /\ Acc!In(r).mode \in Acc!Modes
        BY <1>1, <1>6, RequestsKeep, CallShape DEF Inserts, Acc!At, Acc!In, Acc!TypeOK
    <2>2. created' = created \cup {r}
        BY <1>6 DEF Inserts, Acc!Insert
    <2>3. Acc!OneMessagePerKey'
        BY <1>1, <1>6, <2>1, <2>2 DEF AcceptanceInvariant, Acc!OneMessagePerKey, Inserts, Acc!KeyFree, Acc!In
    <2>4. RecordsHold'
        BY <1>1, <1>6, <2>1, <2>2 DEF AcceptanceInvariant, RecordsHold, Inserts, Acc!Insert, Acc!TypeOK, Acc!In
    <2>5. Acc!FilesFollowTheMessage'
        BY <1>1, <1>6, <2>1, <2>2 DEF AcceptanceInvariant, Acc!FilesFollowTheMessage, Inserts, Acc!Insert, Acc!TypeOK,
                                      Acc!Claimable, Acc!In, Acc!AcceptanceAssumption
    <2>6. IsFiniteSet(Acc!LiveIn(created))
        BY AcceptanceSets, FS_Subset DEF Acc!LiveIn, Acc!TypeOK, Acc!AcceptanceAssumption
    <2>7. Acc!LiveIn(created)' = IF Acc!In(r).mode = "live" THEN Acc!LiveIn(created) \cup {r} ELSE Acc!LiveIn(created)
        BY <1>1, <2>1, <2>2 DEF Acc!LiveIn, Acc!In
    <2>8. Cardinality(Acc!LiveIn(created) \cup {r}) = Cardinality(Acc!LiveIn(created)) + 1
        BY <2>1, <2>6, FS_AddElement DEF Acc!LiveIn
    <2>9. Acc!ReservationsAreMessages'
        BY <1>6, <2>7, <2>8, AcceptanceSets DEF AcceptanceInvariant, Acc!ReservationsAreMessages, Inserts, Acc!Insert
    <2> QED
        BY <2>3, <2>4, <2>5, <2>9
<1> QED
    BY <1>3, <1>4, <1>5, <1>6, RowsMove

LEMMA AcceptanceInit == Acc!AcceptanceAssumption /\ Acc!Init => AcceptanceInvariant
<1> SUFFICES ASSUME Acc!AcceptanceAssumption, Acc!Init PROVE AcceptanceInvariant
    OBVIOUS
<1>1. /\ \A r \in Requests : RequestHolds(r)
      /\ RecordsHold /\ Acc!OneMessagePerKey /\ Acc!AnswersNameTheRequest /\ Acc!FilesFollowTheMessage
    BY DEF Acc!Init, RequestHolds, RecordsHold, Acc!OneMessagePerKey, Acc!AnswersNameTheRequest, Acc!FilesFollowTheMessage,
           Acc!NoInput, Acc!Unanswered, Acc!At
<1>2. Acc!LiveIn(created) = {} /\ Cardinality({}) = 0
    BY FS_EmptySet DEF Acc!Init, Acc!LiveIn
<1>3. ASSUME NEW mode \in Acc!Modes, NEW t \in 1..MaxMinute
      PROVE  Cardinality(Paying(mode, t)) = 0
    <2>1. Paying(mode, t) = {}
        BY DEF Acc!Init, Paying
    <2> QED
        BY <2>1, FS_EmptySet
<1>4. RatesHold
    BY <1>3 DEF Acc!Init, RatesHold, Acc!AcceptanceAssumption
<1> QED
    BY <1>1, <1>2, <1>4, AcceptanceSets DEF AcceptanceInvariant, Acc!ReservationsAreMessages, Acc!Init

(* One message for each idempotency key, and what belongs to it.           *)
THEOREM AcceptanceHolds ==
    ASSUME Acc!AcceptanceAssumption
    PROVE  Acc!Spec => [](Acc!TypeOK /\ AcceptanceInvariant)
<1>1. Acc!Init => Acc!TypeOK /\ AcceptanceInvariant
    BY AcceptanceInitTypes, AcceptanceInit
<1>2. Acc!TypeOK /\ AcceptanceInvariant /\ [Acc!Next]_Acc!vars => Acc!TypeOK' /\ AcceptanceInvariant'
    BY AcceptanceTypes, RequestsNext, RatesNext, MessagesNext DEF AcceptanceInvariant
<1> QED
    BY <1>1, <1>2, PTL DEF Acc!Spec

LEMMA RatesFollow ==
    ASSUME Acc!AcceptanceAssumption, Acc!TypeOK, AcceptanceInvariant
    PROVE  Acc!WithinRate
<1>1. \A m \in created : paid[m] > 0
    BY DEF Acc!TypeOK, AcceptanceInvariant, RequestHolds
<1>2. ASSUME NEW mode \in Acc!Modes, NEW t \in 1..MaxMinute
      PROVE  Cardinality({m \in created : Acc!In(m).mode = mode /\ paid[m] = t}) <= RateLimit[mode]
    <2>1. {m \in created : Acc!In(m).mode = mode /\ paid[m] = t} \subseteq Paying(mode, t)
        BY DEF Acc!TypeOK, Paying
    <2>2. Cardinality({m \in created : Acc!In(m).mode = mode /\ paid[m] = t}) <= Cardinality(Paying(mode, t))
        BY <2>1, PayingIsFinite, FS_Subset
    <2>3. Cardinality({m \in created : Acc!In(m).mode = mode /\ paid[m] = t}) \in Nat
        BY <2>1, PayingIsFinite, FS_Subset, FS_CardinalityType
    <2> QED
        BY <2>2, <2>3, PayingIsFinite DEF AcceptanceInvariant, RatesHold, Acc!AcceptanceAssumption
<1> QED
    BY <1>1, <1>2, AcceptanceSets DEF Acc!WithinRate

(* What AcceptedOnce says of the requests of a workspace, from any of      *)
(* their interleavings (emails/accept.ts).                                 *)
THEOREM MessagesAreOnce ==
    ASSUME Acc!AcceptanceAssumption
    PROVE  Acc!Spec => [](/\ Acc!OneMessagePerKey
                          /\ Acc!AnswersNameTheRequest
                          /\ Acc!FilesFollowTheMessage
                          /\ Acc!ReservationsAreMessages
                          /\ Acc!WithinRate)
<1>1. Acc!TypeOK /\ AcceptanceInvariant => /\ Acc!OneMessagePerKey
                                           /\ Acc!AnswersNameTheRequest
                                           /\ Acc!FilesFollowTheMessage
                                           /\ Acc!ReservationsAreMessages
                                           /\ Acc!WithinRate
    BY RatesFollow DEF AcceptanceInvariant
<1> QED
    BY <1>1, AcceptanceHolds, PTL

(* The counter passes the limit only through a request that had read one   *)
(* that allowed it (emails/accept.ts, the conditional update of the usage).*)
THEOREM BeyondTheLimit ==
    ASSUME Acc!AcceptanceAssumption
    PROVE  Acc!Spec => [][Acc!BeyondOnlyInFlight]_Acc!vars
<1>1. Acc!TypeOK /\ AcceptanceInvariant /\ [Acc!Next]_Acc!vars => [Acc!BeyondOnlyInFlight]_Acc!vars
    <2>1. SUFFICES ASSUME Acc!TypeOK, AcceptanceInvariant, [Acc!Next]_Acc!vars, used' > used
                   PROVE  \E r \in created' \ created : used' <= call[r].limit
        BY DEF Acc!BeyondOnlyInFlight
    <2>2. PICK r \in Requests : Inserts(r)
        BY <2>1, RowsMove DEF Acc!rows, Acc!TypeOK
    <2>3. call[r].pc = "commit" /\ RequestHolds(r) /\ call[r] \in Acc!Calls
        BY <2>1, <2>2 DEF Inserts, Acc!At, AcceptanceInvariant, Acc!TypeOK
    <2>4. r \notin created /\ call[r].limit \in Nat
        BY <2>3, CallShape DEF Acc!At, RequestHolds, Acc!AcceptanceAssumption
    <2> QED
        BY <2>1, <2>2, <2>3, <2>4 DEF Inserts, Acc!Insert, Acc!TypeOK
<1> QED
    BY <1>1, AcceptanceHolds, PTL DEF Acc!Spec

-----------------------------------------------------------------------------
(* One edit at a time has the row, and the number it was given is the next *)
(* one: nothing was approved beyond what there is.                         *)
TemplatesInvariant ==
    /\ Tpl!TypeOK /\ Tpl!ServedWasApproved
    /\ passed <= versions
    /\ \A e \in Editors : editor[e].pc = "locked" => editor[e].version = versions + 1
    /\ \A e, f \in Editors : editor[e].pc = "locked" /\ editor[f].pc = "locked" => e = f

(* What is served was approved (templates/versioning.ts, emails/accept.ts).*)
THEOREM TemplatesServeApproved == Tpl!TemplatesAssumption => (Tpl!Spec => [](Tpl!TypeOK /\ Tpl!ServedWasApproved))
<1> SUFFICES ASSUME Tpl!TemplatesAssumption PROVE Tpl!Spec => [](Tpl!TypeOK /\ Tpl!ServedWasApproved)
    OBVIOUS
<1>1. Tpl!Init => TemplatesInvariant
    BY DEF Tpl!Init, TemplatesInvariant, Tpl!TypeOK, Tpl!ServedWasApproved, Tpl!TemplatesAssumption, Tpl!Idle, Tpl!Statuses
<1>2. TemplatesInvariant /\ [Tpl!Next]_Tpl!vars => TemplatesInvariant'
  <2> SUFFICES ASSUME TemplatesInvariant, [Tpl!Next]_Tpl!vars PROVE TemplatesInvariant'
    OBVIOUS
  <2> USE DEF TemplatesInvariant, Tpl!TypeOK, Tpl!ServedWasApproved, Tpl!TemplatesAssumption, Tpl!Idle, Tpl!Statuses, Tpl!Free
  <2>1. ASSUME NEW e \in Editors, Tpl!BeginEdit(e) PROVE TemplatesInvariant'
    BY <2>1 DEF Tpl!BeginEdit
  <2>2. ASSUME NEW e \in Editors, Tpl!CommitEdit(e) PROVE TemplatesInvariant'
    BY <2>2 DEF Tpl!CommitEdit, Tpl!StatusOfEdit
  <2>3. ASSUME NEW e \in Editors, Tpl!AbortEdit(e) PROVE TemplatesInvariant'
    BY <2>3 DEF Tpl!AbortEdit
  <2>4. ASSUME NEW v \in {"approved", "rejected"}, Tpl!reviewTemplate(v) PROVE TemplatesInvariant'
    BY <2>4 DEF Tpl!reviewTemplate
  <2>5. CASE Tpl!disableTemplate
    BY <2>5 DEF Tpl!disableTemplate
  <2>6. CASE Tpl!reviewTransactionalProfile
    BY <2>6 DEF Tpl!reviewTransactionalProfile
  <2>7. CASE Tpl!disableTransactionalProfile
    BY <2>7 DEF Tpl!disableTransactionalProfile
  <2>8. CASE Tpl!Serve
    BY <2>8 DEF Tpl!Serve
  <2>9. CASE UNCHANGED Tpl!vars
    BY <2>9 DEF Tpl!vars
  <2> QED
    BY <2>1, <2>2, <2>3, <2>4, <2>5, <2>6, <2>7, <2>8, <2>9 DEF Tpl!Next
<1>3. TemplatesInvariant => Tpl!TypeOK /\ Tpl!ServedWasApproved
    BY DEF TemplatesInvariant
<1> QED
    BY <1>1, <1>2, <1>3, PTL DEF Tpl!Spec

-----------------------------------------------------------------------------
\* What an invocation has in hand.
Held == [pc : {"decide", "update"}, stage : 1..Wrm!MaxStage, approvedAt : Wrm!Days, advancedAt : Wrm!Days]

(* An invocation that has read the stage the workspace is at knows its     *)
(* dates, and has waited when it is about to update.                       *)
WorkerKnows(w) ==
    worker[w] # Wrm!Idle =>
        /\ worker[w].stage < Wrm!MaxStage
        /\ worker[w].stage <= stage
        /\ worker[w].stage = stage => worker[w].approvedAt = approvedAt /\ worker[w].advancedAt = advancedAt
        /\ worker[w].pc = "update" => Wrm!Reference(worker[w]) + Steps[worker[w].stage + 1].wait <= today
LimitHolds ==
    /\ status = "approved" \/ reason = "billing" => stage > 0
    /\ stage > 0 /\ ~pinned => wrmLimit <= Steps[stage].limit
    /\ stage > 0 => status # "pending_review" /\ approvedAt > 0
    /\ stage = 1 => approvedAt = advancedAt
    /\ approvedAt <= today /\ advancedAt <= today
WarmupInvariant == LimitHolds /\ \A w \in Workers : WorkerKnows(w)

LEMMA StepTypes ==
    ASSUME Wrm!WarmupAssumption
    PROVE  /\ Wrm!MaxStage \in Nat \ {0}
           /\ \A s \in 1..Wrm!MaxStage : Steps[s].limit \in Nat /\ Steps[s].wait \in Nat
<1>1. Steps \in Seq(Wrm!Step) /\ Len(Steps) > 0
    BY DEF Wrm!WarmupAssumption, Wrm!MaxStage
<1>2. Len(Steps) \in Nat \ {0} /\ \A s \in 1..Len(Steps) : Steps[s] \in Wrm!Step
    BY <1>1
<1> QED
    BY <1>2 DEF Wrm!MaxStage, Wrm!Step

LEMMA HeldMakers ==
    ASSUME NEW s \in 1..Wrm!MaxStage, NEW a \in Wrm!Days, NEW b \in Wrm!Days
    PROVE  [pc |-> "decide", stage |-> s, approvedAt |-> a, advancedAt |-> b] \in Held
BY DEF Held

LEMMA WorkerShape ==
    ASSUME Wrm!TypeOK, NEW w \in Workers
    PROVE  /\ worker[w] \in {Wrm!Idle} \cup Held
           /\ worker[w] # Wrm!Idle => worker[w] \in Held
           /\ worker[w].pc \in {"decide", "update"} => worker[w] \in Held
BY DEF Wrm!TypeOK, Held, Wrm!Idle

LEMMA ConstantTypes ==
    ASSUME Wrm!WarmupAssumption
    PROVE  /\ MaxDay \in Nat \ {0} /\ MaxEvents \in Nat /\ Pins \subseteq Nat /\ DefaultLimit \in Nat
           /\ Wrm!MaxStage \in Nat \ {0}
           /\ \A s, n \in 1..Wrm!MaxStage : s <= n => Steps[s].limit <= Steps[n].limit
           /\ \A s \in 1..Wrm!MaxStage : Steps[s].limit \in Nat /\ Steps[s].wait \in Nat
           /\ Steps[1].limit \in Nat
<1>1. Wrm!MaxStage \in Nat \ {0} /\ 1 \in 1..Wrm!MaxStage
    BY StepTypes
<1> QED
    BY <1>1, StepTypes DEF Wrm!WarmupAssumption

(* Interventions are counted, and bounded.                                 *)
LEMMA Intervention ==
    ASSUME Wrm!WarmupAssumption, Wrm!TypeOK, Wrm!Intervene
    PROVE  happened' \in 0..MaxEvents
BY ConstantTypes DEF Wrm!Intervene, Wrm!TypeOK

LEMMA SafetyStep ==
    ASSUME Wrm!TypeOK, Wrm!SafetyEvent
    PROVE  /\ Wrm!Intervene /\ UNCHANGED <<Wrm!level, today, worker>>
           /\ usage' \in [Wrm!Days -> [accepted : Nat, bounces : Nat, complaints : Nat]]
           /\ \/ UNCHANGED Wrm!review
              \/ status = "approved" /\ status' = "paused" /\ reason' = "reputation"
<1>1. Wrm!Intervene /\ UNCHANGED <<Wrm!level, today, worker>>
    BY DEF Wrm!SafetyEvent
<1>2. usage' \in [Wrm!Days -> [accepted : Nat, bounces : Nat, complaints : Nat]]
  <2>1. CASE usage' = [usage EXCEPT ![today].bounces = @ + 1]
    BY <2>1 DEF Wrm!TypeOK
  <2>2. CASE usage' = [usage EXCEPT ![today].complaints = @ + 1]
    BY <2>2 DEF Wrm!TypeOK
  <2> QED
    BY <2>1, <2>2 DEF Wrm!SafetyEvent
<1>3. \/ UNCHANGED Wrm!review
      \/ status = "approved" /\ status' = "paused" /\ reason' = "reputation"
    BY Zenon DEF Wrm!SafetyEvent
<1> QED
    BY <1>1, <1>2, <1>3

LEMMA ReadStep ==
    ASSUME Wrm!WarmupAssumption, Wrm!TypeOK, WarmupInvariant, NEW w \in Workers, Wrm!WorkerReads(w)
    PROVE  \E h \in Held :
               /\ h.stage = stage /\ h.approvedAt = approvedAt /\ h.advancedAt = advancedAt /\ h.pc = "decide"
               /\ stage < Wrm!MaxStage /\ worker' = [worker EXCEPT ![w] = h]
<1> DEFINE h == [pc |-> "decide", stage |-> stage, approvedAt |-> approvedAt, advancedAt |-> advancedAt]
<1>1. stage \in 1..Wrm!MaxStage /\ stage < Wrm!MaxStage
    BY ConstantTypes DEF Wrm!WorkerReads
<1>2. approvedAt \in Wrm!Days /\ advancedAt \in Wrm!Days
    BY <1>1, ConstantTypes DEF Wrm!TypeOK, WarmupInvariant, LimitHolds, Wrm!Days
<1>3. h \in Held
    BY <1>1, <1>2, HeldMakers
<1>4. worker' = [worker EXCEPT ![w] = h]
    BY DEF Wrm!WorkerReads
<1> QED
    BY <1>1, <1>3, <1>4

LEMMA DecideStep ==
    ASSUME Wrm!TypeOK, NEW w \in Workers, Wrm!WorkerDecides(w)
    PROVE  /\ worker[w] \in Held /\ worker[w] # Wrm!Idle
           /\ \/ worker' = [worker EXCEPT ![w] = Wrm!Idle]
              \/ \E h \in Held :
                    /\ h.stage = worker[w].stage /\ h.approvedAt = worker[w].approvedAt
                    /\ h.advancedAt = worker[w].advancedAt /\ h.pc = "update"
                    /\ Wrm!Reference(worker[w]) + Steps[worker[w].stage + 1].wait <= today
                    /\ worker' = [worker EXCEPT ![w] = h]
<1>1. worker[w] \in Held /\ worker[w] # Wrm!Idle
    BY WorkerShape DEF Wrm!WorkerDecides, Wrm!Idle
<1>2. [worker[w] EXCEPT !.pc = "update"] \in Held
    BY <1>1 DEF Held
<1>3. \/ worker' = [worker EXCEPT ![w] = Wrm!Idle]
      \/ /\ worker' = [worker EXCEPT ![w] = [worker[w] EXCEPT !.pc = "update"]]
         /\ Wrm!Reference(worker[w]) + Steps[worker[w].stage + 1].wait <= today
    BY DEF Wrm!WorkerDecides, Wrm!warmupDecision
<1> QED
    BY <1>1, <1>2, <1>3 DEF Held

LEMMA AdvanceStep ==
    ASSUME Wrm!WarmupAssumption, Wrm!TypeOK, WarmupInvariant, NEW w \in Workers, Wrm!WorkerAdvances(w)
    PROVE  /\ worker[w] \in Held
           /\ worker' = [worker EXCEPT ![w] = Wrm!Idle]
           /\ \/ UNCHANGED Wrm!level
              \/ /\ status = "approved" /\ stage = worker[w].stage /\ ~pinned
                 /\ stage + 1 \in 1..Wrm!MaxStage /\ stage' = stage + 1
                 /\ wrmLimit' = Steps[stage + 1].limit /\ advancedAt' = today
                 /\ UNCHANGED <<pinned, approvedAt>>
                 /\ Wrm!Reference(worker[w]) + Steps[stage + 1].wait <= today
<1>1. worker[w] \in Held /\ worker[w] # Wrm!Idle
    BY WorkerShape DEF Wrm!WorkerAdvances, Wrm!Idle
<1>2. worker[w].stage < Wrm!MaxStage /\ Wrm!Reference(worker[w]) + Steps[worker[w].stage + 1].wait <= today
    BY <1>1 DEF WarmupInvariant, WorkerKnows, Wrm!WorkerAdvances
<1>3. worker[w].stage + 1 \in 1..Wrm!MaxStage
    BY <1>1, <1>2, ConstantTypes DEF Held
<1> QED
    BY <1>1, <1>2, <1>3 DEF Wrm!WorkerAdvances, Wrm!StillFree

-----------------------------------------------------------------------------
LEMMA WarmupInit ==
    ASSUME Wrm!WarmupAssumption, Wrm!Init
    PROVE  Wrm!TypeOK /\ WarmupInvariant
<1> USE ConstantTypes
<1>1. pinned = FALSE /\ stage = 0 /\ status = "pending_review" /\ reason = "none"
    BY DEF Wrm!Init
<1>2. usage \in [Wrm!Days -> [accepted : Nat, bounces : Nat, complaints : Nat]]
    BY DEF Wrm!Init, Wrm!NoUsage
<1>3. today \in Wrm!Days /\ approvedAt = 0 /\ advancedAt = 0 /\ happened = 0 /\ wrmLimit \in Nat
    BY DEF Wrm!Init, Wrm!Days
<1>4. worker \in [Workers -> {Wrm!Idle}]
    BY DEF Wrm!Init
<1>5. Wrm!TypeOK
  <2>1. worker \in [Workers -> {Wrm!Idle} \cup Held]
    BY <1>4
  <2>2. 0 \in 0..Wrm!MaxStage /\ 0 \in 0..MaxDay /\ 0 \in 0..MaxEvents
    BY ConstantTypes
  <2>3. status \in Wrm!Statuses /\ reason \in Wrm!Reasons /\ pinned \in BOOLEAN
    BY <1>1 DEF Wrm!Statuses, Wrm!Reasons
  <2>4. stage \in 0..Wrm!MaxStage /\ approvedAt \in 0..MaxDay /\ advancedAt \in 0..MaxDay /\ happened \in 0..MaxEvents
    BY <1>1, <1>3, <2>2
  <2> HIDE DEF Held
  <2> QED
    BY <1>1, <1>2, <1>3, <2>1, <2>3, <2>4 DEF Wrm!TypeOK, Held
<1>6. WarmupInvariant
    BY <1>1, <1>3, <1>4 DEF WarmupInvariant, LimitHolds, WorkerKnows, Wrm!Days
<1> QED
    BY <1>5, <1>6

LEMMA WarmupTypes ==
    ASSUME Wrm!WarmupAssumption, Wrm!TypeOK, WarmupInvariant, [Wrm!Next]_Wrm!vars
    PROVE  Wrm!TypeOK'
<1> USE ConstantTypes DEF Wrm!TypeOK, Wrm!Statuses, Wrm!Reasons
<1>1. CASE Wrm!NextDay
    BY <1>1 DEF Wrm!NextDay, Wrm!review, Wrm!level, Wrm!Days
<1>2. CASE Wrm!SendToday
    BY <1>2 DEF Wrm!SendToday, Wrm!review, Wrm!level
<1>3. CASE Wrm!SafetyEvent
    BY <1>3, SafetyStep, Intervention DEF Wrm!review, Wrm!level
<1>4. CASE Wrm!BillingEvent
    BY <1>4, Intervention DEF Wrm!BillingEvent, Wrm!level
<1>5. CASE Wrm!reviewWorkspace
  <2>1. today \in 0..MaxDay /\ 1 \in 0..Wrm!MaxStage
    BY DEF Wrm!Days
  <2>2. happened' \in 0..MaxEvents
    BY <1>5, Intervention DEF Wrm!reviewWorkspace
  <2>3. CASE /\ status' = "approved" /\ reason' = "none"
             /\ stage' = 1 /\ wrmLimit' = Steps[1].limit /\ pinned' = FALSE
             /\ approvedAt' = today /\ advancedAt' = today
    <3>1. UNCHANGED <<usage, today, worker>>
        BY <1>5 DEF Wrm!reviewWorkspace
    <3>2. approvedAt' \in 0..MaxDay /\ advancedAt' \in 0..MaxDay /\ approvedAt' <= advancedAt'
        BY <2>1, <2>3
    <3> QED
        BY <2>1, <2>2, <2>3, <3>1, <3>2
  <2>4. CASE status' = "rejected" /\ reason' = "admin_rejected" /\ UNCHANGED Wrm!level
    BY <1>5, <2>2, <2>4 DEF Wrm!reviewWorkspace, Wrm!level
  <2>5. CASE /\ status' = "paused" /\ reason' = "admin_limited"
             /\ wrmLimit' = Steps[1].limit /\ pinned' = FALSE
             /\ UNCHANGED <<stage, approvedAt, advancedAt>>
    BY <1>5, <2>2, <2>5 DEF Wrm!reviewWorkspace
  <2> QED
    BY <1>5, <2>3, <2>4, <2>5 DEF Wrm!reviewWorkspace
<1>6. ASSUME NEW pin \in Pins \cup {0}, Wrm!setWorkspaceDailyLimit(pin) PROVE Wrm!TypeOK'
  <2>1. Wrm!warmupLimitForStage(stage) \in Nat
    BY DEF Wrm!warmupLimitForStage
  <2>2. wrmLimit' \in Nat /\ pinned' \in BOOLEAN /\ (pinned' => wrmLimit' \in Pins)
    BY <1>6, <2>1 DEF Wrm!setWorkspaceDailyLimit, Wrm!Overridden
  <2> QED
    BY <1>6, <2>2, Intervention DEF Wrm!setWorkspaceDailyLimit, Wrm!review
<1>7. ASSUME NEW w \in Workers, Wrm!WorkerReads(w) PROVE Wrm!TypeOK'
    BY <1>7, ReadStep DEF Wrm!WorkerReads, Held, Wrm!review, Wrm!level
<1>8. ASSUME NEW w \in Workers, Wrm!WorkerDecides(w) PROVE Wrm!TypeOK'
  <2>1. UNCHANGED <<Wrm!review, Wrm!level, usage, today, happened>>
    BY <1>8 DEF Wrm!WorkerDecides
  <2>2. worker \in [Workers -> {Wrm!Idle} \cup Held]
    BY DEF Held
  <2>3. worker' \in [Workers -> {Wrm!Idle} \cup Held]
    BY <1>8, <2>2, DecideStep
  <2> QED
    BY <2>1, <2>3 DEF Held, Wrm!review, Wrm!level
<1>9. ASSUME NEW w \in Workers, Wrm!WorkerAdvances(w) PROVE Wrm!TypeOK'
  <2>1. UNCHANGED <<Wrm!review, usage, today, happened>>
    BY <1>9 DEF Wrm!WorkerAdvances
  <2>2. worker' \in [Workers -> {Wrm!Idle} \cup Held]
    BY <1>9, AdvanceStep DEF Held
  <2>3. /\ stage' \in 0..Wrm!MaxStage /\ wrmLimit' \in Nat /\ pinned' \in BOOLEAN
        /\ approvedAt' \in 0..MaxDay /\ advancedAt' \in 0..MaxDay
        /\ approvedAt' <= advancedAt' /\ (pinned' => wrmLimit' \in Pins)
    <3>1. CASE UNCHANGED Wrm!level
        BY <3>1 DEF Wrm!level
    <3>2. CASE ~UNCHANGED Wrm!level
        <4>1. /\ stage + 1 \in 1..Wrm!MaxStage /\ stage' = stage + 1 /\ wrmLimit' = Steps[stage + 1].limit
              /\ advancedAt' = today /\ UNCHANGED <<pinned, approvedAt>> /\ ~pinned
            BY <1>9, <3>2, AdvanceStep
        <4>2. approvedAt <= today /\ today \in 0..MaxDay
            BY DEF WarmupInvariant, LimitHolds, Wrm!Days
        <4> QED
            BY <4>1, <4>2
    <3> QED
        BY <3>1, <3>2
  <2> QED
    BY <2>1, <2>2, <2>3 DEF Wrm!review, Held
<1>10. CASE UNCHANGED Wrm!vars
    BY <1>10 DEF Wrm!vars, Wrm!review, Wrm!level
<1> QED
    BY <1>1, <1>2, <1>3, <1>4, <1>5, <1>6, <1>7, <1>8, <1>9, <1>10 DEF Wrm!Next

LEMMA WarmupNext ==
    ASSUME Wrm!WarmupAssumption, Wrm!TypeOK, Wrm!TypeOK', WarmupInvariant, [Wrm!Next]_Wrm!vars
    PROVE  WarmupInvariant'
<1> USE ConstantTypes
<1>1. ASSUME LimitHolds', UNCHANGED <<stage, approvedAt, advancedAt, worker>>, today <= today' PROVE WarmupInvariant'
  <2> SUFFICES ASSUME NEW w \in Workers PROVE WorkerKnows(w)'
    BY <1>1 DEF WarmupInvariant
  <2>1. WorkerKnows(w)
    BY DEF WarmupInvariant
  <2>2. CASE worker[w] = Wrm!Idle
    BY <1>1, <2>2 DEF WorkerKnows
  <2>3. CASE worker[w] # Wrm!Idle
    <3>1. worker[w] \in Held /\ today \in Int /\ today' \in Int
        <4>1. worker[w] \in Held
            BY <2>3, WorkerShape
        <4>2. today \in 1..MaxDay /\ today' \in 1..MaxDay
            BY DEF Wrm!TypeOK, Wrm!Days
        <4> QED
            BY <4>1, <4>2
    <3>2. Wrm!Reference(worker[w]) \in Nat /\ worker[w].stage + 1 \in 1..Wrm!MaxStage
        BY <2>1, <2>3, <3>1 DEF Held, Wrm!Reference, Wrm!Days, WorkerKnows
    <3>3. Steps[worker[w].stage + 1].wait \in Nat
        BY <3>2
    <3> QED
        BY <1>1, <2>1, <2>3, <3>1, <3>2, <3>3 DEF WorkerKnows, Wrm!Reference
  <2> QED
    BY <2>2, <2>3
<1>2. CASE Wrm!NextDay
    BY <1>1, <1>2 DEF Wrm!NextDay, Wrm!review, Wrm!level, WarmupInvariant, LimitHolds, Wrm!TypeOK, Wrm!Days
<1>3. CASE Wrm!SendToday
    BY <1>1, <1>3 DEF Wrm!SendToday, Wrm!review, Wrm!level, WarmupInvariant, LimitHolds, Wrm!TypeOK, Wrm!Days
<1>4. CASE Wrm!SafetyEvent
  <2>1. UNCHANGED <<Wrm!level, today, worker>>
    BY <1>4, SafetyStep
  <2>2. UNCHANGED Wrm!review \/ (status = "approved" /\ status' = "paused" /\ reason' = "reputation")
    BY <1>4, SafetyStep
  <2>3. LimitHolds'
    BY <2>1, <2>2 DEF Wrm!review, Wrm!level, WarmupInvariant, LimitHolds
  <2> QED
    BY <1>1, <2>1, <2>3 DEF Wrm!level, Wrm!TypeOK, Wrm!Days
<1>5. CASE Wrm!BillingEvent
    BY <1>1, <1>5 DEF Wrm!BillingEvent, Wrm!level, WarmupInvariant, LimitHolds, Wrm!TypeOK, Wrm!Days
<1>6. CASE Wrm!reviewWorkspace
  <2>1. CASE status = "pending_review" /\ stage' = 1
    <3>1. /\ stage = 0 /\ status' = "approved" /\ wrmLimit' = Steps[1].limit /\ approvedAt' = today /\ advancedAt' = today
          /\ UNCHANGED <<worker, today>>
        BY <1>6, <2>1 DEF Wrm!reviewWorkspace, WarmupInvariant, LimitHolds, Wrm!TypeOK, Wrm!level
    <3>2. LimitHolds'
        BY <2>1, <3>1 DEF LimitHolds, Wrm!TypeOK, Wrm!Days
    <3>3. \A w \in Workers : worker[w] = Wrm!Idle
        BY <3>1, WorkerShape DEF WarmupInvariant, WorkerKnows, Held
    <3> QED
        BY <3>1, <3>2, <3>3 DEF WarmupInvariant, WorkerKnows
  <2>2. CASE ~(status = "pending_review" /\ stage' = 1)
    <3>1. UNCHANGED <<usage, today, worker, stage, approvedAt, advancedAt>>
        BY <1>6, <2>2 DEF Wrm!reviewWorkspace, Wrm!level
    <3>2. CASE status' = "rejected" /\ reason' = "admin_rejected" /\ UNCHANGED Wrm!level
        BY <1>1, <3>1, <3>2 DEF Wrm!level, WarmupInvariant, LimitHolds, Wrm!TypeOK, Wrm!Days
    <3>3. CASE status' = "paused" /\ reason' = "admin_limited" /\ wrmLimit' = Steps[1].limit
        <4>1. stage > 0 => Steps[1].limit <= Steps[stage].limit
            BY DEF Wrm!TypeOK
        <4>2. LimitHolds'
            BY <3>1, <3>3, <4>1 DEF WarmupInvariant, LimitHolds, Wrm!TypeOK, Wrm!Days
        <4> QED
            BY <1>1, <3>1, <4>2 DEF Wrm!TypeOK, Wrm!Days
    <3> QED
        BY <1>6, <2>2, <3>2, <3>3 DEF Wrm!reviewWorkspace
  <2> QED
    BY <2>1, <2>2
<1>7. ASSUME NEW pin \in Pins \cup {0}, Wrm!setWorkspaceDailyLimit(pin) PROVE WarmupInvariant'
  <2>1. UNCHANGED <<Wrm!review, stage, approvedAt, advancedAt, usage, today, worker>>
    BY <1>7 DEF Wrm!setWorkspaceDailyLimit
  <2>2. stage > 0 /\ ~pinned' => wrmLimit' = Steps[stage].limit
    <3>1. ~pinned' => pin = 0
        BY <1>7 DEF Wrm!setWorkspaceDailyLimit, Wrm!Overridden
    <3>2. pin = 0 => wrmLimit' = Wrm!warmupLimitForStage(stage)
        BY <1>7 DEF Wrm!setWorkspaceDailyLimit
    <3>3. stage > 0 => Wrm!warmupLimitForStage(stage) = Steps[stage].limit
        BY DEF Wrm!warmupLimitForStage, Wrm!TypeOK
    <3> QED
        BY <3>1, <3>2, <3>3
  <2>3. LimitHolds'
    BY <2>1, <2>2 DEF Wrm!review, WarmupInvariant, LimitHolds, Wrm!TypeOK, Wrm!Days
  <2> QED
    BY <1>1, <2>1, <2>3 DEF Wrm!TypeOK, Wrm!Days
<1>8. ASSUME NEW w \in Workers, Wrm!WorkerReads(w) PROVE WarmupInvariant'
  <2>1. UNCHANGED <<Wrm!review, Wrm!level, usage, today, happened>>
    BY <1>8 DEF Wrm!WorkerReads
  <2>2. LimitHolds'
    BY <2>1 DEF Wrm!review, Wrm!level, WarmupInvariant, LimitHolds
  <2>3. ASSUME NEW x \in Workers PROVE WorkerKnows(x)'
    <3>1. CASE x = w
        BY <1>8, <2>1, <3>1, ReadStep DEF Wrm!TypeOK, WorkerKnows, Wrm!level
    <3>2. CASE x # w
        BY <1>8, <2>1, <3>2, ReadStep DEF Wrm!TypeOK, WorkerKnows, Wrm!level, WarmupInvariant, Wrm!Reference
    <3> QED
        BY <3>1, <3>2
  <2> QED
    BY <2>2, <2>3 DEF WarmupInvariant
<1>9. ASSUME NEW w \in Workers, Wrm!WorkerDecides(w) PROVE WarmupInvariant'
  <2>1. UNCHANGED <<Wrm!review, Wrm!level, usage, today, happened>>
    BY <1>9 DEF Wrm!WorkerDecides
  <2>2. LimitHolds'
    BY <2>1 DEF Wrm!review, Wrm!level, WarmupInvariant, LimitHolds
  <2>3. ASSUME NEW x \in Workers PROVE WorkerKnows(x)'
    <3>1. CASE x = w
        BY <1>9, <2>1, <3>1, DecideStep DEF Wrm!TypeOK, WorkerKnows, Wrm!level, WarmupInvariant, Wrm!Reference
    <3>2. CASE x # w
        BY <1>9, <2>1, <3>2, DecideStep DEF Wrm!TypeOK, WorkerKnows, Wrm!level, WarmupInvariant, Wrm!Reference
    <3> QED
        BY <3>1, <3>2
  <2> QED
    BY <2>2, <2>3 DEF WarmupInvariant
<1>10. ASSUME NEW w \in Workers, Wrm!WorkerAdvances(w) PROVE WarmupInvariant'
  <2>1. UNCHANGED <<Wrm!review, usage, today, happened>>
    BY <1>10 DEF Wrm!WorkerAdvances
  <2>2. \A x \in Workers : worker'[x] = Wrm!Idle \/ worker'[x] = worker[x]
    BY <1>10, AdvanceStep DEF Wrm!TypeOK
  <2>3. CASE UNCHANGED Wrm!level
    <3>1. LimitHolds'
        BY <2>1, <2>3 DEF Wrm!review, Wrm!level, WarmupInvariant, LimitHolds
    <3>2. \A x \in Workers : WorkerKnows(x)'
        BY <2>1, <2>2, <2>3 DEF Wrm!level, WarmupInvariant, WorkerKnows, Wrm!Reference
    <3> QED
        BY <3>1, <3>2 DEF WarmupInvariant
  <2>4. CASE ~UNCHANGED Wrm!level
    <3>1. /\ status = "approved" /\ stage = worker[w].stage /\ worker[w] \in Held
          /\ stage + 1 \in 1..Wrm!MaxStage /\ stage' = stage + 1 /\ wrmLimit' = Steps[stage + 1].limit
          /\ advancedAt' = today /\ UNCHANGED <<pinned, approvedAt>> /\ ~pinned
        BY <1>10, <2>4, AdvanceStep
    <3>2. stage > 0
        BY <3>1 DEF Held
    <3>3. LimitHolds'
        <4>1. stage \in Nat /\ Steps[stage + 1].limit \in Nat /\ today \in Int
            BY <3>1 DEF Wrm!TypeOK, Wrm!Days
        <4>2. UNCHANGED <<status, reason, today>>
            BY <2>1 DEF Wrm!review
        <4>3. wrmLimit' <= Steps[stage'].limit
            BY <3>1, <4>1
        <4> QED
            BY <3>1, <3>2, <4>1, <4>2, <4>3 DEF WarmupInvariant, LimitHolds
    <3>4. ASSUME NEW x \in Workers PROVE WorkerKnows(x)'
        <4>1. CASE worker'[x] = Wrm!Idle
            BY <4>1 DEF WorkerKnows
        <4>2. CASE worker'[x] = worker[x] /\ worker[x] # Wrm!Idle
            <5>1. WorkerKnows(x) /\ worker[x] \in Held
                BY <4>2, WorkerShape DEF WarmupInvariant
            <5>2. worker[x].stage <= stage /\ worker[x].stage # stage' /\ worker[x].stage <= stage'
                BY <3>1, <4>2, <5>1 DEF WorkerKnows, Held, Wrm!TypeOK
            <5> QED
                BY <2>1, <4>2, <5>1, <5>2 DEF WorkerKnows, Wrm!Reference
        <4> QED
            BY <2>2, <4>1, <4>2
    <3> QED
        BY <3>3, <3>4 DEF WarmupInvariant
  <2> QED
    BY <2>3, <2>4
<1>11. CASE UNCHANGED Wrm!vars
    BY <1>1, <1>11 DEF Wrm!vars, Wrm!review, Wrm!level, WarmupInvariant, LimitHolds, Wrm!TypeOK, Wrm!Days
<1> QED
    BY <1>2, <1>3, <1>4, <1>5, <1>6, <1>7, <1>8, <1>9, <1>10, <1>11 DEF Wrm!Next

(* The strengthening: what a review holds is no newer than the row and the *)
(* days it read, which is what makes a decision on them earned.            *)
THEOREM WarmupHolds == Wrm!WarmupAssumption => (Wrm!Spec => [](Wrm!TypeOK /\ WarmupInvariant))
<1> SUFFICES ASSUME Wrm!WarmupAssumption PROVE Wrm!Spec => [](Wrm!TypeOK /\ WarmupInvariant)
    OBVIOUS
<1>1. Wrm!Init => Wrm!TypeOK /\ WarmupInvariant
    BY WarmupInit
<1>2. (Wrm!TypeOK /\ WarmupInvariant) /\ [Wrm!Next]_Wrm!vars => (Wrm!TypeOK /\ WarmupInvariant)'
    BY WarmupTypes, WarmupNext
<1> QED
    BY <1>1, <1>2, PTL DEF Wrm!Spec

(* A limit that nobody pinned was earned (warmup-progress.ts,              *)
(* daily-limit.ts).                                                        *)
THEOREM LimitsAreEarned == Wrm!WarmupAssumption => (Wrm!Spec => []Wrm!LimitIsEarned)
<1>1. WarmupInvariant => Wrm!LimitIsEarned
    BY DEF WarmupInvariant, LimitHolds, Wrm!LimitIsEarned
<1> QED
    BY <1>1, WarmupHolds, PTL

(* Only an operator moves a limit that is pinned.                          *)
THEOREM PinsAreKept == Wrm!WarmupAssumption => (Wrm!Spec => [][Wrm!PinnedIsKept]_Wrm!vars)
<1> SUFFICES ASSUME Wrm!WarmupAssumption PROVE Wrm!Spec => [][Wrm!PinnedIsKept]_Wrm!vars
    OBVIOUS
<1>1. Wrm!TypeOK /\ WarmupInvariant /\ [Wrm!Next]_Wrm!vars => [Wrm!PinnedIsKept]_Wrm!vars
  <2> SUFFICES ASSUME Wrm!TypeOK, WarmupInvariant, Wrm!Next PROVE Wrm!PinnedIsKept
    BY DEF Wrm!PinnedIsKept, Wrm!vars, Wrm!level
  <2>1. CASE Wrm!NextDay \/ Wrm!SendToday \/ Wrm!BillingEvent
    BY <2>1 DEF Wrm!NextDay, Wrm!SendToday, Wrm!BillingEvent, Wrm!level, Wrm!PinnedIsKept
  <2>2. CASE Wrm!SafetyEvent
    BY <2>2, SafetyStep DEF Wrm!level, Wrm!PinnedIsKept
  <2>3. CASE Wrm!reviewWorkspace
    BY <2>3 DEF Wrm!reviewWorkspace, Wrm!level, Wrm!PinnedIsKept
  <2>4. CASE \E pin \in Pins \cup {0} : Wrm!setWorkspaceDailyLimit(pin)
    BY <2>4 DEF Wrm!setWorkspaceDailyLimit, Wrm!Overridden, Wrm!PinnedIsKept
  <2>5. ASSUME NEW w \in Workers, Wrm!WorkerReads(w) \/ Wrm!WorkerDecides(w) PROVE Wrm!PinnedIsKept
    BY <2>5 DEF Wrm!WorkerReads, Wrm!WorkerDecides, Wrm!level, Wrm!PinnedIsKept
  <2>6. ASSUME NEW w \in Workers, Wrm!WorkerAdvances(w) PROVE Wrm!PinnedIsKept
    BY <2>6, AdvanceStep DEF Wrm!level, Wrm!PinnedIsKept
  <2> QED
    BY <2>1, <2>2, <2>3, <2>4, <2>5, <2>6 DEF Wrm!Next
<1> QED
    BY <1>1, WarmupHolds, PTL DEF Wrm!Spec

(* A stage is reached after the days it asks for (warmup.ts).              *)
THEOREM StagesAreWaitedFor == Wrm!WarmupAssumption => (Wrm!Spec => [][Wrm!WaitedAtStage]_Wrm!vars)
<1> SUFFICES ASSUME Wrm!WarmupAssumption PROVE Wrm!Spec => [][Wrm!WaitedAtStage]_Wrm!vars
    OBVIOUS
<1>1. Wrm!TypeOK /\ WarmupInvariant /\ [Wrm!Next]_Wrm!vars => [Wrm!WaitedAtStage]_Wrm!vars
  <2> SUFFICES ASSUME Wrm!TypeOK, WarmupInvariant, Wrm!Next PROVE Wrm!WaitedAtStage
    BY DEF Wrm!WaitedAtStage, Wrm!vars, Wrm!level
  <2>0. stage \in Nat
    BY ConstantTypes DEF Wrm!TypeOK
  <2>1. CASE UNCHANGED stage
    BY <2>0, <2>1 DEF Wrm!WaitedAtStage
  <2>2. CASE Wrm!reviewWorkspace
    BY <2>0, <2>2 DEF Wrm!reviewWorkspace, Wrm!level, Wrm!WaitedAtStage, WarmupInvariant, LimitHolds
  <2>3. ASSUME NEW w \in Workers, Wrm!WorkerAdvances(w), stage' # stage PROVE Wrm!WaitedAtStage
    <3>1. /\ stage = worker[w].stage /\ stage' = stage + 1 /\ worker[w] \in Held /\ worker[w] # Wrm!Idle
          /\ Wrm!Reference(worker[w]) + Steps[stage + 1].wait <= today
        BY <2>3, AdvanceStep DEF Wrm!level, Held, Wrm!Idle
    <3>2. Wrm!Reference(worker[w]) = advancedAt
        BY <3>1 DEF WarmupInvariant, WorkerKnows, LimitHolds, Wrm!Reference
    <3> QED
        BY <2>0, <3>1, <3>2 DEF Wrm!WaitedAtStage, WarmupInvariant, LimitHolds
  <2>4. CASE Wrm!NextDay \/ Wrm!SendToday \/ Wrm!BillingEvent
    BY <2>1, <2>4 DEF Wrm!NextDay, Wrm!SendToday, Wrm!BillingEvent, Wrm!level
  <2>5. CASE Wrm!SafetyEvent
    BY <2>1, <2>5, SafetyStep DEF Wrm!level
  <2>6. CASE \E pin \in Pins \cup {0} : Wrm!setWorkspaceDailyLimit(pin)
    BY <2>1, <2>6 DEF Wrm!setWorkspaceDailyLimit
  <2>7. ASSUME NEW w \in Workers, Wrm!WorkerReads(w) \/ Wrm!WorkerDecides(w) PROVE Wrm!WaitedAtStage
    BY <2>1, <2>7 DEF Wrm!WorkerReads, Wrm!WorkerDecides, Wrm!level
  <2> QED
    BY <2>1, <2>2, <2>3, <2>4, <2>5, <2>6, <2>7 DEF Wrm!Next
<1> QED
    BY <1>1, WarmupHolds, PTL DEF Wrm!Spec

-----------------------------------------------------------------------------
\* Finite sets are the same inside and outside the instance.
LEMMA WarmupSets ==
    \A S : (Wrm!IsFiniteSet(S) <=> IsFiniteSet(S)) /\ Wrm!Cardinality(S) = Cardinality(S)
BY DEF Wrm!IsFiniteSet, IsFiniteSet, Wrm!Cardinality, Cardinality

\* What a sum of complaints is computed by, over the subsets of some days.
Picked(s)    == CHOOSE d \in s : TRUE
Sums(g, D)   == g = [s \in SUBSET D |-> IF s = {} THEN 0
                                        ELSE g[s \ {Picked(s)}] + usage[Picked(s)].complaints]
Reported(d)  == {d} \X (1..usage[d].complaints)
AllOf(s)     == UNION {Reported(d) : d \in s}

LEMMA PickedIs == \A s : s # {} => Picked(s) \in s
BY DEF Picked

LEMMA ReportedIs ==
    ASSUME Wrm!TypeOK, NEW d \in Wrm!Days
    PROVE  IsFiniteSet(Reported(d)) /\ Cardinality(Reported(d)) = usage[d].complaints
<1> DEFINE n == usage[d].complaints
<1>1. n \in Nat
    BY DEF Wrm!TypeOK
<1> HIDE DEF n
<1>2. IsFiniteSet(1..n) /\ Cardinality(1..n) = IF 1 > n THEN 0 ELSE n - 1 + 1
    BY <1>1, FS_Interval
<1>3. Cardinality(1..n) = n
    BY <1>1, <1>2
<1>4. IsFiniteSet({d}) /\ Cardinality({d}) = 1
    BY FS_Singleton
<1> DEFINE S == 1..n
<1> HIDE DEF S
<1>5. IsFiniteSet({d} \X S) /\ Cardinality({d} \X S) = Cardinality({d}) * Cardinality(S)
    BY <1>2, <1>4, FS_Product DEF S
<1>6. 1 * n = n
    BY <1>1
<1> QED
    BY <1>3, <1>4, <1>5, <1>6 DEF Reported, n, S

LEMMA AllFinite ==
    ASSUME Wrm!TypeOK, NEW s \in SUBSET Wrm!Days, IsFiniteSet(s)
    PROVE  IsFiniteSet(AllOf(s))
<1> DEFINE T == {Reported(d) : d \in s}
           f == [d \in s |-> Reported(d)]
<1>1. f \in Surjection(s, T)
    BY DEF Surjection
<1>2. IsFiniteSet(T)
    BY <1>1, FS_Surjection
<1> QED
    BY <1>2, ReportedIs, FS_UNION DEF AllOf

\* The number of all complaints is such a sum.
LEMMA SumsExist ==
    ASSUME Wrm!TypeOK, NEW D \in SUBSET Wrm!Days, IsFiniteSet(D)
    PROVE  \E g : Sums(g, D)
<1> DEFINE g == [s \in SUBSET D |-> Cardinality(AllOf(s))]
<1>1. ASSUME NEW s \in SUBSET D, s # {}
      PROVE  g[s] = g[s \ {Picked(s)}] + usage[Picked(s)].complaints
    <2> DEFINE d == Picked(s)
               r == s \ {d}
    <2>1. d \in s /\ d \in Wrm!Days /\ r \in SUBSET D /\ s \in SUBSET Wrm!Days /\ r \in SUBSET Wrm!Days
        BY <1>1, PickedIs
    <2> HIDE DEF d
    <2>2. IsFiniteSet(s) /\ IsFiniteSet(r)
        BY <2>1, FS_Subset
    <2>3. AllOf(s) = AllOf(r) \cup Reported(d)
        BY <2>1 DEF AllOf
    <2>4. AllOf(r) \cap Reported(d) = {}
        BY DEF AllOf, Reported
    <2>5. IsFiniteSet(AllOf(r)) /\ IsFiniteSet(Reported(d)) /\ Cardinality(Reported(d)) = usage[d].complaints
        BY <2>1, <2>2, AllFinite, ReportedIs
    <2>6. Cardinality(AllOf(s)) = Cardinality(AllOf(r)) + Cardinality(Reported(d)) - Cardinality({})
        BY <2>3, <2>4, <2>5, FS_Union
    <2>7. Cardinality(AllOf(r)) \in Nat /\ Cardinality({}) = 0 /\ usage[d].complaints \in Nat
        BY <2>1, <2>5, FS_CardinalityType, FS_EmptySet DEF Wrm!TypeOK
    <2>8. g[s] = Cardinality(AllOf(s)) /\ g[r] = Cardinality(AllOf(r))
        BY <2>1
    <2> QED
        BY <2>5, <2>6, <2>7, <2>8 DEF d
<1>2. g[{}] = 0
    BY FS_EmptySet DEF AllOf
<1>3. g = [s \in SUBSET D |-> g[s]]
    OBVIOUS
<1> HIDE DEF g
<1>4. \A s \in SUBSET D : g[s] = IF s = {} THEN 0 ELSE g[s \ {Picked(s)}] + usage[Picked(s)].complaints
    BY <1>1, <1>2
<1>5. [s \in SUBSET D |-> g[s]] = [s \in SUBSET D |-> IF s = {} THEN 0 ELSE g[s \ {Picked(s)}] + usage[Picked(s)].complaints]
    BY <1>4
<1>6. Sums(g, D)
    BY <1>3, <1>5 DEF Sums
<1> QED
    BY <1>6

\* A sum is nothing if and only if no day has a complaint.
LEMMA SumsTell ==
    ASSUME Wrm!TypeOK, NEW D \in SUBSET Wrm!Days, IsFiniteSet(D), NEW g, Sums(g, D)
    PROVE  g[D] = 0 => \A d \in D : usage[d].complaints = 0
<1> DEFINE Tells(s) == g[s] \in Nat /\ (g[s] = 0 => \A d \in s : usage[d].complaints = 0)
           T        == {s \in SUBSET D : ~Tells(s)}
<1>1. \A s \in SUBSET D : g[s] = IF s = {} THEN 0 ELSE g[s \ {Picked(s)}] + usage[Picked(s)].complaints
    BY DEF Sums
<1>2. T = {}
    <2> SUFFICES ASSUME T # {} PROVE FALSE
        OBVIOUS
    <2>1. IsWellFoundedOn(StrictSubsetOrdering(D), SUBSET D)
        BY FS_StrictSubsetOrderingWellFounded, FS_FiniteSubsetsOfFinite
    <2>2. PICK s \in T : \A r \in T : ~(<<r, s>> \in StrictSubsetOrdering(D))
        BY <2>1, WFMin
    <2>3. s \in SUBSET D /\ ~Tells(s)
        OBVIOUS
    <2>4. s # {}
        <3>1. s = {} => g[s] = 0
            BY <1>1, <2>3
        <3>2. s = {} => Tells(s)
            BY <3>1
        <3> QED
            BY <2>3, <3>2
    <2> DEFINE d == Picked(s)
               r == s \ {d}
    <2>5. d \in s /\ d \in Wrm!Days /\ r \in SUBSET D /\ r # s
        BY <2>3, <2>4, PickedIs
    <2>6. <<r, s>> \in StrictSubsetOrdering(D)
        BY <2>3, <2>5 DEF StrictSubsetOrdering
    <2>7. Tells(r)
        BY <2>2, <2>5, <2>6
    <2>8. g[s] = g[r] + usage[d].complaints
        BY <1>1, <2>3, <2>4
    <2>9. usage[d].complaints \in Nat
        BY <2>5 DEF Wrm!TypeOK
    <2>10. s = r \cup {d}
        BY <2>5
    <2> HIDE DEF d, r
    <2>11. Tells(s)
        BY <2>7, <2>8, <2>9, <2>10
    <2> QED
        BY <2>3, <2>11
<1> QED
    BY <1>2

LEMMA TotalTells ==
    ASSUME Wrm!TypeOK, NEW D \in SUBSET Wrm!Days, IsFiniteSet(D), Wrm!Total(D, Wrm!Complaints) = 0
    PROVE  \A d \in D : usage[d].complaints = 0
<1> DEFINE g == CHOOSE f : Sums(f, D)
<1>1. Sums(g, D)
    BY SumsExist
<1>2. Wrm!Total(D, Wrm!Complaints) = g[D]
    BY Zenon DEF Wrm!Total, Wrm!Complaints, Wrm!FoldSet, Wrm!MapThenFoldSet, Sums, Picked
<1> QED
    BY <1>1, <1>2, SumsTell

\* The days of a sample that have a row are among the latest of all rows.
LEMMA SampleCovers ==
    ASSUME Wrm!TypeOK, NEW n \in Nat, NEW d \in Wrm!Days, d <= today, d > today - n, usage[d].complaints # 0
    PROVE  d \in Wrm!Sample(n)
<1> DEFINE S == {e \in Wrm!Rows : e >= d}
<1>1. d \in Wrm!Rows
    BY DEF Wrm!Rows, Wrm!NoUsage
<1>2. today \in Nat /\ d \in Nat
    BY DEF Wrm!TypeOK, Wrm!Days
<1>3. S \in SUBSET (d..today)
    BY <1>2 DEF Wrm!Rows, Wrm!Days
<1>4. IsFiniteSet(d..today) /\ Cardinality(d..today) = today - d + 1
    BY <1>2, FS_Interval
<1>5. Cardinality(S) <= today - d + 1
    BY <1>3, <1>4, FS_Subset
<1>6. IsFiniteSet(S) /\ Cardinality(S) \in Nat
    BY <1>3, <1>4, FS_Subset, FS_CardinalityType
<1> HIDE DEF S
<1>7. Cardinality(S) <= n
    BY <1>2, <1>5, <1>6
<1> QED
    BY <1>1, <1>7, WarmupSets DEF Wrm!Sample, S

LEMMA SampleIs ==
    ASSUME Wrm!WarmupAssumption, NEW n
    PROVE  Wrm!Sample(n) \in SUBSET Wrm!Days /\ IsFiniteSet(Wrm!Sample(n))
<1>1. IsFiniteSet(Wrm!Days)
    BY FS_Interval DEF Wrm!Days, Wrm!WarmupAssumption
<1> QED
    BY <1>1, FS_Subset DEF Wrm!Sample, Wrm!Rows

(* A worker decides to advance only without a complaint in the days of its *)
(* sample (sending/warmup.ts).                                             *)
LEMMA DecidedClean ==
    ASSUME Wrm!WarmupAssumption, Wrm!TypeOK, NEW w \in Workers, worker[w] \in Held, worker[w].stage < Wrm!MaxStage,
           Wrm!warmupDecision(worker[w]),
           NEW d \in Wrm!Days, d <= today, d > today - Steps[worker[w].stage + 1].sample
    PROVE  usage[d].complaints = 0
<1> DEFINE n == Steps[worker[w].stage + 1].sample
<1>1. Wrm!Total(Wrm!Sample(n), Wrm!Complaints) = 0
    BY Zenon DEF Wrm!warmupDecision, Wrm!Healthy
<1>2. n \in Nat
    <2>1. worker[w].stage + 1 \in 1..Len(Steps)
        BY StepTypes DEF Held, Wrm!MaxStage
    <2>2. Steps[worker[w].stage + 1] \in Wrm!Step
        BY <2>1 DEF Wrm!WarmupAssumption
    <2> QED
        BY <2>2 DEF Wrm!Step
<1> HIDE DEF n
<1>3. \A e \in Wrm!Sample(n) : usage[e].complaints = 0
    BY <1>1, SampleIs, TotalTells
<1> QED
    BY <1>2, <1>3, SampleCovers DEF n

(* No worker decides to advance after a complaint in the days that its     *)
(* stage asks for (sending/warmup.ts).                                     *)
THEOREM SamplesAreClean == Wrm!WarmupAssumption => (Wrm!Spec => [][Wrm!CleanAtStage]_Wrm!vars)
<1> SUFFICES ASSUME Wrm!WarmupAssumption PROVE Wrm!Spec => [][Wrm!CleanAtStage]_Wrm!vars
    OBVIOUS
<1>1. Wrm!TypeOK /\ WarmupInvariant /\ [Wrm!Next]_Wrm!vars => [Wrm!CleanAtStage]_Wrm!vars
    <2> SUFFICES ASSUME Wrm!TypeOK, WarmupInvariant, Wrm!Next, NEW w \in Workers,
                        worker[w].pc = "decide", worker'[w].pc = "update",
                        NEW d \in Wrm!Days, d <= today, d > today - Steps[worker[w].stage + 1].sample
                 PROVE  usage[d].complaints = 0
        BY DEF Wrm!CleanAtStage
    <2>1. worker[w] \in Held /\ worker[w].stage < Wrm!MaxStage
        <3>1. worker[w] \in Held /\ worker[w] # Wrm!Idle
            BY WorkerShape DEF Wrm!Idle
        <3> QED
            BY <3>1 DEF WarmupInvariant, WorkerKnows
    <2>2. Wrm!warmupDecision(worker[w])
        <3>1. worker'[w] # worker[w] /\ worker'[w] # Wrm!Idle
            BY DEF Wrm!Idle
        <3>2. \E v \in Workers : Wrm!WorkerReads(v) \/ Wrm!WorkerDecides(v) \/ Wrm!WorkerAdvances(v)
            BY <3>1, SafetyStep DEF Wrm!Next, Wrm!NextDay, Wrm!SendToday, Wrm!SafetyEvent, Wrm!BillingEvent, Wrm!reviewWorkspace, Wrm!setWorkspaceDailyLimit
        <3>3. PICK v \in Workers : Wrm!WorkerReads(v) \/ Wrm!WorkerDecides(v) \/ Wrm!WorkerAdvances(v)
            BY <3>2
        <3>4. v = w
            BY <3>1, <3>3 DEF Wrm!WorkerReads, Wrm!WorkerDecides, Wrm!WorkerAdvances, Wrm!TypeOK
        <3>5. Wrm!WorkerDecides(w)
            BY <3>1, <3>3, <3>4 DEF Wrm!WorkerReads, Wrm!WorkerAdvances, Wrm!TypeOK, Wrm!Idle
        <3> QED
            BY <3>1, <3>5 DEF Wrm!WorkerDecides, Wrm!TypeOK
    <2> QED
        BY <2>1, <2>2, DecidedClean
<1> QED
    BY <1>1, WarmupHolds, PTL DEF Wrm!Spec

-----------------------------------------------------------------------------
(* Before a request nothing is sent and nothing is taken; an answer that   *)
(* proves that nothing was taken, or that it was, tells the truth.         *)
CallInvariant ==
    /\ Prv!TypeOK
    /\ taken <= 1
    /\ pc \in {"credential", "request"} => prvStatus = "sending" /\ sent = 0 /\ taken = 0
    /\ pc = "answered" => /\ prvStatus = "sending"
                          /\ prvAnswer \in Prv!Answers(provider)
                          /\ prvAnswer \in Prv!Taken => taken = 1
                          /\ prvAnswer \in Prv!NotTaken => taken = 0
    /\ pc = "idle" /\ prvStatus \in {"queued", "failed"} => taken = 0
    /\ pc = "idle" /\ prvStatus = "accepted" => taken = 1
    /\ pc = "idle" => prvStatus # "sending"

(* The message is taken once at most, and the worker never believes the    *)
(* contrary of what happened (providers/postmark.ts, providers/ses.ts).    *)
THEOREM CallTakesOnce == Prv!ProviderCallAssumption => (Prv!Spec => [](Prv!TypeOK /\ Prv!TakenOnce))
<1> SUFFICES ASSUME Prv!ProviderCallAssumption PROVE Prv!Spec => [](Prv!TypeOK /\ Prv!TakenOnce)
    OBVIOUS
<1>1. Prv!Init => CallInvariant
  <2> SUFFICES ASSUME Prv!Init PROVE CallInvariant
    OBVIOUS
  <2>1. enabled \in BOOLEAN /\ cached \in BOOLEAN
    BY Zenon DEF Prv!Init
  <2>2. "none" \in Prv!Answers("ses") /\ "none" \in Prv!Answers("postmark")
    BY DEF Prv!Answers
  <2> QED
    BY <2>1, <2>2 DEF Prv!Init, CallInvariant, Prv!TypeOK, Prv!ProviderCallAssumption
<1>2. CallInvariant /\ [Prv!Next]_Prv!vars => CallInvariant'
  <2> SUFFICES ASSUME CallInvariant, [Prv!Next]_Prv!vars PROVE CallInvariant'
    OBVIOUS
  <2> USE DEF CallInvariant, Prv!TypeOK, Prv!ProviderCallAssumption, Prv!At
  <2>1. CASE Prv!Call
    BY <2>1 DEF Prv!Call, Prv!Ends
  <2>2. CASE Prv!getSecureParameter
    BY <2>2 DEF Prv!getSecureParameter, Prv!Ends
  <2>3. CASE Prv!Request
    <3>1. prvAnswer' \in Prv!Answers("ses") \cup Prv!Answers("postmark")
        BY <2>3 DEF Prv!Request
    <3>2. taken = 0 /\ sent = 0 /\ prvStatus = "sending"
        BY <2>3 DEF Prv!Request
    <3>3. sent' = 1 /\ pc' = "answered"
        BY <2>3, <3>2 DEF Prv!Request, Prv!maxAttempts
    <3>4. taken' = 0 \/ taken' = 1
        BY <2>3, <3>2 DEF Prv!Request
    <3>5. /\ \A a \in Prv!Taken : a \notin Prv!NotTaken /\ a \notin Prv!Uncertain
          /\ \A a \in Prv!NotTaken : a \notin Prv!Uncertain
        BY DEF Prv!Taken, Prv!NotTaken, Prv!Uncertain
    <3>6. /\ prvAnswer' \in Prv!Taken => taken' = 1
          /\ prvAnswer' \in Prv!NotTaken => taken' = 0
        BY <2>3, <3>2, <3>5 DEF Prv!Request
    <3> QED
        BY <2>3, <3>1, <3>2, <3>3, <3>4, <3>5, <3>6 DEF Prv!Request
  <2>4. CASE Prv!Settle
    <3>1. prvStatus' \in {"queued", "unknown", "failed", "accepted"} /\ pc' = "idle"
        BY <2>4 DEF Prv!Settle, Prv!Ends, Prv!Kind, Prv!PostmarkKind, Prv!SesKind
    <3>2. /\ prvStatus' \in {"queued", "failed"} => prvAnswer \in Prv!NotTaken
          /\ prvStatus' = "accepted" => prvAnswer \in Prv!Taken
        BY <2>4 DEF Prv!Settle, Prv!Ends, Prv!Kind, Prv!PostmarkKind, Prv!SesKind, Prv!Answers, Prv!Taken, Prv!NotTaken
    <3> QED
        BY <2>4, <3>1, <3>2 DEF Prv!Settle
  <2>5. CASE Prv!Recycle
    BY <2>5 DEF Prv!Recycle
  <2>6. CASE UNCHANGED Prv!vars
    BY <2>6 DEF Prv!vars
  <2> QED
    BY <2>1, <2>2, <2>3, <2>4, <2>5, <2>6 DEF Prv!Next
<1>3. CallInvariant => Prv!TypeOK /\ Prv!TakenOnce
    BY DEF CallInvariant, Prv!TypeOK, Prv!TakenOnce
<1> QED
    BY <1>1, <1>2, <1>3, PTL DEF Prv!Spec

-----------------------------------------------------------------------------
(* Only a call that waits waits for names, and it has the others; a name   *)
(* whose load nobody is known to have started is not being loaded.         *)
SecretsInvariant ==
    /\ Sec!TypeOK /\ Sec!SecretsAreLoaded
    /\ \A c \in Callers : /\ secCall[c].pc # "waiting" => secCall[c].waits = {}
                          /\ secCall[c].pc = "waiting" => secCall[c].asks \ secCall[c].waits \subseteq env
    /\ \A n \in Secrets : loading[n] = Sec!Nobody => running[n] = 0

Call == [pc : {"idle", "waiting", "ok", "failed"}, asks : SUBSET Secrets, waits : SUBSET Secrets]

\* What a caller sees of a load that ends.
LEMMA LoadedCall ==
    ASSUME NEW n \in Secrets, Sec!Loaded(n), NEW c \in Callers, secCall[c] \in Call
    PROVE  /\ secCall'[c] \in Call
           /\ secCall'[c].asks = secCall[c].asks /\ secCall'[c].waits = secCall[c].waits \ {n}
           /\ secCall'[c].pc = IF secCall[c].waits = {n} THEN "ok" ELSE secCall[c].pc
<1>1. CASE n \in secCall[c].waits
  <2>1. secCall'[c] = [secCall[c] EXCEPT !.waits = secCall[c].waits \ {n}, !.pc = IF secCall[c].waits = {n} THEN "ok" ELSE secCall[c].pc]
    BY <1>1 DEF Sec!Loaded
  <2> QED
    BY <2>1 DEF Call
<1>2. CASE n \notin secCall[c].waits
  <2>1. secCall'[c] = secCall[c] /\ secCall[c].waits # {n} /\ secCall[c].waits \ {n} = secCall[c].waits
    BY <1>2 DEF Sec!Loaded
  <2> QED
    BY <2>1
<1> QED
    BY <1>1, <1>2

LEMMA FailedCall ==
    ASSUME NEW n \in Secrets, Sec!Failed(n), NEW c \in Callers, secCall[c] \in Call
    PROVE  /\ secCall'[c] \in Call
           /\ secCall'[c].asks = secCall[c].asks
           /\ secCall'[c].waits = IF n \in secCall[c].waits THEN {} ELSE secCall[c].waits
           /\ secCall'[c].pc = IF n \in secCall[c].waits THEN "failed" ELSE secCall[c].pc
<1>1. CASE n \in secCall[c].waits
  <2>1. secCall'[c] = [secCall[c] EXCEPT !.pc = "failed", !.waits = {}]
    BY <1>1 DEF Sec!Failed, Sec!Failing
  <2> QED
    BY <1>1, <2>1 DEF Call
<1>2. CASE n \notin secCall[c].waits
    BY <1>2 DEF Sec!Failed, Sec!Failing
<1> QED
    BY <1>1, <1>2

LEMMA SecretsNext ==
    ASSUME Sec!SecretsAssumption, SecretsInvariant, [Sec!Next]_Sec!vars
    PROVE  SecretsInvariant'
<1> USE DEF SecretsInvariant, Sec!TypeOK, Sec!SecretsAreLoaded, Sec!SecretsAssumption, Sec!Nobody
<1>1. ASSUME NEW c \in Callers, NEW names \in SUBSET Secrets, Sec!loadRuntimeSecrets(c, names)
      PROVE  SecretsInvariant'
  <2> DEFINE missing == Sec!Missing(names)
             new == {n \in missing : ~Sec!Joined(n)}
  <2>1. missing \subseteq Secrets /\ missing \cap env = {} /\ names \ missing \subseteq env
    BY DEF Sec!Missing
  <2>2. {n \in missing : Sec!Joined(n) /\ running[n] = 0} = {}
    BY <2>1 DEF Sec!Joined
  <2>3. /\ secCall[c].pc = "idle"
        /\ secCall' = [secCall EXCEPT ![c] = [asks |-> names, waits |-> missing,
                                        pc |-> IF missing = {} THEN "ok" ELSE "waiting"]]
        /\ loading' = [n \in Secrets |-> IF n \in new THEN c ELSE loading[n]]
        /\ running' = [n \in Secrets |-> IF n \in new THEN running[n] + 1 ELSE running[n]]
        /\ env' = env /\ secFaults' = secFaults
    BY <1>1, <2>2 DEF Sec!loadRuntimeSecrets
  <2>4. \A n \in Secrets : n \in missing => running'[n] = 1
    BY <2>1, <2>3 DEF Sec!Joined
  <2>5. \A n \in Secrets : n \notin new => running'[n] = running[n] /\ loading'[n] = loading[n]
    BY <2>3
  <2>6. \A n \in Secrets : n \in new => running[n] = 0 /\ running'[n] = 1 /\ loading'[n] = c
    BY <2>1, <2>3 DEF Sec!Joined
  <2>7. \A d \in Callers : d # c => secCall'[d] = secCall[d]
    BY <2>3
  <2>8. /\ secCall'[c].asks = names /\ secCall'[c].waits = missing
        /\ secCall'[c].pc = IF missing = {} THEN "ok" ELSE "waiting"
    BY <2>3
  <2>9. Sec!TypeOK'
    BY <2>1, <2>3, <2>5, <2>6
  <2> HIDE DEF missing, new
  <2> QED
    BY <2>1, <2>3, <2>4, <2>5, <2>6, <2>7, <2>8, <2>9
<1>2. ASSUME NEW n \in Secrets, Sec!Loaded(n) PROVE SecretsInvariant'
  <2>1. running[n] = 1 /\ running' = [running EXCEPT ![n] = 0]
    <3>1. running[n] \in Nat /\ running[n] > 0 /\ running[n] <= 1 /\ running' = [running EXCEPT ![n] = running[n] - 1]
        BY <1>2 DEF Sec!Loaded
    <3>2. running[n] = 1
        BY <3>1
    <3> QED
        BY <3>1, <3>2
  <2>2. env' = env \cup {n} /\ loading' = loading /\ secFaults' = secFaults
    BY <1>2 DEF Sec!Loaded
  <2>3. ASSUME NEW c \in Callers
        PROVE  /\ secCall'[c].asks = secCall[c].asks /\ secCall'[c].waits = secCall[c].waits \ {n}
               /\ secCall'[c].pc = IF secCall[c].waits = {n} THEN "ok" ELSE secCall[c].pc
    <3>1. secCall[c] \in Call
        BY DEF Call
    <3> QED
        BY <1>2, <3>1, LoadedCall
  <2>4. secCall' \in [Callers -> Call]
    <3>1. \A c \in Callers : secCall[c] \in Call
        BY DEF Call
    <3>2. \A c \in Callers : secCall'[c] \in Call
        BY <1>2, <3>1, LoadedCall
    <3> QED
        BY <1>2, <3>2 DEF Sec!Loaded
  <2>5. \A m \in Secrets : running'[m] = IF m = n THEN 0 ELSE running[m]
    BY <2>1
  <2>6. Sec!TypeOK'
    BY <2>1, <2>2, <2>4 DEF Call
  <2>7. ASSUME NEW c \in Callers
        PROVE  /\ secCall'[c].pc = "ok" => secCall'[c].asks \subseteq env'
               /\ secCall'[c].pc = "waiting" => secCall'[c].waits # {}
               /\ \A m \in secCall'[c].waits : running'[m] = 1
               /\ secCall'[c].pc # "waiting" => secCall'[c].waits = {}
               /\ secCall'[c].pc = "waiting" => secCall'[c].asks \ secCall'[c].waits \subseteq env'
    <3>1. secCall[c].waits \subseteq Secrets /\ secCall[c].asks \subseteq Secrets
        OBVIOUS
    <3>2. CASE secCall[c].waits = {n}
        BY <2>2, <2>3, <2>5, <3>1, <3>2
    <3>3. CASE secCall[c].waits # {n}
        BY <2>2, <2>3, <2>5, <3>1, <3>3
    <3> QED
        BY <3>2, <3>3
  <2>8. \A m \in Secrets : /\ running'[m] <= 1 /\ (m \notin env' /\ loading'[m] # Sec!Nobody => running'[m] = 1)
                           /\ loading'[m] = Sec!Nobody => running'[m] = 0
    BY <2>2, <2>5
  <2> QED
    BY <2>6, <2>7, <2>8
<1>3. ASSUME NEW n \in Secrets, Sec!Failed(n) PROVE SecretsInvariant'
  <2>1. running[n] = 1 /\ running' = [running EXCEPT ![n] = 0]
    <3>1. running[n] \in Nat /\ running[n] > 0 /\ running[n] <= 1 /\ running' = [running EXCEPT ![n] = running[n] - 1]
        BY <1>3 DEF Sec!Failed
    <3>2. running[n] = 1
        BY <3>1
    <3> QED
        BY <3>1, <3>2
  <2>2. env' = env /\ loading' = [loading EXCEPT ![n] = "nobody"] /\ secFaults' \in 0..SecMaxFaults
    BY <1>3 DEF Sec!Failed, Sec!Forgotten
  <2>3. ASSUME NEW c \in Callers
        PROVE  /\ secCall'[c].asks = secCall[c].asks
               /\ secCall'[c].waits = IF n \in secCall[c].waits THEN {} ELSE secCall[c].waits
               /\ secCall'[c].pc = IF n \in secCall[c].waits THEN "failed" ELSE secCall[c].pc
    <3>1. secCall[c] \in Call
        BY DEF Call
    <3> QED
        BY <1>3, <3>1, FailedCall
  <2>4. secCall' \in [Callers -> Call]
    <3>1. \A c \in Callers : secCall[c] \in Call
        BY DEF Call
    <3>2. \A c \in Callers : secCall'[c] \in Call
        BY <1>3, <3>1, FailedCall
    <3> QED
        BY <1>3, <3>2 DEF Sec!Failed, Sec!Failing
  <2> QED
    BY <2>1, <2>2, <2>3, <2>4 DEF Call
<1>4. ASSUME NEW c \in Callers, Sec!Again(c) PROVE SecretsInvariant'
    BY <1>4 DEF Sec!Again, Sec!Idle
<1>5. CASE UNCHANGED Sec!vars
    BY <1>5 DEF Sec!vars
<1> QED
    BY <1>1, <1>2, <1>3, <1>4, <1>5 DEF Sec!Next

(* A call that returns has its secrets, and a load that failed keeps no    *)
(* later call from loading (workers/runtime-secrets.ts).                   *)
THEOREM CallersGetSecrets == Sec!SecretsAssumption => (Sec!Spec => [](Sec!TypeOK /\ Sec!SecretsAreLoaded))
<1> SUFFICES ASSUME Sec!SecretsAssumption PROVE Sec!Spec => [](Sec!TypeOK /\ Sec!SecretsAreLoaded)
    OBVIOUS
<1>1. Sec!Init => SecretsInvariant
    BY DEF Sec!Init, SecretsInvariant, Sec!TypeOK, Sec!SecretsAreLoaded, Sec!SecretsAssumption, Sec!Idle, Sec!Nobody
<1>2. SecretsInvariant /\ [Sec!Next]_Sec!vars => SecretsInvariant'
    BY SecretsNext
<1>3. SecretsInvariant => Sec!TypeOK /\ Sec!SecretsAreLoaded
    BY DEF SecretsInvariant
<1> QED
    BY <1>1, <1>2, <1>3, PTL DEF Sec!Spec

-----------------------------------------------------------------------------
(* What a job has found stays so, with or without the lock: the server it  *)
(* goes by, whose token is the one stored, its domain and its webhook.     *)
WithServer == {"record", "secret", "recorded", "domain", "list", "mark", "post", "finish"}
WithToken  == {"recorded", "domain", "list", "mark", "post", "finish"}
WithDomain == {"list", "mark", "post", "finish"}

JobHolds(w) ==
    /\ pmkWorker[w].known <= servers /\ pmkWorker[w].server <= servers
    /\ ~Pmk!At(w, "idle") => Pmk!Job(w) \in Bindings
    /\ pmkWorker[w].pc \in WithServer => pmkWorker[w].server # Pmk!NoServer
    /\ pmkWorker[w].pc \in WithToken => param = pmkWorker[w].server
    /\ pmkWorker[w].pc \in WithDomain => Pmk!Job(w) \in domains
    /\ Pmk!At(w, "finish") => webhooks[Pmk!Job(w)] > 0

(* While no connection lost the lock: whoever works holds it, and what it  *)
(* read of the account and of the binding's mark still keeps a creation    *)
(* from being issued twice.                                                *)
Unmarked == {"find", "reserve", "create", "record", "secret", "recorded", "domain", "list"}

AloneHolds(w) ==
    /\ ~Pmk!At(w, "idle") => lock = w
    /\ Pmk!At(w, "find") /\ pmkWorker[w].account = Pmk!None => account.status = Pmk!None
    /\ Pmk!At(w, "reserve") => account.status = Pmk!None
    /\ Pmk!At(w, "create") => servers = 0 /\ "server" \notin late /\ account.status # Pmk!None
    /\ pmkWorker[w].pc \in Unmarked /\ ~pmkWorker[w].marked => Pmk!Job(w) \notin late
    /\ pmkWorker[w].pc \in {"mark", "post"} => Pmk!Job(w) \notin late /\ webhooks[Pmk!Job(w)] = 0
    /\ Pmk!At(w, "post") => Pmk!Marked(Pmk!Job(w))

CreationsHold ==
    /\ servers <= 1
    /\ "server" \in late => servers = 0
    /\ servers > 0 \/ "server" \in late => account.status # Pmk!None
    /\ \A b \in Bindings : webhooks[b] <= 1 /\ (b \in late => webhooks[b] = 0 /\ Pmk!Marked(b))

TokenHolds == Pmk!CredentialIsOfServer /\ account.server <= servers

Alone == lost = 0 => CreationsHold /\ \A w \in Workers : AloneHolds(w)

ProvInvariant == Pmk!TypeOK /\ TokenHolds /\ (\A w \in Workers : JobHolds(w)) /\ Alone

USE DEF Pmk!BindingRow, Pmk!AccountRow

LEMMA ProvInit == ASSUME Pmk!ProvisioningAssumption, Pmk!Init PROVE ProvInvariant
<1>1. Pmk!TypeOK
  <2>1. /\ binding \in [Bindings -> Pmk!BindingRow]
        /\ account \in Pmk!AccountRow
    BY DEF Pmk!Init, Pmk!Open, Pmk!Accounts, Pmk!NoServer
  <2>2. pmkWorker \in [Workers -> [pc : Pmk!Pcs, b : Bindings \cup {Pmk!None}, account : Pmk!Accounts,
                                known : Nat, marked : BOOLEAN, server : Nat]]
    BY DEF Pmk!Init, Pmk!Idle, Pmk!Pcs, Pmk!Accounts, Pmk!NoServer
  <2>3. ops \in 0..MaxOps /\ faults \in 0..PmkMaxFaults /\ lost \in 0..MaxLost
    BY DEF Pmk!Init, Pmk!ProvisioningAssumption
  <2>4. /\ servers \in Nat /\ param \in 0..servers /\ domains \subseteq Bindings /\ webhooks \in [Bindings -> Nat]
        /\ late \subseteq Bindings \cup {"server"} /\ lock \in Workers \cup {Pmk!None}
    BY DEF Pmk!Init, Pmk!NoServer
  <2>5. reading \in [check : SUBSET Bindings, activate : SUBSET Bindings]
    BY DEF Pmk!Init
  <2> QED
    BY <2>1, <2>2, <2>3, <2>4, <2>5 DEF Pmk!TypeOK
<1>2. TokenHolds
    BY DEF Pmk!Init, TokenHolds, Pmk!CredentialIsOfServer, Pmk!Checked, Pmk!NoServer
<1>3. \A w \in Workers : JobHolds(w)
    BY DEF Pmk!Init, JobHolds, Pmk!Idle, Pmk!At, Pmk!NoServer, WithServer, WithToken, WithDomain
<1>4. Alone
    BY DEF Pmk!Init, Alone, CreationsHold, AloneHolds, Pmk!Idle, Pmk!At, Unmarked
<1> QED
    BY <1>1, <1>2, <1>3, <1>4 DEF ProvInvariant

\* What a step does to a job that is not its own.
LEMMA JobKept ==
    ASSUME Pmk!TypeOK, NEW q \in Workers, JobHolds(q), pmkWorker'[q] = pmkWorker[q],
           servers' \in Nat, servers <= servers', param' = param \/ param = Pmk!NoServer,
           domains \subseteq domains', webhooks' \in [Bindings -> Nat],
           \A b \in Bindings : webhooks[b] <= webhooks'[b]
    PROVE  JobHolds(q)'
<1>1. /\ pmkWorker[q].known \in Nat /\ pmkWorker[q].server \in Nat /\ servers \in Nat
      /\ webhooks \in [Bindings -> Nat]
    BY DEF Pmk!TypeOK
<1>2. pmkWorker[q].known <= servers' /\ pmkWorker[q].server <= servers'
    BY <1>1 DEF JobHolds
<1>3. pmkWorker[q].pc \in WithToken => pmkWorker[q].pc \in WithServer
    BY DEF WithToken, WithServer
<1>4. pmkWorker[q].pc \in WithToken => param' = pmkWorker[q].server
    BY <1>3 DEF JobHolds
<1>5. Pmk!At(q, "finish") => webhooks'[Pmk!Job(q)] > 0
  <2>1. Pmk!At(q, "finish") => Pmk!Job(q) \in Bindings /\ webhooks[Pmk!Job(q)] > 0
    BY DEF JobHolds, Pmk!At
  <2> QED
    BY <2>1, <1>1
<1> QED
    BY <1>2, <1>4, <1>5 DEF JobHolds, Pmk!At, Pmk!Job

\* What others are doing while the lock holds: nothing.
LEMMA OthersIdle ==
    ASSUME ProvInvariant, lost = 0, NEW w \in Workers, NEW q \in Workers, q # w, ~Pmk!At(w, "idle")
    PROVE  Pmk!At(q, "idle")
BY DEF ProvInvariant, Alone, AloneHolds

LEMMA IdleIsAlone ==
    ASSUME NEW q \in Workers, Pmk!At(q, "idle"), pmkWorker'[q] = pmkWorker[q]
    PROVE  AloneHolds(q)'
BY DEF AloneHolds, Pmk!At, Unmarked

\* How a step moves its worker.
Jobs == [pc : Pmk!Pcs, b : Bindings \cup {Pmk!None}, account : Pmk!Accounts, known : Nat, marked : BOOLEAN, server : Nat]

LEMMA Goes ==
    ASSUME Pmk!TypeOK, NEW w \in Workers, NEW step \in Pmk!Pcs, Pmk!Go(w, step)
    PROVE  /\ pmkWorker' \in [Workers -> Jobs]
           /\ pmkWorker'[w].pc = step /\ pmkWorker'[w].b = pmkWorker[w].b /\ pmkWorker'[w].known = pmkWorker[w].known
           /\ pmkWorker'[w].account = pmkWorker[w].account /\ pmkWorker'[w].marked = pmkWorker[w].marked
           /\ pmkWorker'[w].server = pmkWorker[w].server
           /\ \A q \in Workers : q # w => pmkWorker'[q] = pmkWorker[q]
<1>1. pmkWorker' \in [Workers -> Jobs] /\ pmkWorker'[w] = [pmkWorker[w] EXCEPT !.pc = step]
    BY DEF Pmk!TypeOK, Pmk!Go, Jobs
<1> QED
    BY <1>1 DEF Pmk!TypeOK, Pmk!Go, Jobs

LEMMA Finds ==
    ASSUME Pmk!TypeOK, NEW w \in Workers, NEW step \in Pmk!Pcs, NEW s \in Nat, Pmk!Found(w, step, s)
    PROVE  /\ pmkWorker' \in [Workers -> Jobs]
           /\ pmkWorker'[w].pc = step /\ pmkWorker'[w].b = pmkWorker[w].b /\ pmkWorker'[w].known = pmkWorker[w].known
           /\ pmkWorker'[w].account = pmkWorker[w].account /\ pmkWorker'[w].marked = pmkWorker[w].marked
           /\ pmkWorker'[w].server = s
           /\ \A q \in Workers : q # w => pmkWorker'[q] = pmkWorker[q]
<1> DEFINE mid == [pmkWorker EXCEPT ![w].pc = step]
<1>1. mid \in [Workers -> Jobs] /\ mid[w] = [pmkWorker[w] EXCEPT !.pc = step] /\ \A q \in Workers : q # w => mid[q] = pmkWorker[q]
    BY DEF Pmk!TypeOK, Jobs
<1>2. pmkWorker' = [mid EXCEPT ![w].server = s]
    BY DEF Pmk!Found
<1>3. /\ mid[w].pc = step /\ mid[w].b = pmkWorker[w].b /\ mid[w].known = pmkWorker[w].known
      /\ mid[w].account = pmkWorker[w].account /\ mid[w].marked = pmkWorker[w].marked
    BY <1>1 DEF Pmk!TypeOK
<1> HIDE DEF mid
<1>4. pmkWorker' \in [Workers -> Jobs] /\ pmkWorker'[w] = [mid[w] EXCEPT !.server = s]
    BY <1>1, <1>2 DEF Jobs
<1>5. mid[w] \in Jobs
    BY <1>1
<1>6. /\ pmkWorker'[w].pc = mid[w].pc /\ pmkWorker'[w].b = mid[w].b /\ pmkWorker'[w].known = mid[w].known
      /\ pmkWorker'[w].account = mid[w].account /\ pmkWorker'[w].marked = mid[w].marked
      /\ pmkWorker'[w].server = s
    BY <1>4, <1>5 DEF Jobs
<1> QED
    BY <1>1, <1>2, <1>3, <1>4, <1>6

LEMMA Leaves ==
    ASSUME Pmk!TypeOK, NEW w \in Workers, Pmk!Leave(w)
    PROVE  /\ pmkWorker' \in [Workers -> Jobs]
           /\ pmkWorker'[w] = Pmk!Idle
           /\ \A q \in Workers : q # w => pmkWorker'[q] = pmkWorker[q]
           /\ lock' \in Workers \cup {Pmk!None}
BY DEF Pmk!TypeOK, Pmk!Leave, Jobs, Pmk!Idle, Pmk!Pcs, Pmk!Accounts, Pmk!NoServer

\* An idle worker has nothing to hold.
LEMMA LeftHolds ==
    ASSUME Pmk!TypeOK, NEW w \in Workers, pmkWorker'[w] = Pmk!Idle, servers' = servers
    PROVE  JobHolds(w)' /\ AloneHolds(w)'
BY DEF Pmk!TypeOK, JobHolds, AloneHolds, Pmk!Idle, Pmk!At, Pmk!NoServer, WithServer, WithToken, WithDomain, Unmarked

\* A step of a worker that holds the lock, and what is left to show of it.
LEMMA WorkerStep ==
    ASSUME Pmk!ProvisioningAssumption, ProvInvariant, NEW w \in Workers, ~Pmk!At(w, "idle"), Pmk!TypeOK', TokenHolds',
           \A q \in Workers : q # w => pmkWorker'[q] = pmkWorker[q],
           servers <= servers', param' = param \/ param = Pmk!NoServer, domains \subseteq domains',
           \A b \in Bindings : webhooks[b] <= webhooks'[b],
           lost' = lost, JobHolds(w)',
           lost = 0 => AloneHolds(w)' /\ CreationsHold'
    PROVE  ProvInvariant'
<1>1. \A q \in Workers : q # w => JobHolds(q)'
    BY JobKept DEF ProvInvariant, Pmk!TypeOK
<1>2. ASSUME lost = 0, NEW q \in Workers, q # w PROVE AloneHolds(q)'
  <2>1. Pmk!At(q, "idle")
    BY <1>2, OthersIdle
  <2> QED
    BY <1>2, <2>1, IdleIsAlone
<1> QED
    BY <1>1, <1>2 DEF ProvInvariant, Alone

\* A worker that stops, leaving the rows as they are.
LEMMA Stops ==
    ASSUME Pmk!ProvisioningAssumption, ProvInvariant, NEW w \in Workers, ~Pmk!At(w, "idle"), Pmk!Leave(w), UNCHANGED <<Pmk!rows, Pmk!postmark, reading>>,
           ops' = ops, lost' = lost, faults' \in 0..PmkMaxFaults
    PROVE  ProvInvariant'
<1>0. UNCHANGED <<binding, account, servers, param, domains, webhooks, late, reading, ops, lost>>
    BY DEF Pmk!rows, Pmk!postmark
<1>1. /\ pmkWorker' \in [Workers -> Jobs] /\ pmkWorker'[w] = Pmk!Idle /\ lock' \in Workers \cup {Pmk!None}
      /\ \A q \in Workers : q # w => pmkWorker'[q] = pmkWorker[q]
    BY Leaves DEF ProvInvariant
<1>2. Pmk!TypeOK'
    BY <1>0, <1>1 DEF ProvInvariant, Pmk!TypeOK, Jobs
<1>3. TokenHolds'
    BY <1>0 DEF ProvInvariant, TokenHolds, Pmk!CredentialIsOfServer
<1>4. JobHolds(w)' /\ AloneHolds(w)'
    BY <1>0, <1>1, LeftHolds DEF ProvInvariant
<1>5. lost = 0 => CreationsHold'
    BY <1>0 DEF ProvInvariant, Alone, CreationsHold, Pmk!Marked
<1>6. servers <= servers' /\ \A b \in Bindings : webhooks[b] <= webhooks'[b]
    BY <1>0 DEF ProvInvariant, Pmk!TypeOK
<1> QED
    BY <1>0, <1>1, <1>2, <1>3, <1>4, <1>5, <1>6, WorkerStep

\* A worker that goes from one call to the next, the world as it is.
LEMMA Moves ==
    ASSUME Pmk!ProvisioningAssumption, ProvInvariant, NEW w \in Workers, ~Pmk!At(w, "idle"),
           pmkWorker' \in [Workers -> Jobs], \A q \in Workers : q # w => pmkWorker'[q] = pmkWorker[q],
           UNCHANGED <<Pmk!rows, Pmk!postmark, lock, reading, Pmk!counts>>,
           JobHolds(w)', lost = 0 => AloneHolds(w)'
    PROVE  ProvInvariant'
<1>0. UNCHANGED <<binding, account, servers, param, domains, webhooks, late, lock, reading, ops, faults, lost>>
    BY DEF Pmk!rows, Pmk!postmark, Pmk!counts
<1>2. Pmk!TypeOK'
    BY <1>0 DEF ProvInvariant, Pmk!TypeOK, Jobs
<1>3. TokenHolds'
    BY <1>0 DEF ProvInvariant, TokenHolds, Pmk!CredentialIsOfServer
<1>5. lost = 0 => CreationsHold'
    BY <1>0 DEF ProvInvariant, Alone, CreationsHold, Pmk!Marked
<1>6. servers <= servers' /\ \A b \in Bindings : webhooks[b] <= webhooks'[b]
    BY <1>0 DEF ProvInvariant, Pmk!TypeOK
<1> QED
    BY <1>0, <1>2, <1>3, <1>5, <1>6, WorkerStep

LEMMA Starts ==
    ASSUME Pmk!ProvisioningAssumption, ProvInvariant, NEW w \in Workers, NEW b \in Bindings, Pmk!Start(w, b)
    PROVE  ProvInvariant'
<1>0. UNCHANGED <<binding, account, servers, param, domains, webhooks, late, reading, ops, faults, lost>>
    BY DEF Pmk!Start, Pmk!rows, Pmk!postmark, Pmk!counts
<1> DEFINE new == [pc |-> "find", b |-> b, account |-> account.status,
                   known |-> account.server, marked |-> Pmk!Marked(b), server |-> Pmk!NoServer]
<1>1. pmkWorker' = [pmkWorker EXCEPT ![w] = new] /\ lock' = w /\ lock = Pmk!None /\ Pmk!At(w, "idle")
    BY DEF Pmk!Start
<1>2. Pmk!Marked(b) \in BOOLEAN /\ account.status \in Pmk!Accounts /\ account.server \in Nat /\ account.server <= servers
    BY DEF Pmk!Marked, ProvInvariant, Pmk!TypeOK, TokenHolds
<1>3. new \in Jobs
    BY <1>2 DEF Jobs, Pmk!Pcs, Pmk!NoServer
<1>4. pmkWorker' \in [Workers -> Jobs] /\ pmkWorker'[w] = new /\ \A q \in Workers : q # w => pmkWorker'[q] = pmkWorker[q]
    BY <1>1, <1>3 DEF ProvInvariant, Pmk!TypeOK, Jobs
<1>5. Pmk!TypeOK'
    BY <1>0, <1>1, <1>4 DEF ProvInvariant, Pmk!TypeOK, Jobs
<1>6. TokenHolds'
    BY <1>0 DEF ProvInvariant, TokenHolds, Pmk!CredentialIsOfServer
<1>7. JobHolds(w)'
    BY <1>0, <1>2, <1>4 DEF ProvInvariant, Pmk!TypeOK, JobHolds, Pmk!At, Pmk!Job, Pmk!NoServer, WithServer, WithToken, WithDomain
<1>8. ASSUME NEW q \in Workers, q # w PROVE JobHolds(q)'
  <2>1. servers \in Nat /\ webhooks \in [Bindings -> Nat] /\ \A x \in Bindings : webhooks[x] <= webhooks'[x]
    BY <1>0 DEF ProvInvariant, Pmk!TypeOK
  <2> QED
    BY <1>0, <1>4, <1>8, <2>1, JobKept DEF ProvInvariant
<1>9. ASSUME lost = 0 PROVE CreationsHold' /\ \A q \in Workers : AloneHolds(q)'
  <2>1. CreationsHold /\ CreationsHold'
    BY <1>0, <1>9 DEF ProvInvariant, Alone, CreationsHold, Pmk!Marked
  <2>2. ~Pmk!Marked(b) => b \notin late
    BY <2>1 DEF CreationsHold
  <2>3. AloneHolds(w)'
    BY <1>0, <1>1, <1>4, <2>2 DEF AloneHolds, Pmk!At, Pmk!Job, Unmarked
  <2>4. \A q \in Workers : q # w => Pmk!At(q, "idle")
    BY <1>1, <1>9 DEF ProvInvariant, Alone, AloneHolds, Pmk!ProvisioningAssumption, Pmk!None
  <2> QED
    BY <2>1, <2>3, <2>4, <1>4, IdleIsAlone
<1> QED
    BY <1>0, <1>5, <1>6, <1>7, <1>8, <1>9 DEF ProvInvariant, Alone

\* The fields a worker has.
LEMMA WorkerType ==
    ASSUME Pmk!TypeOK, NEW w \in Workers
    PROVE  /\ pmkWorker[w].known \in Nat /\ pmkWorker[w].server \in Nat /\ pmkWorker[w].marked \in BOOLEAN
           /\ pmkWorker[w].account \in Pmk!Accounts /\ pmkWorker[w].pc \in Pmk!Pcs
BY DEF Pmk!TypeOK

LEMMA ServerFound ==
    ASSUME Pmk!ProvisioningAssumption, ProvInvariant, NEW w \in Workers, Pmk!FindServer(w)
    PROVE  ProvInvariant'
<1>0. UNCHANGED <<binding, account, servers, param, domains, webhooks, late, lock, reading, ops, faults, lost>>
    BY DEF Pmk!FindServer, Pmk!rows, Pmk!postmark, Pmk!counts
<1>1. Pmk!At(w, "find") /\ ~Pmk!At(w, "idle") /\ JobHolds(w) /\ (lost = 0 => AloneHolds(w)) /\ Pmk!TypeOK /\ servers \in Nat
    BY DEF Pmk!FindServer, Pmk!At, ProvInvariant, Alone, Pmk!TypeOK
<1>2. CASE \E s \in Nat : s # Pmk!NoServer /\ s <= servers /\ Pmk!Found(w, "record", s)
  <2>1. PICK s \in Nat : s # Pmk!NoServer /\ s <= servers /\ Pmk!Found(w, "record", s)
    BY <1>2
  <2>2. /\ pmkWorker' \in [Workers -> Jobs]
        /\ \A q \in Workers : q # w => pmkWorker'[q] = pmkWorker[q]
        /\ pmkWorker'[w].pc = "record" /\ pmkWorker'[w].b = pmkWorker[w].b /\ pmkWorker'[w].known = pmkWorker[w].known
        /\ pmkWorker'[w].marked = pmkWorker[w].marked /\ pmkWorker'[w].server = s
    BY <1>1, <2>1, Finds DEF Pmk!Pcs
  <2>4. JobHolds(w)'
    BY <1>0, <1>1, <2>1, <2>2 DEF JobHolds, Pmk!At, Pmk!Job, WithServer, WithToken, WithDomain
  <2>5. lost = 0 => AloneHolds(w)'
    BY <1>0, <1>1, <2>2 DEF AloneHolds, Pmk!At, Pmk!Job, Unmarked
  <2> QED
    BY <1>0, <1>1, <2>2, <2>4, <2>5, Moves DEF Pmk!rows, Pmk!postmark, Pmk!counts
<1>3. CASE /\ Pmk!Go(w, "reserve") \/ Pmk!Go(w, "fail")
           /\ Pmk!Go(w, "reserve") => pmkWorker[w].account = Pmk!None
  <2>1. PICK step \in {"reserve", "fail"} : Pmk!Go(w, step)
    BY <1>3
  <2>2. /\ pmkWorker' \in [Workers -> Jobs]
        /\ \A q \in Workers : q # w => pmkWorker'[q] = pmkWorker[q]
        /\ pmkWorker'[w].pc = step /\ pmkWorker'[w].b = pmkWorker[w].b /\ pmkWorker'[w].known = pmkWorker[w].known
        /\ pmkWorker'[w].marked = pmkWorker[w].marked /\ pmkWorker'[w].server = pmkWorker[w].server
    BY <1>1, <2>1, Goes DEF Pmk!Pcs
  <2>4. JobHolds(w)'
    BY <1>0, <1>1, <2>1, <2>2 DEF JobHolds, Pmk!At, Pmk!Job, WithServer, WithToken, WithDomain
  <2>5. step = "reserve" => pmkWorker[w].account = Pmk!None
    BY <1>3, <2>1
  <2>6. lost = 0 => AloneHolds(w)'
    BY <1>0, <1>1, <2>1, <2>2, <2>5 DEF AloneHolds, Pmk!At, Pmk!Job, Unmarked
  <2> QED
    BY <1>0, <1>1, <2>2, <2>4, <2>6, Moves DEF Pmk!rows, Pmk!postmark, Pmk!counts
<1>4. \/ \E s \in Nat : s # Pmk!NoServer /\ s <= servers /\ Pmk!Found(w, "record", s)
      \/ /\ Pmk!Go(w, "reserve") \/ Pmk!Go(w, "fail")
         /\ Pmk!Go(w, "reserve") => pmkWorker[w].account = Pmk!None
  <2>1. Pmk!findUnique(servers) \notin {Pmk!NoServer, Pmk!Ambiguous} => Pmk!findUnique(servers) = 1 /\ servers = 1
    BY <1>1 DEF Pmk!findUnique, Pmk!NoServer, Pmk!Ambiguous
  <2>2. pmkWorker[w].known \in Nat /\ pmkWorker[w].known <= servers
    BY <1>1, WorkerType DEF JobHolds
  <2>3. Pmk!Go(w, "fail") => ~Pmk!Go(w, "reserve")
    <3>1. Pmk!Go(w, "fail") => pmkWorker'[w].pc = "fail"
        BY <1>1, Goes DEF Pmk!Pcs
    <3>2. Pmk!Go(w, "reserve") => pmkWorker'[w].pc = "reserve"
        BY <1>1, Goes DEF Pmk!Pcs
    <3> QED
        BY <3>1, <3>2
  <2>4. CASE pmkWorker[w].known # Pmk!NoServer /\ Pmk!Found(w, "record", pmkWorker[w].known)
    BY <2>2, <2>4
  <2>5. CASE Pmk!findUnique(servers) \notin {Pmk!NoServer, Pmk!Ambiguous} /\ Pmk!Found(w, "record", Pmk!findUnique(servers))
    BY <2>1, <2>5 DEF Pmk!NoServer
  <2>6. CASE Pmk!Go(w, "fail")
    BY <2>3, <2>6
  <2>7. CASE Pmk!Go(w, IF Pmk!MayCreateServer(w) THEN "reserve" ELSE "fail")
    BY <2>3, <2>7 DEF Pmk!MayCreateServer
  <2> QED
    BY <2>4, <2>5, <2>6, <2>7 DEF Pmk!FindServer
<1> QED
    BY <1>2, <1>3, <1>4


\* A checkpoint of an account whose server has the token, or gets none.
LEMMA Checkpoints ==
    ASSUME Pmk!ProvisioningAssumption, ProvInvariant, NEW w \in Workers, NEW s \in Nat, NEW credential \in BOOLEAN, NEW next \in Pmk!Pcs,
           ~Pmk!At(w, "idle"), next \notin {"idle", "find", "reserve", "finish", "mark", "post"},
           s <= servers, credential => s # Pmk!NoServer /\ param = s,
           next \in WithServer => pmkWorker[w].server # Pmk!NoServer,
           next \in WithToken => param = pmkWorker[w].server,
           next \notin WithDomain,
           lost = 0 /\ next = "create" => account.status = Pmk!None,
           pmkWorker[w].pc \in Unmarked \/ ~(next \in Unmarked),
           Pmk!Checkpoint(w, s, credential, next), UNCHANGED <<Pmk!postmark, reading, Pmk!counts>>
    PROVE  ProvInvariant'
<1>0. UNCHANGED <<servers, param, domains, webhooks, late, reading, ops, faults, lost>>
    BY DEF Pmk!postmark, Pmk!counts
<1>1. Pmk!TypeOK /\ JobHolds(w) /\ (lost = 0 => AloneHolds(w) /\ CreationsHold) /\ TokenHolds /\ servers \in Nat
    BY DEF ProvInvariant, Alone, Pmk!TypeOK
<1>2. CASE Pmk!Leave(w) /\ UNCHANGED Pmk!rows
  <2>1. faults' \in 0..PmkMaxFaults
    BY <1>0, <1>1 DEF Pmk!TypeOK
  <2> QED
    BY <1>0, <1>2, <2>1, Stops DEF Pmk!postmark
<1>3. CASE /\ Pmk!Writable(Pmk!Job(w)) /\ Pmk!SameAccount(s)
           /\ account' = [status |-> IF account.status = "ready" THEN "ready" ELSE "pending",
                          server |-> IF s = Pmk!NoServer THEN account.server ELSE s,
                          credential |-> account.credential \/ credential]
           /\ Pmk!Go(w, next) /\ UNCHANGED <<binding, lock>>
  <2>1. /\ account'.status \in {"ready", "pending"} /\ account'.server = (IF s = Pmk!NoServer THEN account.server ELSE s)
        /\ account'.credential = (account.credential \/ credential)
        /\ account' \in Pmk!AccountRow
    <3>1. account.server \in Nat /\ account.credential \in BOOLEAN
        BY <1>1 DEF Pmk!TypeOK
    <3> QED
        BY <1>3, <3>1 DEF Pmk!Accounts
  <2>2. /\ pmkWorker' \in [Workers -> Jobs]
        /\ \A q \in Workers : q # w => pmkWorker'[q] = pmkWorker[q]
        /\ pmkWorker'[w].pc = next /\ pmkWorker'[w].b = pmkWorker[w].b /\ pmkWorker'[w].known = pmkWorker[w].known
        /\ pmkWorker'[w].marked = pmkWorker[w].marked /\ pmkWorker'[w].server = pmkWorker[w].server
    BY <1>1, <1>3, Goes
  <2>3. Pmk!TypeOK'
    BY <1>0, <1>1, <1>3, <2>1, <2>2 DEF Pmk!TypeOK, Jobs
  <2>4. TokenHolds'
    <3>1. /\ account.server \in Nat /\ account.server <= servers
          /\ account.credential => account.server # Pmk!NoServer /\ param = account.server
          /\ s = Pmk!NoServer \/ account.server \in {Pmk!NoServer, s}
        BY <1>1, <1>3 DEF Pmk!TypeOK, TokenHolds, Pmk!CredentialIsOfServer, Pmk!SameAccount
    <3>2. account'.server <= servers
        BY <2>1, <3>1
    <3>3. account'.credential => account'.server # Pmk!NoServer /\ param = account'.server
        BY <2>1, <3>1
    <3>4. account.credential => account'.credential
        BY <2>1
    <3> QED
        BY <1>0, <1>1, <1>3, <3>2, <3>3, <3>4 DEF TokenHolds, Pmk!CredentialIsOfServer
  <2>5. JobHolds(w)'
    BY <1>0, <1>1, <2>2 DEF JobHolds, Pmk!At, Pmk!Job
  <2>6. ASSUME lost = 0 PROVE AloneHolds(w)' /\ CreationsHold'
    <3>1. AloneHolds(w) /\ CreationsHold /\ account'.status # Pmk!None
        BY <1>1, <2>1, <2>6 DEF Pmk!None
    <3>2. next = "create" => servers = 0 /\ "server" \notin late
        BY <1>1, <2>6, <3>1 DEF CreationsHold
    <3>3. AloneHolds(w)'
        BY <1>0, <1>3, <2>2, <3>1, <3>2 DEF AloneHolds, Pmk!At, Pmk!Job
    <3> QED
        BY <1>0, <1>3, <3>1, <3>3 DEF CreationsHold, Pmk!Marked
  <2>7. servers <= servers' /\ \A b \in Bindings : webhooks[b] <= webhooks'[b]
    BY <1>0, <1>1 DEF Pmk!TypeOK
  <2> QED
    BY <1>0, <2>2, <2>3, <2>4, <2>5, <2>6, <2>7, WorkerStep
<1> QED
    BY <1>2, <1>3 DEF Pmk!Checkpoint

LEMMA CheckpointsHold ==
    ASSUME Pmk!ProvisioningAssumption, ProvInvariant, NEW w \in Workers, Pmk!Reserve(w) \/ Pmk!RecordServer(w) \/ Pmk!RecordCredential(w)
    PROVE  ProvInvariant'
<1>1. /\ JobHolds(w) /\ (lost = 0 => AloneHolds(w)) /\ servers \in Nat /\ pmkWorker[w].server \in Nat
      /\ pmkWorker[w].server <= servers
    BY WorkerType DEF ProvInvariant, Alone, Pmk!TypeOK, JobHolds
<1>2. CASE Pmk!Reserve(w)
  <2>1. /\ Pmk!At(w, "reserve") /\ ~Pmk!At(w, "idle") /\ pmkWorker[w].pc \in Unmarked
        /\ Pmk!Checkpoint(w, Pmk!NoServer, FALSE, "create") /\ UNCHANGED <<Pmk!postmark, reading, Pmk!counts>>
    BY <1>2 DEF Pmk!Reserve, Pmk!At, Unmarked
  <2>2. Pmk!NoServer \in Nat /\ Pmk!NoServer <= servers
    BY <1>1 DEF Pmk!NoServer
  <2>3. "create" \in Pmk!Pcs /\ "create" \notin WithServer \cup WithToken \cup WithDomain
    BY DEF Pmk!Pcs, WithServer, WithToken, WithDomain
  <2>4. lost = 0 => account.status = Pmk!None
    BY <1>1, <2>1 DEF AloneHolds
  <2> QED
    BY <2>1, <2>2, <2>3, <2>4, Checkpoints
<1>3. CASE Pmk!RecordServer(w)
  <2>1. /\ Pmk!At(w, "record") /\ ~Pmk!At(w, "idle") /\ pmkWorker[w].pc \in Unmarked
        /\ Pmk!Checkpoint(w, pmkWorker[w].server, FALSE, "secret") /\ UNCHANGED <<Pmk!postmark, reading, Pmk!counts>>
    BY <1>3 DEF Pmk!RecordServer, Pmk!At, Unmarked
  <2>2. "secret" \in Pmk!Pcs /\ "secret" \notin WithToken \cup WithDomain
    BY DEF Pmk!Pcs, WithToken, WithDomain
  <2>3. pmkWorker[w].server # Pmk!NoServer
    BY <1>1, <2>1 DEF JobHolds, Pmk!At, WithServer
  <2> QED
    BY <1>1, <2>1, <2>2, <2>3, Checkpoints
<1>4. CASE Pmk!RecordCredential(w)
  <2>1. /\ Pmk!At(w, "recorded") /\ ~Pmk!At(w, "idle") /\ pmkWorker[w].pc \in Unmarked
        /\ Pmk!Checkpoint(w, pmkWorker[w].server, TRUE, "domain") /\ UNCHANGED <<Pmk!postmark, reading, Pmk!counts>>
    BY <1>4 DEF Pmk!RecordCredential, Pmk!At, Unmarked
  <2>2. "domain" \in Pmk!Pcs /\ "domain" \notin WithDomain
    BY DEF Pmk!Pcs, WithDomain
  <2>3. pmkWorker[w].server # Pmk!NoServer /\ param = pmkWorker[w].server
    BY <1>1, <2>1 DEF JobHolds, Pmk!At, WithServer, WithToken
  <2> QED
    BY <1>1, <2>1, <2>2, <2>3, Checkpoints
<1> QED
    BY <1>2, <1>3, <1>4

LEMMA ServerCreated ==
    ASSUME Pmk!ProvisioningAssumption, ProvInvariant, NEW w \in Workers, Pmk!CreateServer(w)
    PROVE  ProvInvariant'
<1>0. UNCHANGED <<binding, account, param, domains, webhooks, lock, reading, ops, lost>>
    BY DEF Pmk!CreateServer, Pmk!rows, Pmk!counts, Pmk!Fault
<1>1. /\ Pmk!At(w, "create") /\ ~Pmk!At(w, "idle") /\ JobHolds(w) /\ (lost = 0 => AloneHolds(w) /\ CreationsHold) /\ TokenHolds
      /\ Pmk!TypeOK /\ servers \in Nat /\ param \in 0..servers /\ account.server \in Nat
    BY DEF Pmk!CreateServer, Pmk!At, ProvInvariant, Alone, Pmk!TypeOK
<1>2. CASE servers' = servers + 1 /\ Pmk!Found(w, "record", servers + 1) /\ UNCHANGED <<late, Pmk!counts>>
  <2>1. servers + 1 \in Nat /\ servers + 1 # Pmk!NoServer /\ faults' = faults
    BY <1>1, <1>2 DEF Pmk!NoServer, Pmk!counts
  <2>2. /\ pmkWorker' \in [Workers -> Jobs]
        /\ \A q \in Workers : q # w => pmkWorker'[q] = pmkWorker[q]
        /\ pmkWorker'[w].pc = "record" /\ pmkWorker'[w].b = pmkWorker[w].b /\ pmkWorker'[w].known = pmkWorker[w].known
        /\ pmkWorker'[w].marked = pmkWorker[w].marked /\ pmkWorker'[w].server = servers + 1
    BY <1>1, <1>2, <2>1, Finds DEF Pmk!Pcs
  <2>3. param' \in 0..servers'
    BY <1>0, <1>1, <1>2
  <2>4. Pmk!TypeOK'
    BY <1>0, <1>1, <1>2, <2>1, <2>2, <2>3 DEF Pmk!TypeOK, Jobs
  <2>5. TokenHolds'
    BY <1>0, <1>1, <1>2 DEF TokenHolds, Pmk!CredentialIsOfServer
  <2>6. JobHolds(w)'
    BY <1>0, <1>1, <1>2, <2>1, <2>2, WorkerType DEF JobHolds, Pmk!At, Pmk!Job, WithServer, WithToken, WithDomain
  <2>7. ASSUME lost = 0 PROVE AloneHolds(w)' /\ CreationsHold'
    <3>1. AloneHolds(w) /\ CreationsHold /\ servers = 0 /\ "server" \notin late /\ account.status # Pmk!None
        BY <1>1, <2>7 DEF AloneHolds
    <3>2. AloneHolds(w)'
        BY <1>0, <1>1, <1>2, <2>2, <3>1 DEF AloneHolds, Pmk!At, Pmk!Job, Unmarked
    <3> QED
        BY <1>0, <1>2, <3>1, <3>2 DEF CreationsHold, Pmk!Marked
  <2>8. servers <= servers' /\ \A b \in Bindings : webhooks[b] <= webhooks'[b]
    BY <1>0, <1>1, <1>2 DEF Pmk!TypeOK
  <2> QED
    BY <1>0, <1>1, <2>2, <2>4, <2>5, <2>6, <2>7, <2>8, WorkerStep
<1>3. CASE Pmk!Fault /\ Pmk!Go(w, "fail") /\ late' = late \cup {"server"} /\ UNCHANGED servers
  <2>2. /\ pmkWorker' \in [Workers -> Jobs]
        /\ \A q \in Workers : q # w => pmkWorker'[q] = pmkWorker[q]
        /\ pmkWorker'[w].pc = "fail" /\ pmkWorker'[w].b = pmkWorker[w].b /\ pmkWorker'[w].known = pmkWorker[w].known
        /\ pmkWorker'[w].marked = pmkWorker[w].marked /\ pmkWorker'[w].server = pmkWorker[w].server
    BY <1>1, <1>3, Goes DEF Pmk!Pcs
  <2>3. faults' \in 0..PmkMaxFaults
    BY <1>1, <1>3 DEF Pmk!Fault, Pmk!TypeOK, Pmk!ProvisioningAssumption
  <2>4. Pmk!TypeOK'
    BY <1>0, <1>1, <1>3, <2>2, <2>3 DEF Pmk!TypeOK, Jobs
  <2>5. TokenHolds'
    BY <1>0, <1>1, <1>3 DEF TokenHolds, Pmk!CredentialIsOfServer
  <2>6. JobHolds(w)'
    BY <1>0, <1>1, <1>3, <2>2 DEF JobHolds, Pmk!At, Pmk!Job, WithServer, WithToken, WithDomain
  <2>7. ASSUME lost = 0 PROVE AloneHolds(w)' /\ CreationsHold'
    <3>1. AloneHolds(w) /\ CreationsHold /\ servers = 0 /\ "server" \notin late /\ account.status # Pmk!None
        BY <1>1, <2>7 DEF AloneHolds
    <3>2. AloneHolds(w)'
        BY <1>0, <1>1, <1>3, <2>2, <3>1 DEF AloneHolds, Pmk!At, Pmk!Job, Unmarked
    <3>3. \A b \in Bindings : b \in late' => b \in late
        BY <1>3 DEF Pmk!ProvisioningAssumption
    <3> QED
        BY <1>0, <1>3, <3>1, <3>2, <3>3 DEF CreationsHold, Pmk!Marked
  <2>8. servers <= servers' /\ \A b \in Bindings : webhooks[b] <= webhooks'[b]
    BY <1>0, <1>1, <1>3 DEF Pmk!TypeOK
  <2> QED
    BY <1>0, <1>1, <2>2, <2>4, <2>5, <2>6, <2>7, <2>8, WorkerStep
<1> QED
    BY <1>2, <1>3 DEF Pmk!CreateServer

LEMMA CredentialStored ==
    ASSUME Pmk!ProvisioningAssumption, ProvInvariant, NEW w \in Workers, Pmk!createCredentialOnce(w)
    PROVE  ProvInvariant'
<1>0. UNCHANGED <<binding, account, servers, domains, webhooks, late, lock, reading, ops, faults, lost>>
    BY DEF Pmk!createCredentialOnce, Pmk!rows, Pmk!counts
<1>1. /\ Pmk!At(w, "secret") /\ ~Pmk!At(w, "idle") /\ JobHolds(w) /\ (lost = 0 => AloneHolds(w) /\ CreationsHold) /\ TokenHolds
      /\ Pmk!TypeOK /\ servers \in Nat /\ param \in 0..servers /\ pmkWorker[w].server \in Nat
    BY WorkerType DEF Pmk!createCredentialOnce, Pmk!At, ProvInvariant, Alone, Pmk!TypeOK
<1>2. pmkWorker[w].server # Pmk!NoServer /\ pmkWorker[w].server <= servers
    BY <1>1 DEF JobHolds, Pmk!At, WithServer
<1> DEFINE step == IF param' = pmkWorker[w].server THEN "recorded" ELSE "fail"
<1>3. /\ param' = (IF param = Pmk!NoServer THEN pmkWorker[w].server ELSE param)
      /\ Pmk!Go(w, step) /\ step \in Pmk!Pcs
    BY DEF Pmk!createCredentialOnce, Pmk!Pcs
<1>4. /\ pmkWorker' \in [Workers -> Jobs]
      /\ \A q \in Workers : q # w => pmkWorker'[q] = pmkWorker[q]
      /\ pmkWorker'[w].pc = step /\ pmkWorker'[w].b = pmkWorker[w].b /\ pmkWorker'[w].known = pmkWorker[w].known
      /\ pmkWorker'[w].marked = pmkWorker[w].marked /\ pmkWorker'[w].server = pmkWorker[w].server
    BY <1>1, <1>3, Goes
<1>5. param' \in 0..servers'
    BY <1>0, <1>1, <1>2, <1>3
<1>6. Pmk!TypeOK'
    BY <1>0, <1>1, <1>4, <1>5 DEF Pmk!TypeOK, Jobs
<1>7. param' = param \/ param = Pmk!NoServer
    BY <1>3
<1>8. TokenHolds'
    BY <1>0, <1>1, <1>7 DEF TokenHolds, Pmk!CredentialIsOfServer
<1>9. JobHolds(w)'
    BY <1>0, <1>1, <1>2, <1>4 DEF JobHolds, Pmk!At, Pmk!Job, WithServer, WithToken, WithDomain
<1>10. ASSUME lost = 0 PROVE AloneHolds(w)' /\ CreationsHold'
  <2>1. AloneHolds(w) /\ CreationsHold
    BY <1>1, <1>10
  <2>2. AloneHolds(w)'
    BY <1>0, <1>1, <1>4, <2>1 DEF AloneHolds, Pmk!At, Pmk!Job, Unmarked
  <2> QED
    BY <1>0, <2>1, <2>2 DEF CreationsHold, Pmk!Marked
<1>11. servers <= servers' /\ \A b \in Bindings : webhooks[b] <= webhooks'[b]
    BY <1>0, <1>1 DEF Pmk!TypeOK
<1> QED
    BY <1>0, <1>1, <1>4, <1>6, <1>7, <1>8, <1>9, <1>10, <1>11, WorkerStep

LEMMA DomainCreated ==
    ASSUME Pmk!ProvisioningAssumption, ProvInvariant, NEW w \in Workers, Pmk!CreateDomain(w)
    PROVE  ProvInvariant'
<1>0. /\ UNCHANGED <<binding, account, servers, param, webhooks, late, lock, reading, ops, lost>>
      /\ domains' = domains \cup {Pmk!Job(w)}
    BY DEF Pmk!CreateDomain, Pmk!rows, Pmk!counts, Pmk!Fault
<1>1. /\ Pmk!At(w, "domain") /\ ~Pmk!At(w, "idle") /\ JobHolds(w) /\ (lost = 0 => AloneHolds(w) /\ CreationsHold) /\ TokenHolds
      /\ Pmk!TypeOK /\ servers \in Nat
    BY DEF Pmk!CreateDomain, Pmk!At, ProvInvariant, Alone, Pmk!TypeOK
<1>2. PICK step \in {"list", "fail"} : Pmk!Go(w, step)
    BY DEF Pmk!CreateDomain
<1>3. faults' \in 0..PmkMaxFaults
    BY <1>1 DEF Pmk!CreateDomain, Pmk!Fault, Pmk!counts, Pmk!TypeOK, Pmk!ProvisioningAssumption
<1>4. /\ pmkWorker' \in [Workers -> Jobs]
      /\ \A q \in Workers : q # w => pmkWorker'[q] = pmkWorker[q]
      /\ pmkWorker'[w].pc = step /\ pmkWorker'[w].b = pmkWorker[w].b /\ pmkWorker'[w].known = pmkWorker[w].known
      /\ pmkWorker'[w].marked = pmkWorker[w].marked /\ pmkWorker'[w].server = pmkWorker[w].server
    BY <1>1, <1>2, Goes DEF Pmk!Pcs
<1>5. Pmk!Job(w) \in Bindings
    BY <1>1 DEF JobHolds
<1>6. Pmk!TypeOK'
    BY <1>0, <1>1, <1>3, <1>4, <1>5 DEF Pmk!TypeOK, Jobs
<1>7. TokenHolds'
    BY <1>0, <1>1 DEF TokenHolds, Pmk!CredentialIsOfServer
<1>8. JobHolds(w)'
    BY <1>0, <1>1, <1>2, <1>4 DEF JobHolds, Pmk!At, Pmk!Job, WithServer, WithToken, WithDomain
<1>9. ASSUME lost = 0 PROVE AloneHolds(w)' /\ CreationsHold'
  <2>1. AloneHolds(w) /\ CreationsHold
    BY <1>1, <1>9
  <2>2. AloneHolds(w)'
    BY <1>0, <1>1, <1>2, <1>4, <2>1 DEF AloneHolds, Pmk!At, Pmk!Job, Unmarked
  <2> QED
    BY <1>0, <2>1, <2>2 DEF CreationsHold, Pmk!Marked
<1>10. servers <= servers' /\ \A b \in Bindings : webhooks[b] <= webhooks'[b]
    BY <1>0, <1>1 DEF Pmk!TypeOK
<1> QED
    BY <1>0, <1>1, <1>4, <1>6, <1>7, <1>8, <1>9, <1>10, WorkerStep

LEMMA WebhooksListed ==
    ASSUME Pmk!ProvisioningAssumption, ProvInvariant, NEW w \in Workers, Pmk!ListWebhooks(w)
    PROVE  ProvInvariant'
<1>0. UNCHANGED <<binding, account, servers, param, domains, webhooks, late, lock, reading, ops, faults, lost>>
    BY DEF Pmk!ListWebhooks, Pmk!rows, Pmk!postmark, Pmk!counts
<1>1. /\ Pmk!At(w, "list") /\ ~Pmk!At(w, "idle") /\ JobHolds(w) /\ (lost = 0 => AloneHolds(w)) /\ Pmk!TypeOK
      /\ Pmk!Job(w) \in Bindings /\ webhooks[Pmk!Job(w)] \in Nat
    BY DEF Pmk!ListWebhooks, Pmk!At, ProvInvariant, Alone, Pmk!TypeOK, JobHolds
<1>2. PICK step \in {"finish", "fail", "mark"} :
         /\ Pmk!Go(w, step)
         /\ step = "finish" => webhooks[Pmk!Job(w)] > 0
         /\ step = "mark" => webhooks[Pmk!Job(w)] = 0 /\ ~pmkWorker[w].marked
  <2>1. Pmk!findUnique(webhooks[Pmk!Job(w)]) = 1 => webhooks[Pmk!Job(w)] > 0
    BY <1>1 DEF Pmk!findUnique, Pmk!Ambiguous
  <2> QED
    BY <2>1 DEF Pmk!ListWebhooks, Pmk!MayCreateWebhook
<1>3. /\ pmkWorker' \in [Workers -> Jobs]
      /\ \A q \in Workers : q # w => pmkWorker'[q] = pmkWorker[q]
      /\ pmkWorker'[w].pc = step /\ pmkWorker'[w].b = pmkWorker[w].b /\ pmkWorker'[w].known = pmkWorker[w].known
      /\ pmkWorker'[w].marked = pmkWorker[w].marked /\ pmkWorker'[w].server = pmkWorker[w].server
    BY <1>1, <1>2, Goes DEF Pmk!Pcs
<1>4. JobHolds(w)'
    BY <1>0, <1>1, <1>2, <1>3 DEF JobHolds, Pmk!At, Pmk!Job, WithServer, WithToken, WithDomain
<1>5. lost = 0 => AloneHolds(w)'
    BY <1>0, <1>1, <1>2, <1>3 DEF AloneHolds, Pmk!At, Pmk!Job, Unmarked
<1> QED
    BY <1>0, <1>1, <1>3, <1>4, <1>5, Moves DEF Pmk!rows, Pmk!postmark, Pmk!counts

\* A binding whose status is not among the checked ones may be written.
LEMMA BindingWritten ==
    ASSUME ProvInvariant, NEW b \in Bindings, NEW row \in Pmk!BindingRow,
           binding' = [binding EXCEPT ![b] = row],
           row.status \in Pmk!Checked => /\ webhooks'[b] > 0 /\ b \in domains' /\ account'.credential,
           account' = account \/ (account'.credential /\ param' = account'.server /\ account'.server # Pmk!NoServer),
           account'.server <= servers', UNCHANGED <<servers, param, domains, webhooks>>
    PROVE  /\ binding' \in [Bindings -> Pmk!BindingRow]
           /\ TokenHolds'
           /\ \A x \in Bindings : x # b => binding'[x] = binding[x]
           /\ binding'[b] = row
<1>1. /\ binding' \in [Bindings -> Pmk!BindingRow]
      /\ \A x \in Bindings : x # b => binding'[x] = binding[x]
      /\ binding'[b] = row
    BY DEF ProvInvariant, Pmk!TypeOK
<1>2. account.credential => account'.credential /\ account'.server # Pmk!NoServer /\ param' = account'.server
    BY DEF ProvInvariant, TokenHolds, Pmk!CredentialIsOfServer
<1>3. TokenHolds'
    BY <1>1, <1>2 DEF ProvInvariant, TokenHolds, Pmk!CredentialIsOfServer
<1> QED
    BY <1>1, <1>3

LEMMA MarkedFirst ==
    ASSUME Pmk!ProvisioningAssumption, ProvInvariant, NEW w \in Workers, Pmk!beforeWebhookCreate(w)
    PROVE  ProvInvariant'
<1>0. UNCHANGED <<account, servers, param, domains, webhooks, late, reading, ops, faults, lost>>
    BY DEF Pmk!beforeWebhookCreate, Pmk!rows, Pmk!postmark, Pmk!counts
<1>1. /\ Pmk!At(w, "mark") /\ ~Pmk!At(w, "idle") /\ JobHolds(w) /\ (lost = 0 => AloneHolds(w) /\ CreationsHold) /\ Pmk!TypeOK
      /\ Pmk!Job(w) \in Bindings /\ account.server <= servers
    BY DEF Pmk!beforeWebhookCreate, Pmk!At, ProvInvariant, Alone, Pmk!TypeOK, JobHolds, TokenHolds
<1>2. CASE Pmk!Leave(w) /\ UNCHANGED Pmk!rows
  <2>1. faults' \in 0..PmkMaxFaults
    BY <1>0, <1>1 DEF Pmk!TypeOK
  <2> QED
    BY <1>0, <1>1, <1>2, <2>1, Stops DEF Pmk!postmark
<1>3. CASE /\ Pmk!Writable(Pmk!Job(w))
           /\ binding' = [binding EXCEPT ![Pmk!Job(w)].error = "uncertain"]
           /\ Pmk!Go(w, "post") /\ UNCHANGED <<account, lock>>
  <2> DEFINE row == [binding[Pmk!Job(w)] EXCEPT !.error = "uncertain"]
  <2>1. /\ row \in Pmk!BindingRow
        /\ row.status = binding[Pmk!Job(w)].status /\ row.error = "uncertain"
    BY <1>1 DEF Pmk!TypeOK
  <2>2. binding' = [binding EXCEPT ![Pmk!Job(w)] = row] /\ row.status \notin Pmk!Checked
    BY <1>3, <2>1 DEF Pmk!Writable, Pmk!Open, Pmk!Checked
  <2> HIDE DEF row
  <2>3. /\ binding' \in [Bindings -> Pmk!BindingRow]
        /\ TokenHolds'
        /\ \A x \in Bindings : x # Pmk!Job(w) => binding'[x] = binding[x]
        /\ binding'[Pmk!Job(w)] = row
    BY <1>0, <1>1, <2>1, <2>2, BindingWritten
  <2>4. /\ pmkWorker' \in [Workers -> Jobs]
        /\ \A q \in Workers : q # w => pmkWorker'[q] = pmkWorker[q]
        /\ pmkWorker'[w].pc = "post" /\ pmkWorker'[w].b = pmkWorker[w].b /\ pmkWorker'[w].known = pmkWorker[w].known
        /\ pmkWorker'[w].marked = pmkWorker[w].marked /\ pmkWorker'[w].server = pmkWorker[w].server
    BY <1>1, <1>3, Goes DEF Pmk!Pcs
  <2>5. Pmk!TypeOK'
    BY <1>0, <1>1, <1>3, <2>3, <2>4 DEF Pmk!TypeOK, Jobs
  <2>6. JobHolds(w)'
    BY <1>0, <1>1, <2>4 DEF JobHolds, Pmk!At, Pmk!Job, WithServer, WithToken, WithDomain
  <2>7. ASSUME lost = 0 PROVE AloneHolds(w)' /\ CreationsHold'
    <3>1. AloneHolds(w) /\ CreationsHold
        BY <1>1, <2>7
    <3>2. \A b \in Bindings : Pmk!Marked(b) => Pmk!Marked(b)'
        BY <2>1, <2>3 DEF Pmk!Marked
    <3>3. Pmk!Marked(Pmk!Job(w))' /\ Pmk!Job(w)' = Pmk!Job(w)
        BY <2>1, <2>3, <2>4 DEF Pmk!Marked, Pmk!Job
    <3>4. AloneHolds(w)'
        BY <1>0, <1>1, <1>3, <2>4, <3>1, <3>3 DEF AloneHolds, Pmk!At, Pmk!Job, Unmarked
    <3> QED
        BY <1>0, <3>1, <3>2, <3>4 DEF CreationsHold
  <2>8. servers <= servers' /\ \A b \in Bindings : webhooks[b] <= webhooks'[b]
    BY <1>0, <1>1 DEF Pmk!TypeOK
  <2> QED
    BY <1>0, <1>1, <2>3, <2>4, <2>5, <2>6, <2>7, <2>8, WorkerStep
<1> QED
    BY <1>2, <1>3 DEF Pmk!beforeWebhookCreate

LEMMA WebhookCreated ==
    ASSUME Pmk!ProvisioningAssumption, ProvInvariant, NEW w \in Workers, Pmk!CreateWebhook(w)
    PROVE  ProvInvariant'
<1>0. UNCHANGED <<binding, account, servers, param, domains, lock, reading, ops, lost>>
    BY DEF Pmk!CreateWebhook, Pmk!rows, Pmk!counts, Pmk!Fault
<1>1. /\ Pmk!At(w, "post") /\ ~Pmk!At(w, "idle") /\ JobHolds(w) /\ (lost = 0 => AloneHolds(w) /\ CreationsHold) /\ Pmk!TypeOK
      /\ Pmk!Job(w) \in Bindings /\ webhooks[Pmk!Job(w)] \in Nat /\ TokenHolds /\ webhooks \in [Bindings -> Nat]
    BY DEF Pmk!CreateWebhook, Pmk!At, ProvInvariant, Alone, Pmk!TypeOK, JobHolds
<1>2. CASE webhooks' = [webhooks EXCEPT ![Pmk!Job(w)] = @ + 1] /\ Pmk!Go(w, "finish") /\ UNCHANGED <<late, Pmk!counts>>
  <2>1. /\ webhooks' \in [Bindings -> Nat] /\ webhooks'[Pmk!Job(w)] = webhooks[Pmk!Job(w)] + 1 /\ faults' = faults
        /\ \A b \in Bindings : b # Pmk!Job(w) => webhooks'[b] = webhooks[b]
    BY <1>1, <1>2 DEF Pmk!counts
  <2>2. \A b \in Bindings : webhooks[b] <= webhooks'[b] /\ (webhooks[b] > 0 => webhooks'[b] > 0)
    BY <1>1, <2>1
  <2>4. /\ pmkWorker' \in [Workers -> Jobs]
        /\ \A q \in Workers : q # w => pmkWorker'[q] = pmkWorker[q]
        /\ pmkWorker'[w].pc = "finish" /\ pmkWorker'[w].b = pmkWorker[w].b /\ pmkWorker'[w].known = pmkWorker[w].known
        /\ pmkWorker'[w].marked = pmkWorker[w].marked /\ pmkWorker'[w].server = pmkWorker[w].server
    BY <1>1, <1>2, Goes DEF Pmk!Pcs
  <2>5. Pmk!TypeOK'
    BY <1>0, <1>1, <1>2, <2>1, <2>4 DEF Pmk!TypeOK, Jobs
  <2>6. TokenHolds'
    BY <1>0, <1>1, <2>2 DEF TokenHolds, Pmk!CredentialIsOfServer
  <2>7. JobHolds(w)'
    BY <1>0, <1>1, <2>1, <2>4 DEF JobHolds, Pmk!At, Pmk!Job, WithServer, WithToken, WithDomain
  <2>8. ASSUME lost = 0 PROVE AloneHolds(w)' /\ CreationsHold'
    <3>1. AloneHolds(w) /\ CreationsHold /\ webhooks[Pmk!Job(w)] = 0 /\ Pmk!Job(w) \notin late
        BY <1>1, <2>8 DEF AloneHolds, Pmk!At
    <3>2. AloneHolds(w)'
        BY <1>0, <1>1, <1>2, <2>4, <3>1 DEF AloneHolds, Pmk!At, Pmk!Job, Unmarked
    <3>3. \A b \in Bindings : webhooks'[b] <= 1 /\ (b \in late' => webhooks'[b] = 0 /\ Pmk!Marked(b)')
        BY <1>0, <1>2, <2>1, <3>1 DEF CreationsHold, Pmk!Marked
    <3> QED
        BY <1>0, <1>2, <3>1, <3>2, <3>3 DEF CreationsHold
  <2> QED
    BY <1>0, <1>1, <2>2, <2>4, <2>5, <2>6, <2>7, <2>8, WorkerStep DEF Pmk!TypeOK
<1>3. CASE Pmk!Fault /\ Pmk!Go(w, "fail") /\ late' = late \cup {Pmk!Job(w)} /\ UNCHANGED webhooks
  <2>2. /\ pmkWorker' \in [Workers -> Jobs]
        /\ \A q \in Workers : q # w => pmkWorker'[q] = pmkWorker[q]
        /\ pmkWorker'[w].pc = "fail" /\ pmkWorker'[w].b = pmkWorker[w].b /\ pmkWorker'[w].known = pmkWorker[w].known
        /\ pmkWorker'[w].marked = pmkWorker[w].marked /\ pmkWorker'[w].server = pmkWorker[w].server
    BY <1>1, <1>3, Goes DEF Pmk!Pcs
  <2>3. faults' \in 0..PmkMaxFaults
    BY <1>1, <1>3 DEF Pmk!Fault, Pmk!TypeOK, Pmk!ProvisioningAssumption
  <2>4. Pmk!TypeOK'
    BY <1>0, <1>1, <1>3, <2>2, <2>3 DEF Pmk!TypeOK, Jobs
  <2>5. TokenHolds'
    BY <1>0, <1>1, <1>3 DEF TokenHolds, Pmk!CredentialIsOfServer
  <2>6. JobHolds(w)'
    BY <1>0, <1>1, <1>3, <2>2 DEF JobHolds, Pmk!At, Pmk!Job, WithServer, WithToken, WithDomain
  <2>7. ASSUME lost = 0 PROVE AloneHolds(w)' /\ CreationsHold'
    <3>1. AloneHolds(w) /\ CreationsHold /\ webhooks[Pmk!Job(w)] = 0 /\ Pmk!Marked(Pmk!Job(w))
        BY <1>1, <2>7 DEF AloneHolds, Pmk!At
    <3>2. AloneHolds(w)'
        BY <1>0, <1>1, <1>3, <2>2, <3>1 DEF AloneHolds, Pmk!At, Pmk!Job, Unmarked
    <3>3. "server" \in late' => "server" \in late
        BY <1>1, <1>3 DEF Pmk!ProvisioningAssumption
    <3>4. \A b \in Bindings : webhooks'[b] <= 1 /\ (b \in late' => webhooks'[b] = 0 /\ Pmk!Marked(b)')
        BY <1>0, <1>3, <3>1 DEF CreationsHold, Pmk!Marked
    <3> QED
        BY <1>0, <3>1, <3>2, <3>3, <3>4 DEF CreationsHold
  <2>8. servers <= servers' /\ \A b \in Bindings : webhooks[b] <= webhooks'[b]
    BY <1>0, <1>1, <1>3 DEF Pmk!TypeOK
  <2> QED
    BY <1>0, <1>1, <2>2, <2>4, <2>5, <2>6, <2>7, <2>8, WorkerStep
<1> QED
    BY <1>2, <1>3 DEF Pmk!CreateWebhook

\* Leaving after a write to the job's binding, and to the account.
LEMMA WroteAndLeft ==
    ASSUME Pmk!ProvisioningAssumption, ProvInvariant, NEW w \in Workers, ~Pmk!At(w, "idle"), Pmk!Leave(w),
           UNCHANGED <<Pmk!postmark, reading, Pmk!counts>>, TokenHolds',
           binding' \in [Bindings -> Pmk!BindingRow],
           account' \in Pmk!AccountRow,
           lost = 0 => CreationsHold'
    PROVE  ProvInvariant'
<1>0. UNCHANGED <<servers, param, domains, webhooks, late, reading, ops, faults, lost>>
    BY DEF Pmk!postmark, Pmk!counts
<1>1. /\ pmkWorker' \in [Workers -> Jobs] /\ pmkWorker'[w] = Pmk!Idle /\ lock' \in Workers \cup {Pmk!None}
      /\ \A q \in Workers : q # w => pmkWorker'[q] = pmkWorker[q]
    BY Leaves DEF ProvInvariant
<1>2. Pmk!TypeOK'
    BY <1>0, <1>1 DEF ProvInvariant, Pmk!TypeOK, Jobs
<1>3. JobHolds(w)' /\ AloneHolds(w)'
    BY <1>0, <1>1, LeftHolds DEF ProvInvariant
<1>4. servers <= servers' /\ \A b \in Bindings : webhooks[b] <= webhooks'[b]
    BY <1>0 DEF ProvInvariant, Pmk!TypeOK
<1> QED
    BY <1>0, <1>1, <1>2, <1>3, <1>4, WorkerStep

LEMMA Finished ==
    ASSUME Pmk!ProvisioningAssumption, ProvInvariant, NEW w \in Workers, Pmk!Finish(w)
    PROVE  ProvInvariant'
<1>0. UNCHANGED <<Pmk!postmark, reading, Pmk!counts>> /\ UNCHANGED <<servers, param, domains, webhooks, late>> /\ Pmk!Leave(w)
    BY DEF Pmk!Finish, Pmk!postmark, Pmk!counts
<1>1. /\ Pmk!At(w, "finish") /\ ~Pmk!At(w, "idle") /\ JobHolds(w) /\ (lost = 0 => CreationsHold) /\ Pmk!TypeOK
      /\ TokenHolds /\ Pmk!Job(w) \in Bindings /\ account.server <= servers
    BY DEF Pmk!Finish, Pmk!At, ProvInvariant, Alone, JobHolds, TokenHolds
<1>2. CASE UNCHANGED Pmk!rows
  <2>1. UNCHANGED <<binding, account>>
    BY <1>2 DEF Pmk!rows
  <2>2. TokenHolds' /\ (lost = 0 => CreationsHold')
    BY <1>0, <1>1, <2>1 DEF TokenHolds, Pmk!CredentialIsOfServer, CreationsHold, Pmk!Marked
  <2> QED
    BY <1>0, <1>1, <2>1, <2>2, WroteAndLeft DEF Pmk!TypeOK
<1>3. CASE /\ binding' = [binding EXCEPT ![Pmk!Job(w)].status = "dns_pending", ![Pmk!Job(w)].error = Pmk!None]
           /\ account' = [status |-> "ready", server |-> pmkWorker[w].server, credential |-> TRUE]
  <2> DEFINE mid == [binding[Pmk!Job(w)] EXCEPT !.status = "dns_pending"]
             row == [mid EXCEPT !.error = Pmk!None]
  <2>1. mid \in Pmk!BindingRow
    BY <1>1 DEF Pmk!TypeOK, Pmk!Checked
  <2>2. row \in Pmk!BindingRow
    BY <2>1
  <2>3. binding' = [binding EXCEPT ![Pmk!Job(w)] = row]
    BY <1>1, <1>3 DEF Pmk!TypeOK
  <2>4. /\ pmkWorker[w].server \in Nat /\ pmkWorker[w].server # Pmk!NoServer /\ pmkWorker[w].server <= servers
        /\ param = pmkWorker[w].server /\ Pmk!Job(w) \in domains /\ webhooks[Pmk!Job(w)] > 0
    BY <1>1, WorkerType DEF JobHolds, Pmk!At, WithServer, WithToken, WithDomain
  <2>5. /\ account'.credential /\ account'.server = pmkWorker[w].server /\ account'.status = "ready"
        /\ account' \in Pmk!AccountRow
    BY <1>3, <2>4 DEF Pmk!Accounts
  <2> HIDE DEF mid, row
  <2>6. /\ binding' \in [Bindings -> Pmk!BindingRow]
        /\ TokenHolds'
        /\ \A x \in Bindings : x # Pmk!Job(w) => binding'[x] = binding[x]
    BY <1>0, <1>1, <2>2, <2>3, <2>4, <2>5, BindingWritten
  <2>7. lost = 0 => CreationsHold'
    BY <1>0, <1>1, <2>4, <2>5, <2>6 DEF CreationsHold, Pmk!Marked, Pmk!None
  <2> QED
    BY <1>0, <1>1, <2>5, <2>6, <2>7, WroteAndLeft
<1> QED
    BY <1>2, <1>3 DEF Pmk!Finish

LEMMA FailureRecorded ==
    ASSUME Pmk!ProvisioningAssumption, ProvInvariant, NEW w \in Workers, Pmk!RecordFailure(w)
    PROVE  ProvInvariant'
<1>0. /\ UNCHANGED <<Pmk!postmark, reading, Pmk!counts>> /\ UNCHANGED <<account, servers, param, domains, webhooks, late>> /\ Pmk!Leave(w)
    BY DEF Pmk!RecordFailure, Pmk!postmark, Pmk!counts
<1>1. /\ ~Pmk!At(w, "idle") /\ JobHolds(w) /\ (lost = 0 => CreationsHold) /\ Pmk!TypeOK
      /\ TokenHolds /\ Pmk!Job(w) \in Bindings /\ account.server <= servers
      /\ account \in Pmk!AccountRow
    BY DEF Pmk!RecordFailure, Pmk!At, ProvInvariant, Alone, JobHolds, TokenHolds, Pmk!TypeOK
<1>2. CASE binding' = binding
  <2>2. TokenHolds' /\ (lost = 0 => CreationsHold')
    BY <1>0, <1>1, <1>2 DEF TokenHolds, Pmk!CredentialIsOfServer, CreationsHold, Pmk!Marked
  <2> QED
    BY <1>0, <1>1, <1>2, <2>2, WroteAndLeft DEF Pmk!TypeOK
<1>3. CASE binding' = [binding EXCEPT ![Pmk!Job(w)].status = "failed", ![Pmk!Job(w)].error = Pmk!KeptError(Pmk!Job(w))]
  <2> DEFINE mid == [binding[Pmk!Job(w)] EXCEPT !.status = "failed"]
             row == [mid EXCEPT !.error = Pmk!KeptError(Pmk!Job(w))]
  <2>1. mid \in Pmk!BindingRow
    BY <1>1 DEF Pmk!TypeOK, Pmk!Open
  <2>2. /\ row \in Pmk!BindingRow
        /\ row.status = "failed" /\ (Pmk!Marked(Pmk!Job(w)) => row.error = "uncertain")
    BY <1>1, <2>1 DEF Pmk!KeptError, Pmk!TypeOK
  <2>3. binding' = [binding EXCEPT ![Pmk!Job(w)] = row]
    BY <1>1, <1>3 DEF Pmk!TypeOK
  <2>4. "failed" \notin Pmk!Checked
    BY DEF Pmk!Checked
  <2> HIDE DEF mid, row
  <2>5. /\ binding' \in [Bindings -> Pmk!BindingRow]
        /\ TokenHolds'
        /\ \A x \in Bindings : x # Pmk!Job(w) => binding'[x] = binding[x]
        /\ binding'[Pmk!Job(w)] = row
    BY <1>0, <1>1, <2>2, <2>3, <2>4, BindingWritten
  <2>6. \A b \in Bindings : Pmk!Marked(b) => Pmk!Marked(b)'
    BY <2>2, <2>5 DEF Pmk!Marked
  <2>7. lost = 0 => CreationsHold'
    BY <1>0, <1>1, <2>6 DEF CreationsHold
  <2> QED
    BY <1>0, <1>1, <2>5, <2>7, WroteAndLeft
<1> QED
    BY <1>2, <1>3 DEF Pmk!RecordFailure

\* A step of nobody's job, to the rows or at Postmark.
LEMMA OutsideStep ==
    ASSUME Pmk!ProvisioningAssumption, ProvInvariant, UNCHANGED <<pmkWorker, lock, lost, param, domains>>, Pmk!TypeOK', TokenHolds',
           servers <= servers', \A b \in Bindings : webhooks[b] <= webhooks'[b],
           lost = 0 => CreationsHold' /\ \A w \in Workers : AloneHolds(w)'
    PROVE  ProvInvariant'
<1>1. \A q \in Workers : JobHolds(q)'
    BY JobKept DEF ProvInvariant, Pmk!TypeOK
<1> QED
    BY <1>1 DEF ProvInvariant, Alone

\* The rows as operators and checks leave them.
LEMMA RowsWritten ==
    ASSUME Pmk!ProvisioningAssumption, ProvInvariant, UNCHANGED <<pmkWorker, lock, lost, faults, Pmk!postmark>>, ops' \in 0..MaxOps,
           reading' \in [check : SUBSET Bindings, activate : SUBSET Bindings],
           binding' \in [Bindings -> Pmk!BindingRow],
           \A b \in Bindings : binding'[b].status \in Pmk!Checked => binding[b].status \in Pmk!Checked,
           \A b \in Bindings : Pmk!Marked(b) => Pmk!Marked(b)' \/ binding[b].status \in Pmk!Checked,
           account' \in Pmk!AccountRow,
           account'.server = account.server, account'.credential = account.credential,
           account'.status = account.status \/ (account.status # Pmk!None /\ account'.status # Pmk!None)
    PROVE  ProvInvariant'
<1>0. UNCHANGED <<servers, param, domains, webhooks, late>>
    BY DEF Pmk!postmark
<1>1. Pmk!TypeOK'
    BY <1>0 DEF ProvInvariant, Pmk!TypeOK
<1>2. TokenHolds'
    BY <1>0 DEF ProvInvariant, TokenHolds, Pmk!CredentialIsOfServer
<1>3. servers <= servers' /\ \A b \in Bindings : webhooks[b] <= webhooks'[b]
    BY <1>0 DEF ProvInvariant, Pmk!TypeOK
<1>4. \A b \in Bindings : Pmk!Marked(b) /\ webhooks[b] = 0 => Pmk!Marked(b)'
  <2>1. \A b \in Bindings : binding[b].status \in Pmk!Checked => webhooks[b] > 0
    BY DEF ProvInvariant, TokenHolds, Pmk!CredentialIsOfServer
  <2> QED
    BY <2>1
<1>5. ASSUME lost = 0 PROVE CreationsHold'
    BY <1>0, <1>4, <1>5 DEF ProvInvariant, Alone, CreationsHold
<1>6. ASSUME lost = 0, NEW w \in Workers PROVE AloneHolds(w)'
  <2>1. AloneHolds(w) /\ (~Pmk!At(w, "idle") => Pmk!Job(w) \in Bindings)
    BY <1>6 DEF ProvInvariant, Alone, JobHolds
  <2>2. Pmk!At(w, "post") => Pmk!Marked(Pmk!Job(w))'
    <3>1. Pmk!At(w, "post") => Pmk!Job(w) \in Bindings /\ webhooks[Pmk!Job(w)] = 0 /\ Pmk!Marked(Pmk!Job(w))
        BY <2>1 DEF AloneHolds, Pmk!At
    <3>2. Pmk!Job(w)' = Pmk!Job(w)
        BY DEF Pmk!Job
    <3>3. Pmk!At(w, "post") => binding'[Pmk!Job(w)].error = "uncertain"
        BY <1>4, <3>1 DEF Pmk!Marked
    <3> QED
        BY <3>2, <3>3 DEF Pmk!Marked
  <2>3. account.status = Pmk!None => account'.status = Pmk!None
    OBVIOUS
  <2>4. account.status # Pmk!None => account'.status # Pmk!None
    OBVIOUS
  <2>5. Pmk!Job(w)' = Pmk!Job(w)
    BY DEF Pmk!Job
  <2> QED
    BY <1>0, <2>1, <2>2, <2>3, <2>4, <2>5 DEF AloneHolds, Pmk!At, Pmk!Marked
<1> QED
    BY <1>0, <1>1, <1>2, <1>3, <1>5, <1>6, OutsideStep

LEMMA LockLost ==
    ASSUME Pmk!ProvisioningAssumption, ProvInvariant, Pmk!LoseLock
    PROVE  ProvInvariant'
<1>0. /\ UNCHANGED <<binding, account, servers, param, domains, webhooks, late, pmkWorker, reading, ops, faults>>
      /\ lost' = lost + 1 /\ lost < MaxLost /\ lock' = Pmk!None
    BY DEF Pmk!LoseLock, Pmk!rows, Pmk!postmark
<1>1. Pmk!TypeOK /\ lost \in Nat
    BY DEF ProvInvariant, Pmk!TypeOK
<1>2. lost' # 0 /\ lost' \in 0..MaxLost
    BY <1>0, <1>1 DEF Pmk!ProvisioningAssumption
<1>3. Pmk!TypeOK'
    BY <1>0, <1>1, <1>2 DEF Pmk!TypeOK
<1>4. TokenHolds'
    BY <1>0 DEF ProvInvariant, TokenHolds, Pmk!CredentialIsOfServer
<1>5. servers <= servers' /\ \A b \in Bindings : webhooks[b] <= webhooks'[b]
    BY <1>0, <1>1 DEF Pmk!TypeOK
<1>6. \A q \in Workers : JobHolds(q)'
    BY <1>0, <1>5, JobKept DEF ProvInvariant, Pmk!TypeOK
<1> QED
    BY <1>2, <1>3, <1>4, <1>6 DEF ProvInvariant, Alone

\* What Postmark completes late was begun by nobody else in the meantime.
LEMMA TookEffect ==
    ASSUME Pmk!ProvisioningAssumption, ProvInvariant, NEW x \in late, Pmk!TakesEffect(x)
    PROVE  ProvInvariant'
<1>0. /\ UNCHANGED <<binding, account, param, domains, lock, pmkWorker, reading, ops, faults, lost>>
      /\ late' = late \ {x}
    BY DEF Pmk!TakesEffect, Pmk!rows, Pmk!counts
<1>1. /\ Pmk!TypeOK /\ TokenHolds /\ servers \in Nat /\ param \in 0..servers /\ account.server \in Nat
      /\ webhooks \in [Bindings -> Nat] /\ late \subseteq Bindings \cup {"server"}
      /\ account.server <= servers
    BY DEF ProvInvariant, Pmk!TypeOK, TokenHolds
<1>2. CASE x = "server" /\ servers' = servers + 1 /\ UNCHANGED webhooks
  <2>1. param' \in 0..servers' /\ servers' \in Nat /\ servers <= servers'
    BY <1>0, <1>1, <1>2
  <2>2. Pmk!TypeOK'
    BY <1>0, <1>1, <1>2, <2>1 DEF Pmk!TypeOK
  <2>3. TokenHolds'
    BY <1>0, <1>1, <1>2 DEF TokenHolds, Pmk!CredentialIsOfServer
  <2>4. \A b \in Bindings : webhooks[b] <= webhooks'[b]
    BY <1>1, <1>2
  <2>5. ASSUME lost = 0 PROVE CreationsHold' /\ \A w \in Workers : AloneHolds(w)'
    <3>1. CreationsHold /\ (\A w \in Workers : AloneHolds(w)) /\ servers = 0 /\ account.status # Pmk!None
        BY <1>2, <2>5 DEF ProvInvariant, Alone, CreationsHold
    <3>2. CreationsHold'
        BY <1>0, <1>2, <3>1 DEF CreationsHold, Pmk!Marked
    <3>3. ASSUME NEW w \in Workers PROVE AloneHolds(w)'
        BY <1>0, <1>2, <3>1 DEF AloneHolds, Pmk!At, Pmk!Job, Pmk!Marked
    <3> QED
        BY <3>2, <3>3
  <2> QED
    BY <1>0, <2>1, <2>2, <2>3, <2>4, <2>5, OutsideStep
<1>3. CASE x # "server" /\ webhooks' = [webhooks EXCEPT ![x] = @ + 1] /\ UNCHANGED servers
  <2>1. /\ x \in Bindings /\ webhooks'[x] = webhooks[x] + 1 /\ webhooks' \in [Bindings -> Nat]
        /\ \A b \in Bindings : b # x => webhooks'[b] = webhooks[b]
    BY <1>1, <1>3
  <2>2. Pmk!TypeOK'
    BY <1>0, <1>1, <1>3, <2>1 DEF Pmk!TypeOK
  <2>3. \A b \in Bindings : webhooks[b] <= webhooks'[b] /\ (webhooks[b] > 0 => webhooks'[b] > 0)
    BY <1>1, <2>1
  <2>4. TokenHolds'
    BY <1>0, <1>1, <1>3, <2>3 DEF TokenHolds, Pmk!CredentialIsOfServer
  <2>5. ASSUME lost = 0 PROVE CreationsHold' /\ \A w \in Workers : AloneHolds(w)'
    <3>1. CreationsHold /\ (\A w \in Workers : AloneHolds(w)) /\ webhooks[x] = 0
        BY <2>1, <2>5 DEF ProvInvariant, Alone, CreationsHold
    <3>2. CreationsHold'
        BY <1>0, <1>3, <2>1, <3>1 DEF CreationsHold, Pmk!Marked
    <3>3. ASSUME NEW w \in Workers PROVE AloneHolds(w)'
      <4>1. pmkWorker[w].pc \in {"mark", "post"} => Pmk!Job(w) \in Bindings /\ Pmk!Job(w) # x /\ webhooks'[Pmk!Job(w)] = 0
        <5>1. AloneHolds(w) /\ (~Pmk!At(w, "idle") => Pmk!Job(w) \in Bindings)
            BY <3>1 DEF ProvInvariant, JobHolds
        <5> QED
            BY <2>1, <5>1 DEF AloneHolds, Pmk!At
      <4>2. AloneHolds(w) /\ Pmk!Job(w)' = Pmk!Job(w)
        BY <1>0, <3>1 DEF Pmk!Job
      <4> QED
        BY <1>0, <1>3, <4>1, <4>2 DEF AloneHolds, Pmk!At, Pmk!Marked
    <3> QED
        BY <3>2, <3>3
  <2>6. servers <= servers'
    BY <1>1, <1>3
  <2> QED
    BY <1>0, <2>2, <2>3, <2>4, <2>5, <2>6, OutsideStep
<1> QED
    BY <1>2, <1>3 DEF Pmk!TakesEffect

\* The rows that a decision or a check writes to one binding.
LEMMA BindingChanged ==
    ASSUME Pmk!ProvisioningAssumption, ProvInvariant, UNCHANGED <<pmkWorker, lock, lost, faults, Pmk!postmark, account>>, ops' \in 0..MaxOps,
           reading' \in [check : SUBSET Bindings, activate : SUBSET Bindings],
           NEW b \in Bindings,
           NEW row \in Pmk!BindingRow,
           binding' = [binding EXCEPT ![b] = row],
           row.status \in Pmk!Checked => binding[b].status \in Pmk!Checked,
           row.error = binding[b].error \/ ~Pmk!Marked(b) \/ binding[b].status \in Pmk!Checked
    PROVE  ProvInvariant'
<1>1. /\ binding \in [Bindings -> Pmk!BindingRow]
      /\ account \in Pmk!AccountRow
    BY DEF ProvInvariant, Pmk!TypeOK
<1>2. /\ binding' \in [Bindings -> Pmk!BindingRow]
      /\ binding'[b] = row /\ \A x \in Bindings : x # b => binding'[x] = binding[x]
    BY <1>1
<1>3. \A x \in Bindings : binding'[x].status \in Pmk!Checked => binding[x].status \in Pmk!Checked
    BY <1>2
<1>4. \A x \in Bindings : Pmk!Marked(x) => Pmk!Marked(x)' \/ binding[x].status \in Pmk!Checked
    BY <1>2 DEF Pmk!Marked
<1> QED
    BY <1>1, <1>2, <1>3, <1>4, RowsWritten

LEMMA Read ==
    ASSUME Pmk!ProvisioningAssumption, ProvInvariant, UNCHANGED <<Pmk!rows, Pmk!postmark, lock, pmkWorker, Pmk!counts>>,
           reading' \in [check : SUBSET Bindings, activate : SUBSET Bindings]
    PROVE  ProvInvariant'
<1>1. UNCHANGED <<binding, account, ops, faults, lost>>
    BY DEF Pmk!rows, Pmk!counts
<1>2. /\ binding \in [Bindings -> Pmk!BindingRow]
      /\ account \in Pmk!AccountRow /\ ops \in 0..MaxOps
    BY DEF ProvInvariant, Pmk!TypeOK
<1>3. \A x \in Bindings : Pmk!Marked(x) => Pmk!Marked(x)'
    BY <1>1 DEF Pmk!Marked
<1> QED
    BY <1>1, <1>2, <1>3, RowsWritten

\* A decision is counted.
LEMMA Decided ==
    ASSUME Pmk!ProvisioningAssumption, Pmk!TypeOK, Pmk!Decide
    PROVE  ops' \in 0..MaxOps /\ ops' # ops /\ UNCHANGED <<faults, lost>>
<1>1. ops \in Nat /\ ops < MaxOps /\ ops' = ops + 1 /\ MaxOps \in Nat
    BY DEF Pmk!TypeOK, Pmk!Decide, Pmk!ProvisioningAssumption
<1> QED
    BY <1>1 DEF Pmk!Decide

LEMMA Reprovisioned ==
    ASSUME Pmk!ProvisioningAssumption, ProvInvariant, NEW b \in Bindings, Pmk!provisionDomain(b)
    PROVE  ProvInvariant'
<1>1. /\ ops' \in 0..MaxOps /\ UNCHANGED <<faults, lost, account, Pmk!postmark, lock, pmkWorker, reading>>
      /\ reading \in [check : SUBSET Bindings, activate : SUBSET Bindings]
    BY Decided DEF ProvInvariant, Pmk!provisionDomain, Pmk!TypeOK
<1> DEFINE mid == [binding[b] EXCEPT !.status = "pending"]
           kept == IF Pmk!Marked(b) THEN mid.error ELSE Pmk!None
           row == [mid EXCEPT !.error = kept]
<1>2. /\ mid \in Pmk!BindingRow
      /\ mid.status = "pending" /\ mid.error = binding[b].error
    BY DEF ProvInvariant, Pmk!TypeOK, Pmk!Open
<1>6. binding' = [binding EXCEPT ![b].status = "pending", ![b].error = IF Pmk!Marked(b) THEN @ ELSE Pmk!None]
    BY DEF Pmk!provisionDomain
<1>7. binding \in [Bindings -> Pmk!BindingRow]
    BY DEF ProvInvariant, Pmk!TypeOK
<1>3. binding' = [binding EXCEPT ![b] = row]
    BY <1>6, <1>7
<1> HIDE DEF mid
<1>4. /\ row \in Pmk!BindingRow
      /\ row.status = "pending" /\ (Pmk!Marked(b) => row.error = binding[b].error)
    BY <1>2
<1> HIDE DEF row
<1>5. row.status \notin Pmk!Checked
    BY <1>4 DEF Pmk!Checked
<1> QED
    BY <1>1, <1>3, <1>4, <1>5, BindingChanged

LEMMA AccountSet ==
    ASSUME Pmk!ProvisioningAssumption, ProvInvariant, NEW s \in {"ready", "paused", "disabled"}, Pmk!setProviderAccountStatus(s)
    PROVE  ProvInvariant'
<1>1. /\ ops' \in 0..MaxOps /\ UNCHANGED <<faults, lost, binding, Pmk!postmark, lock, pmkWorker, reading>>
      /\ reading \in [check : SUBSET Bindings, activate : SUBSET Bindings]
      /\ binding \in [Bindings -> Pmk!BindingRow]
    BY Decided DEF ProvInvariant, Pmk!setProviderAccountStatus, Pmk!TypeOK
<1>2. account \in Pmk!AccountRow
    BY DEF ProvInvariant, Pmk!TypeOK
<1>3. /\ account' \in Pmk!AccountRow
      /\ account'.server = account.server /\ account'.credential = account.credential
      /\ account'.status # Pmk!None /\ account.status # Pmk!None
    BY <1>2 DEF Pmk!setProviderAccountStatus, Pmk!Accounts, Pmk!None
<1>4. \A x \in Bindings : Pmk!Marked(x) => Pmk!Marked(x)'
    BY <1>1 DEF Pmk!Marked
<1> QED
    BY <1>1, <1>3, <1>4, RowsWritten

LEMMA BindingDisabled ==
    ASSUME Pmk!ProvisioningAssumption, ProvInvariant, NEW b \in Bindings, Pmk!disableDomainBinding(b)
    PROVE  ProvInvariant'
<1>1. /\ ops' \in 0..MaxOps /\ UNCHANGED <<faults, lost, account, Pmk!postmark, lock, pmkWorker, reading>>
      /\ reading \in [check : SUBSET Bindings, activate : SUBSET Bindings]
    BY Decided DEF ProvInvariant, Pmk!disableDomainBinding, Pmk!TypeOK
<1> DEFINE mid == [binding[b] EXCEPT !.status = "disabled"]
           row == [mid EXCEPT !.active = FALSE]
<1>2. /\ mid \in Pmk!BindingRow
      /\ mid.status = "disabled" /\ mid.error = binding[b].error
    BY DEF ProvInvariant, Pmk!TypeOK
<1>3. binding' = [binding EXCEPT ![b] = row]
    BY DEF ProvInvariant, Pmk!TypeOK, Pmk!disableDomainBinding
<1> HIDE DEF mid
<1>4. /\ row \in Pmk!BindingRow
      /\ row.status = "disabled" /\ row.error = binding[b].error
    BY <1>2
<1> HIDE DEF row
<1>5. row.status \notin Pmk!Checked
    BY <1>4 DEF Pmk!Checked
<1> QED
    BY <1>1, <1>3, <1>4, <1>5, BindingChanged

LEMMA Activated ==
    ASSUME Pmk!ProvisioningAssumption, ProvInvariant, NEW b \in Bindings, Pmk!ReadToActivate(b) \/ Pmk!activateDomainBinding(b)
    PROVE  ProvInvariant'
<1>0. reading \in [check : SUBSET Bindings, activate : SUBSET Bindings] /\ ops \in 0..MaxOps
    BY DEF ProvInvariant, Pmk!TypeOK
<1>1. CASE Pmk!ReadToActivate(b)
  <2>1. reading' \in [check : SUBSET Bindings, activate : SUBSET Bindings]
    BY <1>0, <1>1 DEF Pmk!ReadToActivate
  <2> QED
    BY <1>1, <2>1, Read DEF Pmk!ReadToActivate
<1>2. CASE Pmk!activateDomainBinding(b)
  <2>1. reading' \in [check : SUBSET Bindings, activate : SUBSET Bindings]
    BY <1>0, <1>2 DEF Pmk!activateDomainBinding
  <2>2. UNCHANGED <<faults, lost, ops, account, Pmk!postmark, lock, pmkWorker>>
    BY <1>2 DEF Pmk!activateDomainBinding, Pmk!counts
  <2> DEFINE row == [binding[b] EXCEPT !.active = TRUE]
  <2>6. binding[b] \in Pmk!BindingRow
    BY DEF ProvInvariant, Pmk!TypeOK
  <2>3. /\ row \in Pmk!BindingRow
        /\ row.status = binding[b].status /\ row.error = binding[b].error
    BY <2>6
  <2>4. binding' = [binding EXCEPT ![b] = row]
    BY <1>2 DEF ProvInvariant, Pmk!TypeOK, Pmk!activateDomainBinding
  <2> HIDE DEF row
  <2> QED
    BY <1>0, <2>1, <2>2, <2>3, <2>4, BindingChanged
<1> QED
    BY <1>1, <1>2

LEMMA CheckedAgain ==
    ASSUME Pmk!ProvisioningAssumption, ProvInvariant, NEW b \in Bindings, Pmk!ReadToCheck(b) \/ Pmk!checkBinding(b)
    PROVE  ProvInvariant'
<1>0. reading \in [check : SUBSET Bindings, activate : SUBSET Bindings] /\ ops \in 0..MaxOps
    BY DEF ProvInvariant, Pmk!TypeOK
<1>1. CASE Pmk!ReadToCheck(b)
  <2>1. reading' \in [check : SUBSET Bindings, activate : SUBSET Bindings]
    BY <1>0, <1>1 DEF Pmk!ReadToCheck
  <2> QED
    BY <1>1, <2>1, Read DEF Pmk!ReadToCheck
<1>2. CASE Pmk!checkBinding(b)
  <2>1. reading' \in [check : SUBSET Bindings, activate : SUBSET Bindings]
    BY <1>0, <1>2 DEF Pmk!checkBinding
  <2>2. UNCHANGED <<faults, lost, ops, account, Pmk!postmark, lock, pmkWorker>>
    BY <1>2 DEF Pmk!checkBinding, Pmk!counts
  <2>3. CASE UNCHANGED binding
    BY <1>0, <2>1, <2>2, <2>3, Read DEF Pmk!rows, Pmk!counts
  <2>4. CASE Pmk!StillChecked(b) /\ binding' = [binding EXCEPT ![b].error = "failed"]
    <3> DEFINE row == [binding[b] EXCEPT !.error = "failed"]
    <3>1. /\ row \in Pmk!BindingRow
          /\ row.status = binding[b].status
        BY DEF ProvInvariant, Pmk!TypeOK
    <3>2. binding' = [binding EXCEPT ![b] = row] /\ binding[b].status \in Pmk!Checked
        BY <2>4 DEF ProvInvariant, Pmk!TypeOK, Pmk!StillChecked
    <3> HIDE DEF row
    <3> QED
        BY <1>0, <2>1, <2>2, <3>1, <3>2, BindingChanged
  <2>5. CASE Pmk!StillChecked(b) /\ \E s \in Pmk!Checked : binding' = [binding EXCEPT ![b].status = s, ![b].error = Pmk!None]
    <3>1. PICK s \in Pmk!Checked : binding' = [binding EXCEPT ![b].status = s, ![b].error = Pmk!None]
        BY <2>5
    <3> DEFINE mid == [binding[b] EXCEPT !.status = s]
               row == [mid EXCEPT !.error = Pmk!None]
    <3>2. mid \in Pmk!BindingRow
        BY DEF ProvInvariant, Pmk!TypeOK
    <3>3. binding' = [binding EXCEPT ![b] = row] /\ binding[b].status \in Pmk!Checked
        BY <2>5, <3>1 DEF ProvInvariant, Pmk!TypeOK, Pmk!StillChecked
    <3> HIDE DEF mid
    <3>4. row \in Pmk!BindingRow
        BY <3>2
    <3> HIDE DEF row
    <3> QED
        BY <1>0, <2>1, <2>2, <3>3, <3>4, BindingChanged
  <2> QED
    BY <1>2, <2>3, <2>4, <2>5 DEF Pmk!checkBinding
<1> QED
    BY <1>1, <1>2

LEMMA WorkerKilled ==
    ASSUME Pmk!ProvisioningAssumption, ProvInvariant, NEW w \in Workers, Pmk!Killed(w)
    PROVE  ProvInvariant'
<1>1. /\ ~Pmk!At(w, "idle") /\ Pmk!Leave(w) /\ UNCHANGED <<Pmk!rows, Pmk!postmark, reading>> /\ ops' = ops /\ lost' = lost
      /\ faults' = faults + 1 /\ faults < PmkMaxFaults /\ faults \in Nat /\ PmkMaxFaults \in Nat
    BY DEF Pmk!Killed, Pmk!Fault, ProvInvariant, Pmk!TypeOK, Pmk!ProvisioningAssumption
<1>2. faults' \in 0..PmkMaxFaults
    BY <1>1
<1> QED
    BY <1>1, <1>2, Stops

LEMMA ProvNext == ASSUME Pmk!ProvisioningAssumption, ProvInvariant, [Pmk!Next]_Pmk!vars PROVE ProvInvariant'
<1>1. CASE UNCHANGED Pmk!vars
  <2>1. UNCHANGED <<binding, account, servers, param, domains, webhooks, late, lock, pmkWorker, reading, ops, faults, lost>>
    BY <1>1 DEF Pmk!vars, Pmk!rows, Pmk!postmark, Pmk!counts
  <2>2. reading \in [check : SUBSET Bindings, activate : SUBSET Bindings]
    BY DEF ProvInvariant, Pmk!TypeOK
  <2> QED
    BY <2>1, <2>2, Read DEF Pmk!rows, Pmk!postmark, Pmk!counts
<1>2. ASSUME NEW w \in Workers, Pmk!Work(w) PROVE ProvInvariant'
  <2>1. CASE \E b \in Bindings : Pmk!Start(w, b)
    BY <2>1, Starts
  <2>2. CASE Pmk!FindServer(w)
    BY <2>2, ServerFound
  <2>3. CASE Pmk!Reserve(w) \/ Pmk!RecordServer(w) \/ Pmk!RecordCredential(w)
    BY <2>3, CheckpointsHold
  <2>4. CASE Pmk!CreateServer(w)
    BY <2>4, ServerCreated
  <2>5. CASE Pmk!createCredentialOnce(w)
    BY <2>5, CredentialStored
  <2>6. CASE Pmk!CreateDomain(w)
    BY <2>6, DomainCreated
  <2>7. CASE Pmk!ListWebhooks(w)
    BY <2>7, WebhooksListed
  <2>8. CASE Pmk!beforeWebhookCreate(w)
    BY <2>8, MarkedFirst
  <2>9. CASE Pmk!CreateWebhook(w)
    BY <2>9, WebhookCreated
  <2>10. CASE Pmk!Finish(w)
    BY <2>10, Finished
  <2>11. CASE Pmk!RecordFailure(w)
    BY <2>11, FailureRecorded
  <2>12. CASE Pmk!Killed(w)
    BY <2>12, WorkerKilled
  <2> QED
    BY <1>2, <2>1, <2>2, <2>3, <2>4, <2>5, <2>6, <2>7, <2>8, <2>9, <2>10, <2>11, <2>12 DEF Pmk!Work
<1>3. CASE Pmk!LoseLock
    BY <1>3, LockLost
<1>4. CASE \E x \in late : Pmk!TakesEffect(x)
    BY <1>4, TookEffect
<1>5. ASSUME NEW b \in Bindings,
             \/ Pmk!provisionDomain(b) \/ Pmk!disableDomainBinding(b) \/ Pmk!ReadToActivate(b) \/ Pmk!activateDomainBinding(b)
             \/ Pmk!ReadToCheck(b) \/ Pmk!checkBinding(b)
      PROVE  ProvInvariant'
  <2>1. CASE Pmk!provisionDomain(b)
    BY <2>1, Reprovisioned
  <2>2. CASE Pmk!disableDomainBinding(b)
    BY <2>2, BindingDisabled
  <2>3. CASE Pmk!ReadToActivate(b) \/ Pmk!activateDomainBinding(b)
    BY <2>3, Activated
  <2>4. CASE Pmk!ReadToCheck(b) \/ Pmk!checkBinding(b)
    BY <2>4, CheckedAgain
  <2> QED
    BY <1>5, <2>1, <2>2, <2>3, <2>4
<1>6. CASE \E s \in {"ready", "paused", "disabled"} : Pmk!setProviderAccountStatus(s)
    BY <1>6, AccountSet
<1> QED
    BY <1>1, <1>2, <1>3, <1>4, <1>5, <1>6 DEF Pmk!Next

(* While the lock holds, the workspace has one server and a binding one    *)
(* webhook, however often its job is redelivered, killed or answered late; *)
(* and with or without the lock the stored token is of the server that the *)
(* account names, and a provisioned binding has all its resources.         *)
THEOREM ResourcesAreCreatedOnce ==
    Pmk!ProvisioningAssumption => (Pmk!Spec => [](Pmk!TypeOK /\ Pmk!CreatedOnce /\ Pmk!CredentialIsOfServer))
<1> SUFFICES ASSUME Pmk!ProvisioningAssumption PROVE Pmk!Spec => [](Pmk!TypeOK /\ Pmk!CreatedOnce /\ Pmk!CredentialIsOfServer)
    OBVIOUS
<1>1. Pmk!Init => ProvInvariant
    BY ProvInit
<1>2. ProvInvariant /\ [Pmk!Next]_Pmk!vars => ProvInvariant'
    BY ProvNext
<1>3. ProvInvariant => Pmk!TypeOK /\ Pmk!CreatedOnce /\ Pmk!CredentialIsOfServer
    BY DEF ProvInvariant, TokenHolds, Alone, CreationsHold, Pmk!CreatedOnce
<1> QED
    BY <1>1, <1>2, <1>3, PTL DEF Pmk!Spec

\* What a write to one binding leaves of the decisions on all.
LEMMA DecisionKept ==
    ASSUME Pmk!TypeOK, NEW job, NEW new \in Pmk!BindingRow,
           binding' = [binding EXCEPT ![job] = new],
           binding[job].status = "disabled" => new.status = "disabled"
    PROVE  \A b \in Bindings : binding[b].status = "disabled" => binding'[b].status = "disabled"
<1>1. \A b \in Bindings : binding'[b] = IF b = job THEN new ELSE binding[b]
    BY DEF Pmk!TypeOK
<1> QED
    BY <1>1

LEMMA CheckpointPrevails ==
    ASSUME Pmk!TypeOK, NEW w \in Workers, NEW s, NEW token, NEW next, Pmk!Checkpoint(w, s, token, next)
    PROVE  Pmk!OperatorsPrevail
BY DEF Pmk!Checkpoint, Pmk!Writable, Pmk!OperatorsPrevail, Pmk!rows

LEMMA JobPrevails ==
    ASSUME Pmk!ProvisioningAssumption, ProvInvariant, NEW w \in Workers, Pmk!Work(w)
    PROVE  Pmk!OperatorsPrevail
<1>0. Pmk!TypeOK /\ JobHolds(w)
    BY DEF ProvInvariant
<1>1. CASE UNCHANGED Pmk!rows
    BY <1>1 DEF Pmk!rows, Pmk!OperatorsPrevail
<1>2. CASE Pmk!Reserve(w) \/ Pmk!RecordServer(w) \/ Pmk!RecordCredential(w)
    BY <1>0, <1>2, CheckpointPrevails DEF Pmk!Reserve, Pmk!RecordServer, Pmk!RecordCredential
<1>3. CASE Pmk!beforeWebhookCreate(w) /\ ~UNCHANGED Pmk!rows
  <2>1. /\ UNCHANGED account /\ Pmk!Job(w) \in Bindings
        /\ binding' = [binding EXCEPT ![Pmk!Job(w)].error = "uncertain"]
    BY <1>0, <1>3 DEF Pmk!beforeWebhookCreate, JobHolds, Pmk!At
  <2> DEFINE new == [binding[Pmk!Job(w)] EXCEPT !.error = "uncertain"]
  <2>2. /\ new \in Pmk!BindingRow
        /\ new.status = binding[Pmk!Job(w)].status
    <3>1. binding[Pmk!Job(w)] \in Pmk!BindingRow
        BY <1>0, <2>1 DEF Pmk!TypeOK
    <3> QED
        BY <3>1
  <2>3. binding' = [binding EXCEPT ![Pmk!Job(w)] = new]
    BY <1>0, <2>1 DEF Pmk!TypeOK
  <2> HIDE DEF new
  <2> QED
    BY <1>0, <2>1, <2>2, <2>3, DecisionKept DEF Pmk!OperatorsPrevail
<1>4. CASE (Pmk!Finish(w) \/ Pmk!RecordFailure(w)) /\ ~UNCHANGED Pmk!rows
  <2>1. PICK s \in {"dns_pending", "failed"}, e \in {Pmk!None, "uncertain", "failed"} :
           binding' = [binding EXCEPT ![Pmk!Job(w)].status = s, ![Pmk!Job(w)].error = e]
    BY <1>4 DEF Pmk!Finish, Pmk!RecordFailure, Pmk!KeptError, Pmk!rows
  <2>2. Pmk!Writable(Pmk!Job(w)) /\ Pmk!Job(w) \in Bindings
    BY <1>0, <1>4 DEF Pmk!Finish, Pmk!RecordFailure, Pmk!rows, JobHolds, Pmk!At
  <2>3. binding[Pmk!Job(w)].status # "disabled" /\ account.status \notin {"paused", "disabled"}
    BY <2>2 DEF Pmk!Writable, Pmk!Open
  <2> DEFINE mid == [binding[Pmk!Job(w)] EXCEPT !.status = s]
             new == [mid EXCEPT !.error = e]
  <2>4. mid \in Pmk!BindingRow
    BY <1>0, <2>2 DEF Pmk!TypeOK, Pmk!Open, Pmk!Checked
  <2>5. binding' = [binding EXCEPT ![Pmk!Job(w)] = new]
    BY <1>0, <2>1, <2>2 DEF Pmk!TypeOK
  <2> HIDE DEF mid
  <2>6. new \in Pmk!BindingRow
    BY <2>4
  <2> HIDE DEF new
  <2> QED
    BY <1>0, <2>3, <2>5, <2>6, DecisionKept DEF Pmk!OperatorsPrevail
<1>5. \/ UNCHANGED Pmk!rows \/ Pmk!Reserve(w) \/ Pmk!RecordServer(w) \/ Pmk!RecordCredential(w)
      \/ Pmk!beforeWebhookCreate(w) \/ Pmk!Finish(w) \/ Pmk!RecordFailure(w)
    BY DEF Pmk!Work, Pmk!Start, Pmk!FindServer, Pmk!CreateServer, Pmk!createCredentialOnce, Pmk!CreateDomain, Pmk!ListWebhooks, Pmk!CreateWebhook, Pmk!Killed
<1> QED
    BY <1>1, <1>2, <1>3, <1>4, <1>5

LEMMA ChoicePrevails ==
    ASSUME Pmk!ProvisioningAssumption, Pmk!TypeOK, NEW b \in Bindings,
           \/ Pmk!provisionDomain(b) \/ Pmk!disableDomainBinding(b) \/ Pmk!ReadToActivate(b) \/ Pmk!activateDomainBinding(b)
           \/ Pmk!ReadToCheck(b) \/ Pmk!checkBinding(b)
    PROVE  Pmk!OperatorsPrevail
<1>0. /\ UNCHANGED account
      /\ binding[b] \in Pmk!BindingRow
    BY DEF Pmk!provisionDomain, Pmk!disableDomainBinding, Pmk!ReadToActivate, Pmk!activateDomainBinding, Pmk!ReadToCheck, Pmk!checkBinding, Pmk!TypeOK, Pmk!rows
<1>1. CASE UNCHANGED binding
    BY <1>0, <1>1 DEF Pmk!OperatorsPrevail
<1>2. CASE /\ binding[b].status # "disabled"
           /\ \E s \in Pmk!Open \cup Pmk!Checked, e \in {Pmk!None, "uncertain", "failed"} :
                 binding' = [binding EXCEPT ![b].status = s, ![b].error = e]
  <2>1. PICK s \in Pmk!Open \cup Pmk!Checked, e \in {Pmk!None, "uncertain", "failed"} :
           binding' = [binding EXCEPT ![b].status = s, ![b].error = e]
    BY <1>2
  <2> DEFINE mid == [binding[b] EXCEPT !.status = s]
             new == [mid EXCEPT !.error = e]
  <2>2. mid \in Pmk!BindingRow
    BY <1>0
  <2>3. binding' = [binding EXCEPT ![b] = new]
    BY <2>1 DEF Pmk!TypeOK
  <2> HIDE DEF mid
  <2>4. new \in Pmk!BindingRow
    BY <2>2
  <2> HIDE DEF new
  <2> QED
    BY <1>0, <1>2, <2>3, <2>4, DecisionKept DEF Pmk!OperatorsPrevail
<1>3. CASE binding' = [binding EXCEPT ![b].status = "disabled", ![b].active = FALSE]
  <2> DEFINE mid == [binding[b] EXCEPT !.status = "disabled"]
             new == [mid EXCEPT !.active = FALSE]
  <2>1. mid \in Pmk!BindingRow /\ mid.status = "disabled"
    BY <1>0
  <2>2. binding' = [binding EXCEPT ![b] = new]
    BY <1>3 DEF Pmk!TypeOK
  <2> HIDE DEF mid
  <2>3. /\ new \in Pmk!BindingRow
        /\ new.status = "disabled"
    BY <2>1
  <2> HIDE DEF new
  <2> QED
    BY <1>0, <2>2, <2>3, DecisionKept DEF Pmk!OperatorsPrevail
<1>4. CASE \/ binding' = [binding EXCEPT ![b].active = TRUE]
           \/ binding' = [binding EXCEPT ![b].error = "failed"]
  <2>1. PICK new \in {[binding[b] EXCEPT !.active = TRUE], [binding[b] EXCEPT !.error = "failed"]} :
           binding' = [binding EXCEPT ![b] = new]
    BY <1>4 DEF Pmk!TypeOK
  <2>2. /\ new \in Pmk!BindingRow
        /\ new.status = binding[b].status
    BY <1>0, <2>1
  <2> QED
    BY <1>0, <2>1, <2>2, DecisionKept DEF Pmk!OperatorsPrevail
<1>5. CASE Pmk!provisionDomain(b)
  <2>1. binding[b].status # "disabled" /\ "pending" \in Pmk!Open
    BY <1>5 DEF Pmk!provisionDomain, Pmk!Open
  <2> DEFINE e == IF Pmk!Marked(b) THEN binding[b].error ELSE Pmk!None
  <2>2. e \in {Pmk!None, "uncertain", "failed"}
    BY <1>0
  <2>3. binding' = [binding EXCEPT ![b].status = "pending", ![b].error = e]
    <3>1. binding' = [binding EXCEPT ![b].status = "pending", ![b].error = IF Pmk!Marked(b) THEN @ ELSE Pmk!None]
        BY <1>5 DEF Pmk!provisionDomain
    <3> QED
        BY <3>1 DEF Pmk!TypeOK
  <2> HIDE DEF e
  <2> QED
    BY <1>2, <2>1, <2>2, <2>3
<1>6. CASE Pmk!disableDomainBinding(b) \/ Pmk!ReadToActivate(b) \/ Pmk!activateDomainBinding(b) \/ Pmk!ReadToCheck(b)
    BY <1>1, <1>3, <1>4, <1>6 DEF Pmk!disableDomainBinding, Pmk!ReadToActivate, Pmk!activateDomainBinding, Pmk!ReadToCheck, Pmk!rows
<1>7. CASE Pmk!checkBinding(b)
  <2>1. Pmk!StillChecked(b) => binding[b].status # "disabled"
    BY DEF Pmk!StillChecked, Pmk!Checked
  <2> QED
    BY <1>1, <1>2, <1>4, <1>7, <2>1 DEF Pmk!checkBinding
<1> QED
    BY <1>5, <1>6, <1>7

(* A job, a check or an activation that was under way when an operator     *)
(* disabled its binding, or paused the account, does not undo it.          *)
THEOREM DecisionsOfOperators ==
    Pmk!ProvisioningAssumption => (Pmk!Spec => [][Pmk!OperatorsPrevail]_Pmk!vars)
<1> SUFFICES ASSUME Pmk!ProvisioningAssumption PROVE Pmk!Spec => [][Pmk!OperatorsPrevail]_Pmk!vars
    OBVIOUS
<1>1. Pmk!Init => ProvInvariant
    BY ProvInit
<1>2. ProvInvariant /\ [Pmk!Next]_Pmk!vars => ProvInvariant'
    BY ProvNext
<1>3. ProvInvariant /\ [Pmk!Next]_Pmk!vars => [Pmk!OperatorsPrevail]_Pmk!vars
  <2> SUFFICES ASSUME ProvInvariant, Pmk!Next PROVE Pmk!OperatorsPrevail
    OBVIOUS
  <2>0. Pmk!TypeOK
    BY DEF ProvInvariant
  <2>1. CASE \E w \in Workers : Pmk!Work(w)
    BY <2>1, JobPrevails
  <2>2. CASE Pmk!LoseLock \/ \E x \in late : Pmk!TakesEffect(x)
    BY <2>2 DEF Pmk!LoseLock, Pmk!TakesEffect, Pmk!rows, Pmk!OperatorsPrevail
  <2>3. CASE \E b \in Bindings : \/ Pmk!provisionDomain(b) \/ Pmk!disableDomainBinding(b) \/ Pmk!ReadToActivate(b)
                                 \/ Pmk!activateDomainBinding(b) \/ Pmk!ReadToCheck(b) \/ Pmk!checkBinding(b)
    BY <2>0, <2>3, ChoicePrevails
  <2>4. CASE \E s \in {"ready", "paused", "disabled"} : Pmk!setProviderAccountStatus(s)
    BY <2>0, <2>4, Decided DEF Pmk!setProviderAccountStatus, Pmk!OperatorsPrevail
  <2> QED
    BY <2>1, <2>2, <2>3, <2>4 DEF Pmk!Next
<1> QED
    BY <1>1, <1>2, <1>3, PTL DEF Pmk!Spec

HIDE DEF Pmk!BindingRow, Pmk!AccountRow

-----------------------------------------------------------------------------
\* Where each call is in the sequence.
LEMMA NineCalls == Len(Ses!Calls) = 9 /\ DOMAIN Ses!Calls = 1..9
BY DEF Ses!Calls

LEMMA CallsAre ==
    /\ Ses!Calls[1] = "identity" /\ Ses!Calls[2] = "tag" /\ Ses!Calls[3] = "tenant" /\ Ses!Calls[4] = "policy" /\ Ses!Calls[5] = "set"
    /\ Ses!Calls[6] = "mailFrom" /\ Ses!Calls[7] = "destination" /\ Ses!Calls[8] = "attachIdentity" /\ Ses!Calls[9] = "attachSet"
BY DEF Ses!Calls

LEMMA AtIs ==
    ASSUME NEW r, run[r] \in Int
    PROVE  /\ Ses!At(r, "identity") => run[r] = 1
           /\ Ses!At(r, "tag") => run[r] = 2
           /\ Ses!At(r, "tenant") => run[r] = 3
           /\ Ses!At(r, "policy") => run[r] = 4
           /\ Ses!At(r, "set") => run[r] = 5
           /\ Ses!At(r, "mailFrom") => run[r] = 6
           /\ Ses!At(r, "destination") => run[r] = 7
           /\ Ses!At(r, "attachIdentity") => run[r] = 8
           /\ Ses!At(r, "attachSet") => run[r] = 9
<1>1. run[r] \in DOMAIN Ses!Calls => run[r] \in {1, 2, 3, 4, 5, 6, 7, 8, 9}
    BY NineCalls
<1> QED
    BY <1>1, CallsAre DEF Ses!At

(* Past the check of the tag the identity is the environment's, and every  *)
(* call that an invocation is past has left its resource.                  *)
RunHolds(r) ==
    /\ run[r] > 2 => identity = Environment[r]
    /\ run[r] > 3 => "tenant" \in resources[Environment[r]]
    /\ run[r] > 4 => "policy" \in resources[Environment[r]]
    /\ run[r] > 5 => "set" \in resources[Environment[r]]
    /\ run[r] > 6 => Environment[r] \in mailFrom
    /\ run[r] > 7 => "destination" \in resources[Environment[r]]
    /\ run[r] > 8 => "attachIdentity" \in resources[Environment[r]]
    /\ run[r] > 9 => "attachSet" \in resources[Environment[r]]

OwnersHold ==
    \A e \in Ses!Environments : e \in mailFrom \/ "attachIdentity" \in resources[e] => identity = e

SesInvariant == Ses!TypeOK /\ OwnersHold /\ \A r \in Runs : RunHolds(r)

\* A step of one invocation that only adds, and keeps an identity.
LEMMA RunsKept ==
    ASSUME NEW r \in Runs, SesInvariant, Ses!SesDomainAssumption, NEW n \in Ses!Refused..(Len(Ses!Calls) + 1),
           run' = [run EXCEPT ![r] = n],
           identity' = identity \/ identity = Ses!Absent,
           mailFrom \subseteq mailFrom',
           \A e \in Ses!Environments : resources[e] \subseteq resources'[e]
    PROVE  \A q \in Runs : q # r => RunHolds(q)'
<1> SUFFICES ASSUME NEW q \in Runs, q # r PROVE RunHolds(q)'
    OBVIOUS
<1>1. run'[q] = run[q] /\ Environment[q] \in Ses!Environments
    BY DEF SesInvariant, Ses!TypeOK, Ses!SesDomainAssumption
<1>2. RunHolds(q)
    BY DEF SesInvariant
<1>3. identity # Environment[q] \/ identity' = identity
    BY <1>1 DEF Ses!Absent, Ses!Environments
<1> QED
    BY <1>1, <1>2, <1>3 DEF RunHolds

LEMMA SesInit == ASSUME Ses!SesDomainAssumption, Ses!Init PROVE SesInvariant
<1>1. Len(Ses!Calls) = 9
    BY NineCalls
<1>2. Ses!TypeOK
    BY <1>1 DEF Ses!Init, Ses!TypeOK, Ses!SesDomainAssumption, Ses!Resting, Ses!Refused
<1>3. OwnersHold
    BY DEF Ses!Init, OwnersHold
<1>4. \A r \in Runs : RunHolds(r)
    BY DEF Ses!Init, RunHolds, Ses!Resting
<1> QED
    BY <1>2, <1>3, <1>4 DEF SesInvariant

LEMMA SesStarts ==
    ASSUME Ses!SesDomainAssumption, SesInvariant, NEW r \in Runs, NEW n \in {1, Ses!Resting, Ses!Refused},
           run' = [run EXCEPT ![r] = n], sesFaults' \in 0..SesMaxFaults,
           recorded' \in [Ses!Environments -> {Ses!Absent} \cup Ses!Environments],
           UNCHANGED <<identity, mailFrom, resources>>
    PROVE  SesInvariant'
<1>1. n \in Ses!Refused..(Len(Ses!Calls) + 1) /\ n <= 1 /\ n \in Int
    BY NineCalls DEF Ses!Refused, Ses!Resting
<1>2. Ses!TypeOK'
    BY <1>1 DEF SesInvariant, Ses!TypeOK
<1>3. OwnersHold'
    BY DEF SesInvariant, OwnersHold
<1>4. run'[r] = n
    BY DEF SesInvariant, Ses!TypeOK
<1>5. RunHolds(r)'
    BY <1>1, <1>4 DEF RunHolds
<1>6. \A q \in Runs : q # r => RunHolds(q)'
    BY <1>1, RunsKept
<1> QED
    BY <1>2, <1>3, <1>5, <1>6 DEF SesInvariant

LEMMA SesNext ==
    ASSUME Ses!SesDomainAssumption, SesInvariant, [Ses!Next]_Ses!vars
    PROVE  SesInvariant'
<1>1. CASE UNCHANGED Ses!vars
    BY <1>1 DEF Ses!vars, SesInvariant, Ses!TypeOK, OwnersHold, RunHolds
<1>2. ASSUME NEW r \in Runs, Ses!Next,
             Ses!provisionSesDomain(r) \/ Ses!Record(r) \/ Ses!Fail(r) \/ Ses!Again(r)
      PROVE  SesInvariant'
  <2>1. PICK n \in {1, Ses!Resting, Ses!Refused} : run' = [run EXCEPT ![r] = n]
    BY <1>2 DEF Ses!provisionSesDomain, Ses!Record, Ses!Fail, Ses!Again
  <2>2. sesFaults' \in 0..SesMaxFaults /\ UNCHANGED <<identity, mailFrom, resources>>
    BY <1>2 DEF Ses!provisionSesDomain, Ses!Record, Ses!Fail, Ses!Again, SesInvariant, Ses!TypeOK, Ses!SesDomainAssumption
  <2>3. Environment[r] \in Ses!Environments
    BY DEF Ses!SesDomainAssumption
  <2>4. recorded' \in [Ses!Environments -> {Ses!Absent} \cup Ses!Environments]
    BY <1>2, <2>3 DEF Ses!provisionSesDomain, Ses!Record, Ses!Fail, Ses!Again, SesInvariant, Ses!TypeOK
  <2> QED
    BY <2>1, <2>2, <2>4, SesStarts
<1>3. ASSUME NEW r \in Runs, Ses!CheckTag(r)
      PROVE  SesInvariant'
  <2>1. UNCHANGED <<identity, mailFrom, resources, recorded, sesFaults>>
    BY <1>3 DEF Ses!CheckTag
  <2>2. CASE run' = [run EXCEPT ![r] = Ses!Refused]
    <3>1. sesFaults' \in 0..SesMaxFaults /\ recorded' \in [Ses!Environments -> {Ses!Absent} \cup Ses!Environments]
        BY <2>1 DEF SesInvariant, Ses!TypeOK
    <3> QED
        BY <2>1, <2>2, <3>1, SesStarts
  <2>3. CASE Ses!Ours(Environment[r]) /\ Ses!Advance(r)
    <3>1. run[r] \in Int
        BY NineCalls DEF SesInvariant, Ses!TypeOK, Ses!Refused
    <3>2. run[r] = 2
        BY <1>3, <3>1, AtIs DEF Ses!CheckTag
    <3>3. run' = [run EXCEPT ![r] = 3] /\ run'[r] = 3
        BY <2>3, <3>2 DEF Ses!Advance, SesInvariant, Ses!TypeOK
    <3>4. 3 \in Ses!Refused..(Len(Ses!Calls) + 1)
        BY NineCalls DEF Ses!Refused
    <3>5. Ses!TypeOK' /\ OwnersHold'
        BY <2>1, <3>3, <3>4 DEF SesInvariant, Ses!TypeOK, OwnersHold
    <3>6. RunHolds(r)'
        BY <2>1, <2>3, <3>3 DEF RunHolds, Ses!Ours
    <3>7. \A q \in Runs : q # r => RunHolds(q)'
        BY <2>1, <3>3, <3>4, RunsKept
    <3> QED
        BY <3>5, <3>6, <3>7 DEF SesInvariant
  <2> QED
    BY <1>3, <2>2, <2>3 DEF Ses!CheckTag
<1>4. ASSUME NEW r \in Runs, Ses!CreateIdentity(r)
      PROVE  SesInvariant'
  <2>1. run[r] \in Int
    BY NineCalls DEF SesInvariant, Ses!TypeOK, Ses!Refused
  <2>2. run[r] = 1
    BY <1>4, <2>1, AtIs DEF Ses!CreateIdentity
  <2>3. run' = [run EXCEPT ![r] = 2] /\ run'[r] = 2
    BY <1>4, <2>2 DEF Ses!CreateIdentity, Ses!Advance, SesInvariant, Ses!TypeOK
  <2>4. 2 \in Ses!Refused..(Len(Ses!Calls) + 1)
    BY NineCalls DEF Ses!Refused
  <2>5. /\ UNCHANGED <<mailFrom, resources, recorded, sesFaults>>
        /\ identity' = identity \/ identity = Ses!Absent
        /\ identity' \in {Ses!Absent, Ses!Untagged} \cup Ses!Environments
    BY <1>4 DEF Ses!CreateIdentity, SesInvariant, Ses!TypeOK, Ses!SesDomainAssumption
  <2>6. Ses!TypeOK'
    BY <2>3, <2>4, <2>5 DEF SesInvariant, Ses!TypeOK
  <2>7. OwnersHold'
    BY <2>5 DEF SesInvariant, OwnersHold, Ses!Absent, Ses!Environments
  <2>8. RunHolds(r)'
    BY <2>3 DEF RunHolds
  <2>9. \A q \in Runs : q # r => RunHolds(q)'
    BY <2>3, <2>4, <2>5, RunsKept
  <2> QED
    BY <2>6, <2>7, <2>8, <2>9 DEF SesInvariant
<1>5. ASSUME NEW r \in Runs, Ses!PutMailFrom(r)
      PROVE  SesInvariant'
  <2>1. run[r] \in Int /\ Environment[r] \in Ses!Environments
    BY NineCalls DEF SesInvariant, Ses!TypeOK, Ses!Refused, Ses!SesDomainAssumption
  <2>2. run[r] = 6
    BY <1>5, <2>1, AtIs DEF Ses!PutMailFrom
  <2>3. run' = [run EXCEPT ![r] = 7] /\ run'[r] = 7
    BY <1>5, <2>2 DEF Ses!PutMailFrom, Ses!Advance, SesInvariant, Ses!TypeOK
  <2>4. 7 \in Ses!Refused..(Len(Ses!Calls) + 1)
    BY NineCalls DEF Ses!Refused
  <2>5. UNCHANGED <<identity, resources, recorded, sesFaults>> /\ mailFrom' = mailFrom \cup {Environment[r]}
    BY <1>5 DEF Ses!PutMailFrom
  <2>6. Ses!TypeOK'
    BY <2>1, <2>3, <2>4, <2>5 DEF SesInvariant, Ses!TypeOK
  <2>7. RunHolds(r)
    BY DEF SesInvariant
  <2>8. OwnersHold'
    BY <2>2, <2>5, <2>7 DEF SesInvariant, OwnersHold, RunHolds
  <2>9. RunHolds(r)'
    BY <2>2, <2>3, <2>5, <2>7 DEF RunHolds
  <2>10. \A q \in Runs : q # r => RunHolds(q)'
    BY <2>3, <2>4, <2>5, RunsKept
  <2> QED
    BY <2>6, <2>8, <2>9, <2>10 DEF SesInvariant
<1>6. ASSUME NEW r \in Runs, NEW k \in Ses!Kinds, Ses!CreateResource(r, k)
      PROVE  SesInvariant'
  <2>1. run[r] \in Int /\ Environment[r] \in Ses!Environments
    BY NineCalls DEF SesInvariant, Ses!TypeOK, Ses!Refused, Ses!SesDomainAssumption
  <2>2. /\ k = "tenant" => run[r] = 3
        /\ k = "policy" => run[r] = 4
        /\ k = "set" => run[r] = 5
        /\ k = "destination" => run[r] = 7
        /\ k = "attachIdentity" => run[r] = 8
        /\ k = "attachSet" => run[r] = 9
        /\ run[r] \in {3, 4, 5, 7, 8, 9}
    BY <1>6, <2>1, AtIs DEF Ses!CreateResource, Ses!Kinds
  <2> DEFINE n == run[r] + 1
  <2>3. run' = [run EXCEPT ![r] = n] /\ run'[r] = n
    BY <1>6 DEF Ses!CreateResource, Ses!Advance, SesInvariant, Ses!TypeOK
  <2>4. n \in Ses!Refused..(Len(Ses!Calls) + 1)
    BY <2>2, NineCalls DEF Ses!Refused
  <2>5. /\ UNCHANGED <<identity, mailFrom, recorded, sesFaults>>
        /\ resources' = [resources EXCEPT ![Environment[r]] = @ \cup {k}]
    BY <1>6 DEF Ses!CreateResource, Ses!ignoreExisting
  <2>6. /\ \A e \in Ses!Environments : resources[e] \subseteq resources'[e]
        /\ \A e \in Ses!Environments : e # Environment[r] => resources'[e] = resources[e]
        /\ resources'[Environment[r]] = resources[Environment[r]] \cup {k}
    BY <2>1, <2>5 DEF SesInvariant, Ses!TypeOK
  <2>7. Ses!TypeOK'
    <3>1. resources' \in [Ses!Environments -> SUBSET Ses!Kinds]
        BY <2>1, <2>5 DEF SesInvariant, Ses!TypeOK
    <3> QED
        BY <2>3, <2>4, <2>5, <3>1 DEF SesInvariant, Ses!TypeOK
  <2>8. RunHolds(r)
    BY DEF SesInvariant
  <2>9. OwnersHold'
    BY <2>2, <2>5, <2>6, <2>8 DEF SesInvariant, OwnersHold, RunHolds, Ses!Kinds
  <2>10. RunHolds(r)'
    BY <2>1, <2>2, <2>3, <2>5, <2>6, <2>8 DEF RunHolds, Ses!Kinds
  <2>11. \A q \in Runs : q # r => RunHolds(q)'
    BY <2>3, <2>4, <2>5, <2>6, RunsKept
  <2> QED
    BY <2>7, <2>9, <2>10, <2>11 DEF SesInvariant
<1>7. CASE Ses!Next
    BY <1>7, <1>2, <1>3, <1>4, <1>5, <1>6 DEF Ses!Next
<1> QED
    BY <1>1, <1>7

(* The identity of a domain is changed and attached to a tenant by the one *)
(* environment that created it, and an invocation that comes to its end    *)
(* leaves every resource in place (domains/provision-ses-domain.ts).       *)
THEOREM IdentitiesHaveOneOwner == Ses!SesDomainAssumption => (Ses!Spec => [](Ses!TypeOK /\ Ses!IdentityHasOneOwner))
<1> SUFFICES ASSUME Ses!SesDomainAssumption PROVE Ses!Spec => [](Ses!TypeOK /\ Ses!IdentityHasOneOwner)
    OBVIOUS
<1>1. Ses!Init => SesInvariant
    BY SesInit
<1>2. SesInvariant /\ [Ses!Next]_Ses!vars => SesInvariant'
    BY SesNext
<1>3. SesInvariant => Ses!TypeOK /\ Ses!IdentityHasOneOwner
  <2> SUFFICES ASSUME SesInvariant PROVE Ses!IdentityHasOneOwner
    BY DEF SesInvariant
  <2>1. ASSUME NEW r \in Runs, Ses!Done(r)
        PROVE  resources[Environment[r]] = Ses!Kinds /\ Environment[r] \in mailFrom
    <3>1. run[r] = 10
        BY <2>1, NineCalls DEF Ses!Done
    <3>2. resources[Environment[r]] \subseteq Ses!Kinds
        BY DEF SesInvariant, Ses!TypeOK, Ses!SesDomainAssumption
    <3> QED
        BY <3>1, <3>2 DEF SesInvariant, RunHolds, Ses!Kinds
  <2> QED
    BY <2>1 DEF SesInvariant, OwnersHold, Ses!IdentityHasOneOwner, Ses!Owns
<1> QED
    BY <1>1, <1>2, <1>3, PTL DEF Ses!Spec

-----------------------------------------------------------------------------
\* What TypeOK says of each variable alone.
AttachmentTypes ==
    /\ attRow \in [AttFiles -> [status : Att!Statuses, scan : Att!Results]]
    /\ owned \subseteq AttFiles /\ object \subseteq AttFiles /\ window \subseteq AttFiles /\ expired \subseteq AttFiles
    /\ condemned \subseteq AttFiles
    /\ verdicts \in [AttFiles -> SUBSET {Att!Clean, Att!Threat}]
    /\ scanner \in [Scanners -> Att!ScannerStates]
    /\ message \in [stage : Att!Stages, loaded : SUBSET AttFiles]
    /\ purge \in [todo : SUBSET AttFiles, gone : SUBSET AttFiles]
    /\ erased \in [gone : SUBSET AttFiles, ended : BOOLEAN]
    /\ faults \in 0..MaxFaults

(* A row without an upload has no bytes and no message.  What may still be *)
(* scanned or sent has taken no threat verdict; what is being scanned was  *)
(* found clean, and what is clean was verified too.                        *)
RowHolds(f) ==
    /\ Att!Status(f) = "none" => f \notin object \cup owned \cup window \cup message.loaded
    /\ Att!Status(f) \in {"none", "pending_upload", "scanning", "clean"} => f \notin condemned
    /\ Att!Status(f) = "scanning" /\ attRow[f].scan = Att!Clean => Att!Clean \in verdicts[f]
    /\ Att!Status(f) = "clean" => f \in Typed /\ Att!Clean \in verdicts[f]

(* An invocation acts on a verdict that was given, and what it is about to *)
(* call clean it has verified.                                             *)
ScannerHolds(s) ==
    /\ scanner[s].pc = "seen" => scanner[s].verdict \in verdicts[scanner[s].file]
    /\ scanner[s].pc = "write" /\ scanner[s].ok => scanner[s].file \in Typed

AttachmentInvariant ==
    /\ AttachmentTypes
    /\ \A f \in AttFiles : RowHolds(f)
    /\ \A s \in Scanners : ScannerHolds(s)

LEMMA ScannerShape ==
    ASSUME NEW x \in Att!ScannerStates
    PROVE  /\ x.pc \in {"idle", "seen", "read", "write"}
           /\ x.pc # "idle" => x.file \in AttFiles
           /\ x.pc = "seen" => x.status \in Att!Statuses /\ x.verdict \in Att!Results
           /\ x.pc = "write" => x.ok \in BOOLEAN
BY DEF Att!ScannerStates, Att!Idle

LEMMA ScannerMakers ==
    /\ Att!Idle \in Att!ScannerStates /\ Att!Idle.pc = "idle"
    /\ \A f \in AttFiles, st \in Att!Statuses, v \in Att!Results :
         [pc |-> "seen", file |-> f, status |-> st, verdict |-> v] \in Att!ScannerStates
    /\ \A f \in AttFiles : [pc |-> "read", file |-> f] \in Att!ScannerStates
    /\ \A f \in AttFiles, ok \in BOOLEAN : [pc |-> "write", file |-> f, ok |-> ok] \in Att!ScannerStates
BY DEF Att!ScannerStates, Att!Idle

LEMMA Becomes ==
    ASSUME AttachmentTypes, NEW s \in Scanners, NEW x \in Att!ScannerStates, Att!Become(s, x)
    PROVE  /\ scanner' \in [Scanners -> Att!ScannerStates] /\ scanner'[s] = x
           /\ \A q \in Scanners : q # s => scanner'[q] = scanner[q]
BY DEF AttachmentTypes, Att!Become

LEMMA RowSet ==
    ASSUME AttachmentTypes, NEW f \in AttFiles, NEW st \in Att!Statuses, NEW sc \in Att!Results, Att!Set(f, st, sc)
    PROVE  /\ attRow' \in [AttFiles -> [status : Att!Statuses, scan : Att!Results]]
           /\ attRow'[f].status = st /\ attRow'[f].scan = sc
           /\ \A g \in AttFiles : g # f => attRow'[g] = attRow[g]
<1>1. attRow' = [attRow EXCEPT ![f] = [status |-> st, scan |-> sc]]
    BY DEF Att!Set
<1>2. [status |-> st, scan |-> sc] \in [status : Att!Statuses, scan : Att!Results]
    OBVIOUS
<1>3. attRow' \in [AttFiles -> [status : Att!Statuses, scan : Att!Results]] /\ attRow'[f] = [status |-> st, scan |-> sc]
    BY <1>1, <1>2 DEF AttachmentTypes
<1>4. \A g \in AttFiles : g # f => attRow'[g] = attRow[g]
    BY <1>1 DEF AttachmentTypes
<1> QED
    BY <1>3, <1>4

\* One invocation moves on, with what it may know; verdicts only grow.
LEMMA ScannerMoves ==
    ASSUME AttachmentInvariant, NEW s \in Scanners, NEW x \in Att!ScannerStates, Att!Become(s, x),
           verdicts' = verdicts,
           x.pc = "seen" => x.verdict \in verdicts[x.file],
           x.pc = "write" /\ x.ok => x.file \in Typed
    PROVE  scanner' \in [Scanners -> Att!ScannerStates] /\ \A q \in Scanners : ScannerHolds(q)'
<1>1. /\ scanner' \in [Scanners -> Att!ScannerStates] /\ scanner'[s] = x
      /\ \A q \in Scanners : q # s => scanner'[q] = scanner[q]
    BY Becomes DEF AttachmentInvariant
<1>2. ASSUME NEW q \in Scanners PROVE ScannerHolds(q)'
  <2>1. CASE q = s
    BY <1>1, <2>1 DEF ScannerHolds
  <2>2. CASE q # s
    BY <1>1, <2>2 DEF ScannerHolds, AttachmentInvariant
  <2> QED
    BY <2>1, <2>2
<1> QED
    BY <1>1, <1>2

LEMMA FaultCounted ==
    ASSUME Att!AttachmentsAssumption, AttachmentTypes, Att!Fault
    PROVE  faults' \in 0..MaxFaults
BY DEF Att!AttachmentsAssumption, AttachmentTypes, Att!Fault

LEMMA AttachmentInit == ASSUME Att!AttachmentsAssumption, Att!Init PROVE AttachmentInvariant
<1>1. AttachmentTypes
  <2>1. attRow \in [AttFiles -> [status : Att!Statuses, scan : Att!Results]] /\ verdicts \in [AttFiles -> SUBSET {Att!Clean, Att!Threat}]
    BY DEF Att!Init, Att!Statuses, Att!Results
  <2>2. scanner \in [Scanners -> Att!ScannerStates]
    BY ScannerMakers DEF Att!Init
  <2>3. /\ message \in [stage : Att!Stages, loaded : SUBSET AttFiles]
        /\ purge \in [todo : SUBSET AttFiles, gone : SUBSET AttFiles]
    BY DEF Att!Init, Att!Stages
  <2>4. faults \in 0..MaxFaults
    BY DEF Att!Init, Att!AttachmentsAssumption
  <2> QED
    BY <2>1, <2>2, <2>3, <2>4 DEF Att!Init, AttachmentTypes
<1>2. \A f \in AttFiles : RowHolds(f)
    BY DEF Att!Init, RowHolds, Att!Status
<1>3. \A s \in Scanners : ScannerHolds(s)
    BY DEF Att!Init, ScannerHolds, Att!Idle
<1> QED
    BY <1>1, <1>2, <1>3 DEF AttachmentInvariant

LEMMA ClientStep ==
    ASSUME Att!AttachmentsAssumption, AttachmentInvariant, NEW f \in AttFiles, Att!Client(f)
    PROVE  AttachmentInvariant'
<1>0. AttachmentTypes /\ (\A g \in AttFiles : RowHolds(g)) /\ (\A s \in Scanners : ScannerHolds(s))
    BY DEF AttachmentInvariant
<1>1. CASE Att!createAttachmentUpload(f)
  <2>1. /\ Att!Status(f) = "none" /\ Att!Set(f, "pending_upload", "none") /\ window' = window \cup {f}
        /\ UNCHANGED <<owned, object, expired, verdicts, scanner, message, purge, erased, condemned, faults>>
    BY <1>1 DEF Att!createAttachmentUpload, Att!UrlFor
  <2>2. /\ attRow' \in [AttFiles -> [status : Att!Statuses, scan : Att!Results]]
        /\ attRow'[f].status = "pending_upload" /\ attRow'[f].scan = "none"
        /\ \A g \in AttFiles : g # f => attRow'[g] = attRow[g]
    BY <1>0, <2>1, RowSet DEF Att!Statuses, Att!Results
  <2>3. AttachmentTypes'
    BY <1>0, <2>1, <2>2 DEF AttachmentTypes
  <2>4. \A g \in AttFiles : RowHolds(g)'
    BY <1>0, <2>1, <2>2 DEF RowHolds, Att!Status
  <2> QED
    BY <1>0, <2>1, <2>3, <2>4 DEF AttachmentInvariant, ScannerHolds
<1>2. CASE Att!Upload(f)
  <2>1. /\ f \in window /\ object' = object \cup {f}
        /\ UNCHANGED <<attRow, owned, window, expired, scanner, message, purge, erased, condemned, faults>>
    BY <1>2 DEF Att!Upload, Att!clock
  <2>2. PICK v \in {Att!Clean, Att!Threat} : verdicts' = [verdicts EXCEPT ![f] = @ \cup {v}]
    BY <1>2 DEF Att!Upload
  <2>3. /\ verdicts' \in [AttFiles -> SUBSET {Att!Clean, Att!Threat}]
        /\ \A g \in AttFiles : verdicts[g] \subseteq verdicts'[g]
    BY <1>0, <2>2 DEF AttachmentTypes
  <2>4. AttachmentTypes'
    BY <1>0, <2>1, <2>3 DEF AttachmentTypes
  <2>5. \A g \in AttFiles : RowHolds(g)'
    BY <1>0, <2>1, <2>3 DEF RowHolds, Att!Status
  <2>6. ASSUME NEW s \in Scanners PROVE ScannerHolds(s)'
    <3>1. scanner[s] \in Att!ScannerStates
        BY <1>0 DEF AttachmentTypes
    <3>2. scanner[s].pc = "seen" => scanner[s].file \in AttFiles
        BY <3>1, ScannerShape
    <3> QED
        BY <1>0, <2>1, <2>3, <3>2 DEF ScannerHolds
  <2> QED
    BY <2>4, <2>5, <2>6 DEF AttachmentInvariant
<1>3. CASE Att!CloseWindow(f) \/ Att!Expire(f) \/ Att!BucketExpires(f)
  <2>1. /\ window' \subseteq window /\ expired' \subseteq AttFiles /\ object' \subseteq object
        /\ UNCHANGED <<attRow, owned, verdicts, scanner, message, purge, erased, condemned, faults>>
    BY <1>0, <1>3 DEF Att!CloseWindow, Att!Expire, Att!BucketExpires, AttachmentTypes, Att!clock
  <2>2. AttachmentTypes'
    BY <1>0, <2>1 DEF AttachmentTypes
  <2>3. \A g \in AttFiles : RowHolds(g)'
    BY <1>0, <2>1 DEF RowHolds, Att!Status
  <2> QED
    BY <1>0, <2>1, <2>2, <2>3 DEF AttachmentInvariant, ScannerHolds
<1> QED
    BY <1>1, <1>2, <1>3 DEF Att!Client

LEMMA ScanStep ==
    ASSUME Att!AttachmentsAssumption, AttachmentInvariant, NEW s \in Scanners,
           Att!Scan(s) \/ Att!ScanFails(s) \/ \E f \in AttFiles : Att!ScanReceive(s, f)
    PROVE  AttachmentInvariant'
<1>0. AttachmentTypes /\ (\A g \in AttFiles : RowHolds(g)) /\ (\A q \in Scanners : ScannerHolds(q))
    BY DEF AttachmentInvariant
<1>1. UNCHANGED <<owned, object, window, expired, verdicts, message, purge, erased>>
    BY DEF Att!Scan, Att!ScanReject, Att!ScanClaim, Att!ScanObject, Att!ScanWrite, Att!ScanFails, Att!ScanReceive, Att!clock
<1>2. /\ scanner[s] \in Att!ScannerStates
      /\ scanner[s].pc \in {"idle", "seen", "read", "write"}
      /\ scanner[s].pc # "idle" => scanner[s].file \in AttFiles
      /\ scanner[s].pc = "seen" => scanner[s].status \in Att!Statuses /\ scanner[s].verdict \in Att!Results
      /\ scanner[s].pc = "write" => scanner[s].ok \in BOOLEAN
    BY <1>0, ScannerShape DEF AttachmentTypes
<1>3. ASSUME NEW f \in AttFiles, Att!ScanReceive(s, f) PROVE AttachmentInvariant'
  <2>1. PICK v \in verdicts[f] : Att!Become(s, [pc |-> "seen", file |-> f, status |-> Att!Status(f), verdict |-> v])
    BY <1>3 DEF Att!ScanReceive
  <2>2. Att!Status(f) \in Att!Statuses /\ v \in Att!Results
    BY <1>0 DEF AttachmentTypes, Att!Status, Att!Results
  <2> DEFINE x == [pc |-> "seen", file |-> f, status |-> Att!Status(f), verdict |-> v]
  <2>3. x \in Att!ScannerStates /\ x.pc = "seen" /\ x.verdict \in verdicts[x.file]
    BY <2>2, ScannerMakers
  <2> HIDE DEF x
  <2>4. scanner' \in [Scanners -> Att!ScannerStates] /\ \A q \in Scanners : ScannerHolds(q)'
    BY <1>1, <2>1, <2>3, ScannerMoves DEF x
  <2>5. UNCHANGED <<attRow, condemned, faults>>
    BY <1>3 DEF Att!ScanReceive
  <2>6. AttachmentTypes' /\ \A g \in AttFiles : RowHolds(g)'
    BY <1>0, <1>1, <2>4, <2>5 DEF AttachmentTypes, RowHolds, Att!Status
  <2> QED
    BY <2>4, <2>6 DEF AttachmentInvariant
<1>4. CASE Att!Become(s, Att!Idle) /\ faults' \in 0..MaxFaults /\ UNCHANGED <<attRow, condemned>>
  <2>1. scanner' \in [Scanners -> Att!ScannerStates] /\ \A q \in Scanners : ScannerHolds(q)'
    BY <1>1, <1>4, ScannerMakers, ScannerMoves
  <2>2. AttachmentTypes' /\ \A g \in AttFiles : RowHolds(g)'
    BY <1>0, <1>1, <1>4, <2>1 DEF AttachmentTypes, RowHolds, Att!Status
  <2> QED
    BY <2>1, <2>2 DEF AttachmentInvariant
<1>5. faults \in 0..MaxFaults
    BY <1>0 DEF AttachmentTypes
<1>6. CASE Att!ScanReject(s)
  <2> DEFINE f == scanner[s].file
  <2>1. Att!Become(s, Att!Idle) /\ UNCHANGED faults /\ f \in AttFiles
    BY <1>2, <1>6 DEF Att!ScanReject
  <2>2. CASE UNCHANGED <<attRow, condemned>>
    BY <1>4, <1>5, <2>1, <2>2
  <2>3. CASE Att!Set(f, "rejected", Att!Threat) /\ condemned' = condemned \cup {f}
    <3> HIDE DEF f
    <3>1. /\ attRow' \in [AttFiles -> [status : Att!Statuses, scan : Att!Results]]
          /\ attRow'[f].status = "rejected"
          /\ \A g \in AttFiles : g # f => attRow'[g] = attRow[g]
        BY <1>0, <2>1, <2>3, RowSet DEF Att!Statuses, Att!Results
    <3>2. scanner' \in [Scanners -> Att!ScannerStates] /\ \A q \in Scanners : ScannerHolds(q)'
        BY <1>1, <2>1, ScannerMakers, ScannerMoves
    <3>3. AttachmentTypes'
        BY <1>0, <1>1, <2>1, <2>3, <3>1, <3>2 DEF AttachmentTypes
    <3>4. \A g \in AttFiles : RowHolds(g)'
        BY <1>0, <1>1, <2>3, <3>1 DEF RowHolds, Att!Status
    <3> QED
        BY <3>2, <3>3, <3>4 DEF AttachmentInvariant
  <2> QED
    BY <1>6, <2>2, <2>3 DEF Att!ScanReject
<1>7. CASE Att!ScanClaim(s)
  <2> DEFINE f == scanner[s].file
  <2>1. f \in AttFiles /\ Att!Clean \in verdicts[f] /\ UNCHANGED <<condemned, faults>>
    BY <1>0, <1>2, <1>7 DEF Att!ScanClaim, ScannerHolds
  <2>2. CASE UNCHANGED attRow /\ Att!Become(s, Att!Idle)
    BY <1>4, <1>5, <2>1, <2>2
  <2>3. CASE Att!Scannable(f) /\ Att!Set(f, "scanning", Att!Clean) /\ Att!Become(s, [pc |-> "read", file |-> f])
    <3> HIDE DEF f
    <3>1. /\ attRow' \in [AttFiles -> [status : Att!Statuses, scan : Att!Results]]
          /\ attRow'[f].status = "scanning"
          /\ \A g \in AttFiles : g # f => attRow'[g] = attRow[g]
        BY <1>0, <2>1, <2>3, RowSet DEF Att!Statuses, Att!Results
    <3>2. [pc |-> "read", file |-> f] \in Att!ScannerStates
        BY <2>1, ScannerMakers
    <3>3. scanner' \in [Scanners -> Att!ScannerStates] /\ \A q \in Scanners : ScannerHolds(q)'
        BY <1>1, <2>3, <3>2, ScannerMoves
    <3>4. AttachmentTypes'
        BY <1>0, <1>1, <2>1, <3>1, <3>3 DEF AttachmentTypes
    <3>5. \A g \in AttFiles : RowHolds(g)'
        BY <1>0, <1>1, <2>1, <2>3, <3>1 DEF RowHolds, Att!Status, Att!Scannable
    <3> QED
        BY <3>3, <3>4, <3>5 DEF AttachmentInvariant
  <2> QED
    BY <1>7, <2>2, <2>3 DEF Att!ScanClaim
<1>8. CASE Att!ScanObject(s)
  <2> DEFINE f == scanner[s].file
  <2>1. f \in AttFiles /\ UNCHANGED <<attRow, condemned, faults>>
    BY <1>2, <1>8 DEF Att!ScanObject
  <2>2. CASE Att!Become(s, Att!Idle)
    BY <1>4, <1>5, <2>1, <2>2
  <2>3. CASE Att!Become(s, [pc |-> "write", file |-> f, ok |-> Att!Verified(f)])
    <3> HIDE DEF f
    <3>7. (f \in Typed) \in BOOLEAN
        OBVIOUS
    <3>5. PICK ok \in BOOLEAN : ok = (f \in Typed)
        BY <3>7
    <3> DEFINE x == [pc |-> "write", file |-> f, ok |-> ok]
    <3>6. x \in Att!ScannerStates
        BY <2>1, ScannerMakers
    <3>1. x \in Att!ScannerStates /\ x.pc = "write" /\ (x.ok => x.file \in Typed)
        BY <3>5, <3>6
    <3>2. Att!Become(s, x)
        BY <2>3, <3>5 DEF Att!Verified
    <3> HIDE DEF x
    <3>3. scanner' \in [Scanners -> Att!ScannerStates] /\ \A q \in Scanners : ScannerHolds(q)'
        BY <1>1, <3>1, <3>2, ScannerMoves
    <3>4. AttachmentTypes' /\ \A g \in AttFiles : RowHolds(g)'
        BY <1>0, <1>1, <2>1, <3>3 DEF AttachmentTypes, RowHolds, Att!Status
    <3> QED
        BY <3>3, <3>4 DEF AttachmentInvariant
  <2> QED
    BY <1>8, <2>2, <2>3 DEF Att!ScanObject
<1>9. CASE Att!ScanWrite(s)
  <2> DEFINE f == scanner[s].file
  <2>1. f \in AttFiles /\ Att!Become(s, Att!Idle) /\ UNCHANGED <<condemned, faults>> /\ (scanner[s].ok => f \in Typed)
    BY <1>0, <1>2, <1>9 DEF Att!ScanWrite, ScannerHolds
  <2>2. CASE UNCHANGED attRow
    BY <1>4, <1>5, <2>1, <2>2
  <2>3. CASE Att!StillScanning(f) /\ Att!Set(f, IF scanner[s].ok THEN "clean" ELSE "rejected", Att!Clean)
    <3>1. PICK st \in {"clean", "rejected"} : Att!Set(f, st, Att!Clean) /\ (st = "clean" => f \in Typed)
        BY <2>1, <2>3
    <3> HIDE DEF f
    <3>2. /\ attRow' \in [AttFiles -> [status : Att!Statuses, scan : Att!Results]]
          /\ attRow'[f].status = st
          /\ \A g \in AttFiles : g # f => attRow'[g] = attRow[g]
        BY <1>0, <2>1, <3>1, RowSet DEF Att!Statuses, Att!Results
    <3>3. scanner' \in [Scanners -> Att!ScannerStates] /\ \A q \in Scanners : ScannerHolds(q)'
        BY <1>1, <2>1, ScannerMakers, ScannerMoves
    <3>4. AttachmentTypes'
        BY <1>0, <1>1, <2>1, <3>2, <3>3 DEF AttachmentTypes
    <3>5. \A g \in AttFiles : RowHolds(g)'
        BY <1>0, <1>1, <2>1, <2>3, <3>1, <3>2 DEF RowHolds, Att!Status, Att!StillScanning
    <3> QED
        BY <3>3, <3>4, <3>5 DEF AttachmentInvariant
  <2> QED
    BY <1>9, <2>2, <2>3 DEF Att!ScanWrite
<1>10. CASE Att!ScanFails(s)
    BY <1>0, <1>4, <1>10, FaultCounted DEF Att!ScanFails
<1> QED
    BY <1>3, <1>6, <1>7, <1>8, <1>9, <1>10 DEF Att!Scan

\* The sender's loop over its attachments moves on, or ends.
LEMMA LoopMoves ==
    ASSUME AttachmentTypes, NEW f \in AttFiles,
           \/ erased' = [erased EXCEPT !.gone = {f}] \/ erased' = [erased EXCEPT !.ended = TRUE]
           \/ erased' = [erased EXCEPT !.gone = {}] \/ erased' = [gone |-> {}, ended |-> TRUE]
    PROVE  erased' \in [gone : SUBSET AttFiles, ended : BOOLEAN]
<1>1. erased \in [gone : SUBSET AttFiles, ended : BOOLEAN]
    BY DEF AttachmentTypes
<1>2. {f} \in SUBSET AttFiles /\ {} \in SUBSET AttFiles
    OBVIOUS
<1>3. \A g \in SUBSET AttFiles : [erased EXCEPT !.gone = g] \in [gone : SUBSET AttFiles, ended : BOOLEAN]
    BY <1>1
<1>4. [erased EXCEPT !.ended = TRUE] \in [gone : SUBSET AttFiles, ended : BOOLEAN]
    BY <1>1
<1>5. [gone |-> {}, ended |-> TRUE] \in [gone : SUBSET AttFiles, ended : BOOLEAN]
    OBVIOUS
<1> QED
    BY <1>2, <1>3, <1>4, <1>5

LEMMA SendStep ==
    ASSUME Att!AttachmentsAssumption, AttachmentInvariant, Att!Delivery
    PROVE  AttachmentInvariant'
<1>0. AttachmentTypes /\ (\A g \in AttFiles : RowHolds(g)) /\ (\A q \in Scanners : ScannerHolds(q))
    BY DEF AttachmentInvariant
<1>1. UNCHANGED <<window, expired, verdicts, scanner, purge, condemned>>
    BY DEF Att!Delivery, Att!AcceptRead, Att!AcceptCommit, Att!loadAttachments, Att!Send, Att!purgeAttachments, Att!EraseObject, Att!EraseRow, Att!clock
<1>2. \A q \in Scanners : ScannerHolds(q)'
    BY <1>0, <1>1 DEF ScannerHolds
<1>3. /\ message \in [stage : Att!Stages, loaded : SUBSET AttFiles] /\ faults \in 0..MaxFaults
      /\ \A g \in message.loaded : Att!Status(g) # "none"
    BY <1>0 DEF AttachmentTypes, RowHolds
<1>4. CASE Att!AcceptCommit
  <2>1. /\ owned' = message.loaded /\ message' = [stage |-> "queued", loaded |-> {}]
        /\ UNCHANGED <<attRow, object, erased, faults>>
    BY <1>4 DEF Att!AcceptCommit
  <2>2. AttachmentTypes'
    BY <1>0, <1>1, <1>3, <2>1 DEF AttachmentTypes, Att!Stages
  <2>3. \A g \in AttFiles : RowHolds(g)'
    BY <1>0, <1>1, <1>3, <2>1 DEF RowHolds, Att!Status
  <2> QED
    BY <1>2, <2>2, <2>3 DEF AttachmentInvariant
<1>5. CASE (\E fs \in SUBSET AttFiles \ {{}} : Att!AcceptRead(fs)) \/ Att!loadAttachments \/ Att!Send
  <2>1. /\ UNCHANGED <<attRow, owned, object, erased>> /\ faults' \in 0..MaxFaults
        /\ message' \in [stage : Att!Stages, loaded : SUBSET AttFiles]
        /\ \A g \in message'.loaded : Att!Status(g) # "none"
    <3>1. CASE \E fs \in SUBSET AttFiles \ {{}} : Att!AcceptRead(fs)
        BY <1>3, <3>1 DEF Att!AcceptRead, Att!Stages
    <3>2. CASE Att!loadAttachments
      <4>1. UNCHANGED <<attRow, owned, object, erased, faults>>
        BY <3>2 DEF Att!loadAttachments
      <4>2. CASE message' = [stage |-> "loaded", loaded |-> {f \in AttFiles : Att!Loadable(f)}]
        BY <1>3, <4>1, <4>2 DEF Att!Stages, Att!Loadable
      <4>3. CASE message' = [message EXCEPT !.stage = "unknown"]
        BY <1>3, <4>1, <4>3 DEF Att!Stages
      <4> QED
        BY <3>2, <4>2, <4>3 DEF Att!loadAttachments
    <3>3. CASE Att!Send
      <4>1. UNCHANGED <<attRow, owned, object, erased>>
        BY <3>3 DEF Att!Send
      <4>2. faults' \in 0..MaxFaults
        BY <1>0, <1>3, <3>3, FaultCounted DEF Att!Send
      <4>3. CASE \E st \in {"sent", "failed"} : message' = [message EXCEPT !.stage = st]
        BY <1>3, <4>1, <4>2, <4>3 DEF Att!Stages
      <4>4. CASE message' = [stage |-> "queued", loaded |-> {}]
        BY <1>3, <4>1, <4>2, <4>4 DEF Att!Stages
      <4> QED
        BY <3>3, <4>3, <4>4 DEF Att!Send
    <3> QED
        BY <1>5, <3>1, <3>2, <3>3
  <2>2. AttachmentTypes'
    BY <1>0, <1>1, <2>1 DEF AttachmentTypes
  <2>3. \A g \in AttFiles : RowHolds(g)'
    BY <1>0, <1>1, <2>1 DEF RowHolds, Att!Status
  <2> QED
    BY <1>2, <2>2, <2>3 DEF AttachmentInvariant
<1>6. ASSUME NEW f \in AttFiles, Att!EraseObject(f) PROVE AttachmentInvariant'
  <2>0. faults' \in 0..MaxFaults /\ erased' \in [gone : SUBSET AttFiles, ended : BOOLEAN]
    BY <1>0, <1>3, <1>6, FaultCounted, LoopMoves DEF Att!EraseObject
  <2>1. object' \subseteq object /\ UNCHANGED <<attRow, owned, message>>
    BY <1>6 DEF Att!EraseObject
  <2>2. AttachmentTypes'
    BY <1>0, <1>1, <2>0, <2>1 DEF AttachmentTypes
  <2>3. \A g \in AttFiles : RowHolds(g)'
    BY <1>0, <1>1, <2>1 DEF RowHolds, Att!Status
  <2> QED
    BY <1>2, <2>2, <2>3 DEF AttachmentInvariant
<1>7. ASSUME NEW f \in AttFiles, Att!EraseRow(f) PROVE AttachmentInvariant'
  <2>0. faults' \in 0..MaxFaults /\ erased' \in [gone : SUBSET AttFiles, ended : BOOLEAN]
    BY <1>0, <1>3, <1>7, FaultCounted, LoopMoves DEF Att!EraseRow
  <2>1. UNCHANGED <<owned, object, message>>
    BY <1>7 DEF Att!EraseRow
  <2>2. CASE Att!Set(f, "deleted", attRow[f].scan)
    <3>1. attRow[f].scan \in Att!Results
        BY <1>0 DEF AttachmentTypes
    <3>2. /\ attRow' \in [AttFiles -> [status : Att!Statuses, scan : Att!Results]]
          /\ attRow'[f].status = "deleted"
          /\ \A g \in AttFiles : g # f => attRow'[g] = attRow[g]
        BY <1>0, <2>2, <3>1, RowSet DEF Att!Statuses
    <3>3. AttachmentTypes'
        BY <1>0, <1>1, <2>0, <2>1, <3>2 DEF AttachmentTypes
    <3>4. \A g \in AttFiles : RowHolds(g)'
        BY <1>0, <1>1, <2>1, <3>2 DEF RowHolds, Att!Status
    <3> QED
        BY <1>2, <3>3, <3>4 DEF AttachmentInvariant
  <2>3. CASE UNCHANGED attRow
    <3>1. AttachmentTypes'
        BY <1>0, <1>1, <2>0, <2>1, <2>3 DEF AttachmentTypes
    <3>2. \A g \in AttFiles : RowHolds(g)'
        BY <1>0, <1>1, <2>1, <2>3 DEF RowHolds, Att!Status
    <3> QED
        BY <1>2, <3>1, <3>2 DEF AttachmentInvariant
  <2> QED
    BY <1>7, <2>2, <2>3 DEF Att!EraseRow
<1> QED
    BY <1>4, <1>5, <1>6, <1>7 DEF Att!Delivery, Att!purgeAttachments

LEMMA PurgeStep ==
    ASSUME Att!AttachmentsAssumption, AttachmentInvariant, Att!Purge \/ Att!PurgeFails
    PROVE  AttachmentInvariant'
<1>0. AttachmentTypes /\ (\A g \in AttFiles : RowHolds(g)) /\ (\A q \in Scanners : ScannerHolds(q))
    BY DEF AttachmentInvariant
<1>1. UNCHANGED <<owned, window, expired, verdicts, scanner, message, erased, condemned>>
    BY DEF Att!Purge, Att!PurgeFails, Att!PurgeSelect, Att!PurgeObject, Att!PurgeRow, Att!clock
<1>2. \A q \in Scanners : ScannerHolds(q)'
    BY <1>0, <1>1 DEF ScannerHolds
<1>3. purge \in [todo : SUBSET AttFiles, gone : SUBSET AttFiles] /\ faults \in 0..MaxFaults
    BY <1>0 DEF AttachmentTypes
<1>4. CASE Att!PurgeSelect \/ Att!PurgeFails \/ \E f \in AttFiles : Att!PurgeObject(f)
  <2>1. /\ attRow' = attRow /\ object' \subseteq object /\ faults' \in 0..MaxFaults
        /\ purge' \in [todo : SUBSET AttFiles, gone : SUBSET AttFiles]
    <3>1. CASE Att!PurgeSelect
        BY <1>0, <1>3, <3>1 DEF Att!PurgeSelect, AttachmentTypes
    <3>2. CASE Att!PurgeFails
        BY <1>0, <1>3, <3>2, FaultCounted DEF Att!PurgeFails
    <3>3. CASE \E f \in AttFiles : Att!PurgeObject(f)
        BY <1>3, <3>3 DEF Att!PurgeObject
    <3> QED
        BY <1>4, <3>1, <3>2, <3>3
  <2>2. AttachmentTypes'
    BY <1>0, <1>1, <2>1 DEF AttachmentTypes
  <2>3. \A g \in AttFiles : RowHolds(g)'
    BY <1>0, <1>1, <2>1 DEF RowHolds, Att!Status
  <2> QED
    BY <1>2, <2>2, <2>3 DEF AttachmentInvariant
<1>5. ASSUME NEW f \in AttFiles, Att!PurgeRow(f) PROVE AttachmentInvariant'
  <2>1. /\ UNCHANGED <<object, faults>> /\ purge' \in [todo : SUBSET AttFiles, gone : SUBSET AttFiles]
    BY <1>3, <1>5 DEF Att!PurgeRow
  <2>2. CASE UNCHANGED attRow
    BY <1>0, <1>1, <1>2, <2>1, <2>2 DEF AttachmentInvariant, AttachmentTypes, RowHolds, Att!Status
  <2>3. CASE Att!Set(f, "expired", attRow[f].scan)
    <3>1. attRow[f].scan \in Att!Results
        BY <1>0 DEF AttachmentTypes
    <3>2. /\ attRow' \in [AttFiles -> [status : Att!Statuses, scan : Att!Results]]
          /\ attRow'[f].status = "expired"
          /\ \A g \in AttFiles : g # f => attRow'[g] = attRow[g]
        BY <1>0, <2>3, <3>1, RowSet DEF Att!Statuses
    <3>3. AttachmentTypes'
        BY <1>0, <1>1, <2>1, <3>2 DEF AttachmentTypes
    <3>4. \A g \in AttFiles : RowHolds(g)'
        BY <1>0, <1>1, <2>1, <3>2 DEF RowHolds, Att!Status
    <3> QED
        BY <1>2, <3>3, <3>4 DEF AttachmentInvariant
  <2> QED
    BY <1>5, <2>2, <2>3 DEF Att!PurgeRow
<1> QED
    BY <1>4, <1>5 DEF Att!Purge

LEMMA AttachmentNext ==
    ASSUME Att!AttachmentsAssumption, AttachmentInvariant, [Att!Next]_Att!vars
    PROVE  AttachmentInvariant'
<1>1. CASE UNCHANGED Att!vars
    BY <1>1 DEF Att!vars, Att!clock, AttachmentInvariant, AttachmentTypes, RowHolds, ScannerHolds, Att!Status
<1>2. CASE Att!Next
    BY <1>2, ClientStep, ScanStep, SendStep, PurgeStep DEF Att!Next
<1> QED
    BY <1>1, <1>2

(* A clean attachment passed the scan and the verification, whatever order *)
(* its verdicts arrive in, however often, and however many invocations of  *)
(* the scan worker hold its row (workers/attachment-scan.ts).              *)
THEOREM AttachmentsAreScanned == Att!AttachmentsAssumption => (Att!Spec => [](Att!TypeOK /\ Att!CleanWasVerified))
<1> SUFFICES ASSUME Att!AttachmentsAssumption PROVE Att!Spec => [](Att!TypeOK /\ Att!CleanWasVerified)
    OBVIOUS
<1>1. Att!Init => AttachmentInvariant
    BY AttachmentInit
<1>2. AttachmentInvariant /\ [Att!Next]_Att!vars => AttachmentInvariant'
    BY AttachmentNext
<1>3. AttachmentInvariant => Att!TypeOK /\ Att!CleanWasVerified
    BY DEF AttachmentInvariant, AttachmentTypes, RowHolds, Att!TypeOK, Att!CleanWasVerified
<1> QED
    BY <1>1, <1>2, <1>3, PTL DEF Att!Spec

(* What a sender loads has taken no threat verdict before, and a verdict   *)
(* that is late or repeated revives no attachment (workers/send-email.ts,  *)
(* workers/attachment-scan.ts).                                            *)
THEOREM VerdictsStand == Att!AttachmentsAssumption => (Att!Spec => [][Att!CondemnedIsNotLoaded /\ Att!NeverRevived]_Att!vars)
<1> SUFFICES ASSUME Att!AttachmentsAssumption PROVE Att!Spec => [][Att!CondemnedIsNotLoaded /\ Att!NeverRevived]_Att!vars
    OBVIOUS
<1>1. Att!Init => AttachmentInvariant
    BY AttachmentInit
<1>2. AttachmentInvariant /\ [Att!Next]_Att!vars => AttachmentInvariant'
    BY AttachmentNext
<1>3. AttachmentInvariant /\ [Att!Next]_Att!vars => [Att!CondemnedIsNotLoaded /\ Att!NeverRevived]_Att!vars
  <2> SUFFICES ASSUME AttachmentInvariant, Att!Next PROVE Att!CondemnedIsNotLoaded /\ Att!NeverRevived
    OBVIOUS
  <2>0. AttachmentTypes /\ (\A g \in AttFiles : RowHolds(g))
    BY DEF AttachmentInvariant
  <2>1. Att!CondemnedIsNotLoaded
    <3>1. CASE Att!loadAttachments
      <4>1. \A f \in AttFiles : Att!Loadable(f) => f \notin condemned
        BY <2>0 DEF Att!Loadable, RowHolds
      <4> DEFINE fs == {f \in AttFiles : Att!Loadable(f)}
      <4>2. fs \cap condemned = {}
        BY <4>1
      <4> HIDE DEF fs
      <4>3. message'.stage = "loaded" => message'.loaded = fs
        <5>1. message \in [stage : Att!Stages, loaded : SUBSET AttFiles]
            BY <2>0 DEF AttachmentTypes
        <5>2. message' = [stage |-> "loaded", loaded |-> fs] \/ message' = [message EXCEPT !.stage = "unknown"]
            BY <3>1 DEF Att!loadAttachments, fs
        <5> QED
            BY <5>1, <5>2
      <4> QED
        BY <4>2, <4>3 DEF Att!CondemnedIsNotLoaded
    <3>2. CASE ~Att!loadAttachments
      <4>1. message'.stage = "loaded" => message.stage = "loaded"
        <5>1. CASE UNCHANGED message
            BY <5>1
        <5>2. CASE Att!Delivery
          <6>1. message \in [stage : Att!Stages, loaded : SUBSET AttFiles]
            BY <2>0 DEF AttachmentTypes
          <6>2. \/ \E fs : message' = [stage |-> "checked", loaded |-> fs]
                \/ message' = [stage |-> "queued", loaded |-> {}]
                \/ message' = [message EXCEPT !.stage = "sent"] \/ message' = [message EXCEPT !.stage = "failed"]
                \/ message' = message
            BY <3>2, <5>2 DEF Att!Delivery, Att!AcceptRead, Att!AcceptCommit, Att!Send, Att!purgeAttachments, Att!EraseObject, Att!EraseRow
          <6> QED
            BY <6>1, <6>2
        <5>3. UNCHANGED message \/ Att!Delivery
            BY DEF Att!Next, Att!Client, Att!Scan, Att!Purge, Att!createAttachmentUpload, Att!Upload, Att!CloseWindow, Att!Expire, Att!BucketExpires, Att!ScanReceive,
                   Att!ScanReject, Att!ScanClaim, Att!ScanObject, Att!ScanWrite, Att!ScanFails, Att!PurgeSelect, Att!PurgeObject, Att!PurgeRow, Att!PurgeFails
        <5> QED
            BY <5>1, <5>2, <5>3
      <4> QED
        BY <4>1 DEF Att!CondemnedIsNotLoaded
    <3> QED
        BY <3>1, <3>2
  <2>2. Att!NeverRevived
    <3>1. CASE UNCHANGED attRow
        BY <3>1 DEF Att!NeverRevived, Att!Status
    <3>2. ASSUME NEW f \in AttFiles, NEW st \in Att!Statuses, NEW sc \in Att!Results, Att!Set(f, st, sc),
                 Att!Status(f) = "rejected" => st \in {"rejected", "expired", "deleted"},
                 Att!Status(f) \in {"expired", "deleted"} => st \in {"expired", "deleted"}
          PROVE  Att!NeverRevived
      <4>1. attRow'[f].status = st /\ \A g \in AttFiles : g # f => attRow'[g] = attRow[g]
        BY <2>0, <3>2, RowSet
      <4> QED
        BY <3>2, <4>1 DEF Att!NeverRevived, Att!Status
    <3>3. ASSUME NEW f \in AttFiles PROVE attRow[f].scan \in Att!Results
        BY <2>0 DEF AttachmentTypes
    <3>4. ASSUME NEW f \in AttFiles, Att!Client(f) PROVE Att!NeverRevived
      <4>1. CASE Att!createAttachmentUpload(f)
        BY <3>2, <4>1 DEF Att!createAttachmentUpload, Att!Statuses, Att!Results
      <4> QED
        BY <3>1, <3>4, <4>1 DEF Att!Client, Att!Upload, Att!CloseWindow, Att!Expire, Att!BucketExpires
    <3>5. ASSUME NEW s \in Scanners, Att!Scan(s) \/ Att!ScanFails(s) \/ \E f \in AttFiles : Att!ScanReceive(s, f) PROVE Att!NeverRevived
      <4>1. scanner[s] \in Att!ScannerStates /\ (scanner[s].pc # "idle" => scanner[s].file \in AttFiles)
        BY <2>0, ScannerShape DEF AttachmentTypes
      <4>2. CASE Att!ScanReject(s)
        BY <3>1, <3>2, <4>1, <4>2 DEF Att!ScanReject, Att!Rejectable, Att!Statuses, Att!Results
      <4>3. CASE Att!ScanClaim(s)
        BY <3>1, <3>2, <4>1, <4>3 DEF Att!ScanClaim, Att!Scannable, Att!Statuses, Att!Results
      <4>4. CASE Att!ScanWrite(s)
        BY <3>1, <3>2, <4>1, <4>4 DEF Att!ScanWrite, Att!StillScanning, Att!Statuses, Att!Results
      <4> QED
        BY <3>1, <3>5, <4>2, <4>3, <4>4 DEF Att!Scan, Att!ScanObject, Att!ScanFails, Att!ScanReceive
    <3>6. ASSUME NEW f \in AttFiles, Att!purgeAttachments(f) PROVE Att!NeverRevived
        BY <3>1, <3>2, <3>3, <3>6 DEF Att!purgeAttachments, Att!EraseObject, Att!EraseRow, Att!Statuses
    <3>7. CASE Att!Delivery
        BY <3>1, <3>6, <3>7 DEF Att!Delivery, Att!AcceptRead, Att!AcceptCommit, Att!loadAttachments, Att!Send
    <3>8. ASSUME NEW f \in AttFiles, Att!PurgeRow(f) PROVE Att!NeverRevived
        BY <3>1, <3>2, <3>3, <3>8 DEF Att!PurgeRow, Att!Purgeable, Att!Statuses
    <3>9. CASE Att!Purge \/ Att!PurgeFails
        BY <3>1, <3>8, <3>9 DEF Att!Purge, Att!PurgeFails, Att!PurgeSelect, Att!PurgeObject
    <3> QED
        BY <3>4, <3>5, <3>7, <3>9 DEF Att!Next
  <2> QED
    BY <2>1, <2>2
<1> QED
    BY <1>1, <1>2, <1>3, PTL DEF Att!Spec

-----------------------------------------------------------------------------
IsHeld(r) == \E i \in Invocations : r \in evpRun[i].batch

(* A record has an event once it is published, and its effects when it is  *)
(* gone, unless it may be passed over.  Each end of an invocation that had one that can be read, without *)
(* its effects, cost a fault: it was received no oftener than that.        *)
Through(r) == evpRecord[r].event \in ingested \/ Evp!MaySkip(r)
RecordHolds(r) ==
    /\ evpRecord[r].place # Evp!None => evpRecord[r].event \in Events
    /\ evpRecord[r].known => evpRecord[r].event \in Events /\ Evp!Located(evpRecord[r].event) # {}
    /\ evpRecord[r].place = "gone" => Through(r)
    /\ evpRecord[r].place = "dlq" => evpRecord[r].receives = MaxReceive
    /\ evpRecord[r].place \in {"main", "dlq"} /\ Evp!Normalizes(evpRecord[r].event) /\ ~IsHeld(r) => evpRecord[r].receives <= evpFaults

(* The records of an invocation stay hidden for longer than it runs, those *)
(* that are through have had their effects.                                *)
BatchHolds(i) ==
    /\ evpRun[i].todo \subseteq evpRun[i].batch /\ evpRun[i].failed \subseteq evpRun[i].batch
    /\ evpRun[i].todo \cap evpRun[i].failed = {}
    /\ \A r \in evpRun[i].batch :
         /\ evpRecord[r].place = "main" /\ evpRecord[r].hidden > evpRun[i].left
         /\ r \notin evpRun[i].todo \cup evpRun[i].failed => Through(r)
         /\ Evp!Normalizes(evpRecord[r].event) => /\ evpRecord[r].receives <= evpFaults + 1
                                                  /\ r \in evpRun[i].failed => evpRecord[r].receives <= evpFaults

BatchesApart == \A i, j \in Invocations : i # j => evpRun[i].batch \cap evpRun[j].batch = {}

IngestedOnce ==
    /\ \A e \in Events : applied[e] = IF e \in ingested THEN 1 ELSE 0
    /\ \A e \in ingested : \E m \in Messages : stored[m] = Id[e] /\ Tag[e] \in {Evp!None, m}

(* Events are not forgotten, nor does a message change its identifier.     *)
EffectsGrow ==
    /\ ingested \subseteq ingested'
    /\ \A m \in Messages : stored[m] # Evp!None => stored'[m] = stored[m]

PipelineInvariant ==
    /\ Evp!TypeOK
    /\ \A r \in Records : RecordHolds(r)
    /\ \A i \in Invocations : BatchHolds(i)
    /\ BatchesApart /\ IngestedOnce

LEMMA PipelineNumbers ==
    ASSUME Evp!PipelineAssumption
    PROVE  /\ MaxReceive \in Nat /\ MaxReceive > 0 /\ Timeout \in Nat /\ Visibility \in Nat /\ Timeout < Visibility
           /\ EvpMaxFaults \in Nat /\ EvpMaxOps \in Nat
           /\ Evp!None \notin Messages /\ \A e \in Events : Id[e] # Evp!None
BY DEF Evp!PipelineAssumption, Evp!None

\* What was told of a record, and what let it pass, is told still.
LEMMA ThroughKept ==
    ASSUME Evp!PipelineAssumption, EffectsGrow, NEW r, evpRecord'[r].event = evpRecord[r].event, evpRecord'[r].known = evpRecord[r].known,
           NEW e \in Events, evpRecord[r].event = e
    PROVE  (Through(r) => Through(r)') /\ (Evp!Located(e) # {} => Evp!Located(e)' # {})
<1>1. Id[e] # Evp!None
    BY PipelineNumbers
<1>2. Through(r) => Through(r)'
    BY DEF Through, Evp!MaySkip, EffectsGrow
<1>3. ASSUME NEW m \in Evp!Located(e) PROVE m \in Evp!Located(e)'
    BY <1>1 DEF Evp!Located, EffectsGrow
<1> QED
    BY <1>2, <1>3

LEMMA EffectsRest == ASSUME UNCHANGED <<ingested, stored>> PROVE EffectsGrow
BY DEF EffectsGrow

LEMMA RecordTypes ==
    ASSUME Evp!TypeOK, NEW r \in Records
    PROVE  /\ evpRecord[r] \in Evp!Queued
           /\ evpRecord[r].place \in {Evp!None, "main", "dlq", "gone"}
           /\ evpRecord[r].receives \in Int /\ evpRecord[r].hidden \in Int
           /\ evpRecord[r].receives >= 0 /\ evpRecord[r].hidden >= 0
BY DEF Evp!TypeOK, Evp!Queued

LEMMA RunTypes ==
    ASSUME Evp!TypeOK, NEW i \in Invocations
    PROVE  /\ evpRun[i] \in Evp!Batches /\ evpRun[i].batch \subseteq Records /\ evpRun[i].todo \subseteq Records
           /\ evpRun[i].failed \subseteq Records /\ evpRun[i].left \in Int /\ evpRun[i].left >= 0
BY DEF Evp!TypeOK, Evp!Batches

LEMMA PipelineInit == ASSUME Evp!PipelineAssumption, Evp!Init PROVE PipelineInvariant
<1>1. Evp!Unused \in Evp!Queued /\ Evp!Resting \in Evp!Batches
    BY PipelineNumbers DEF Evp!Unused, Evp!Resting, Evp!Queued, Evp!Batches, Evp!None
<1>2. Evp!TypeOK
  <2>1. evpRecord \in [Records -> Evp!Queued] /\ evpRun \in [Invocations -> Evp!Batches]
    BY <1>1 DEF Evp!Init
  <2>2. /\ ingested \subseteq Events /\ applied \in [Events -> Nat] /\ standby \in BOOLEAN
        /\ stored \in [Messages -> {Id[e] : e \in Events} \cup {Evp!None}]
    BY DEF Evp!Init
  <2>3. evpFaults \in 0..EvpMaxFaults /\ evpOps \in 0..EvpMaxOps
    BY PipelineNumbers DEF Evp!Init
  <2> QED
    BY <2>1, <2>2, <2>3 DEF Evp!TypeOK
<1>3. \A r \in Records : RecordHolds(r)
    BY DEF Evp!Init, RecordHolds, Evp!Unused, Evp!None
<1>4. \A i \in Invocations : BatchHolds(i)
    BY DEF Evp!Init, BatchHolds, Evp!Resting
<1>5. BatchesApart /\ IngestedOnce
    BY DEF Evp!Init, BatchesApart, IngestedOnce, Evp!Resting
<1> QED
    BY <1>2, <1>3, <1>4, <1>5 DEF PipelineInvariant

\* What is visible nobody holds.
LEMMA VisibleIsFree ==
    ASSUME PipelineInvariant, NEW r \in Records, evpRecord[r].hidden = 0 \/ evpRecord[r].place # "main"
    PROVE  ~IsHeld(r)
<1> SUFFICES ASSUME NEW i \in Invocations, r \in evpRun[i].batch PROVE FALSE
    BY DEF IsHeld
<1>1. evpRecord[r].place = "main" /\ evpRecord[r].hidden > evpRun[i].left
    BY DEF PipelineInvariant, BatchHolds
<1>2. evpRecord[r].hidden \in Int /\ evpRun[i].left \in Int /\ evpRun[i].left >= 0
    BY RecordTypes, RunTypes DEF PipelineInvariant
<1> QED
    BY <1>1, <1>2

\* A record that nobody holds is published, buried or moved back.
LEMMA FreeStep ==
    ASSUME Evp!PipelineAssumption, PipelineInvariant, NEW r \in Records, ~IsHeld(r), NEW new \in Evp!Queued,
           evpRecord' = [evpRecord EXCEPT ![r] = new], evpOps' \in 0..EvpMaxOps,
           UNCHANGED <<evpRun, ingested, applied, stored, standby, evpFaults>>,
           new.place \in {"main", "dlq"}, new.event \in Events,
           new.place = "dlq" => new.receives = MaxReceive,
           new.known => Evp!Located(new.event) # {},
           Evp!Normalizes(new.event) => new.receives <= evpFaults
    PROVE  PipelineInvariant'
<1>1. /\ Evp!TypeOK /\ evpRecord \in [Records -> Evp!Queued] /\ (\A x \in Records : RecordHolds(x)) /\ (\A i \in Invocations : BatchHolds(i))
      /\ BatchesApart /\ IngestedOnce
    BY DEF PipelineInvariant, Evp!TypeOK
<1>2. evpRecord' \in [Records -> Evp!Queued] /\ evpRecord'[r] = new /\ \A x \in Records : x # r => evpRecord'[x] = evpRecord[x]
    BY <1>1
<1>3. Evp!TypeOK'
    BY <1>1, <1>2 DEF Evp!TypeOK
<1>4. ASSUME NEW x \in Records PROVE RecordHolds(x)'
  <2>1. IsHeld(x)' = IsHeld(x)
    BY DEF IsHeld
  <2>2. CASE x = r
    BY <1>2, <2>1, <2>2 DEF RecordHolds, Evp!Normalizes, Evp!Located
  <2>3. CASE x # r
    BY <1>1, <1>2, <2>1, <2>3 DEF RecordHolds, Through, Evp!MaySkip, Evp!Located
  <2> QED
    BY <2>2, <2>3
<1>5. ASSUME NEW i \in Invocations PROVE BatchHolds(i)'
  <2>1. \A x \in evpRun[i].batch : x \in Records /\ x # r
    BY <1>1, RunTypes DEF IsHeld
  <2> QED
    BY <1>1, <1>2, <2>1 DEF BatchHolds, Through, Evp!MaySkip
<1>6. BatchesApart' /\ IngestedOnce'
    BY <1>1 DEF BatchesApart, IngestedOnce
<1> QED
    BY <1>3, <1>4, <1>5, <1>6 DEF PipelineInvariant

LEMMA Published ==
    ASSUME Evp!PipelineAssumption, PipelineInvariant, NEW e \in Events, NEW r \in Records, Evp!Publish(e, r)
    PROVE  PipelineInvariant'
<1> DEFINE told == Evp!Located(e) # {}
           mid == [Evp!Unused EXCEPT !.event = e]
           set == [mid EXCEPT !.place = "main"]
           new == [set EXCEPT !.known = told]
<1>0. told \in BOOLEAN
    OBVIOUS
<1>1. Evp!Unused \in Evp!Queued /\ Evp!Unused.receives = 0 /\ Evp!Unused.place = Evp!None
    BY PipelineNumbers DEF Evp!Unused, Evp!Queued
<1>2. mid \in Evp!Queued /\ mid.event = e /\ mid.receives = 0
    BY <1>1 DEF Evp!Queued
<1>3. evpRecord' = [evpRecord EXCEPT ![r] = new] /\ UNCHANGED <<evpRun, ingested, applied, stored, standby, evpFaults, evpOps>> /\ evpRecord[r] = Evp!Unused
    BY DEF Evp!Publish, Evp!effects
<1> HIDE DEF mid
<1>31. set \in Evp!Queued /\ set.event = e /\ set.receives = 0 /\ set.place = "main"
    BY <1>2 DEF Evp!Queued
<1> HIDE DEF set
<1>32. \A k \in BOOLEAN : /\ [set EXCEPT !.known = k] \in Evp!Queued /\ [set EXCEPT !.known = k].event = e
                           /\ [set EXCEPT !.known = k].receives = 0 /\ [set EXCEPT !.known = k].place = "main"
                           /\ [set EXCEPT !.known = k].known = k
    BY <1>31 DEF Evp!Queued
<1> HIDE DEF told
<1>4. new \in Evp!Queued /\ new.event = e /\ new.receives = 0 /\ new.place = "main" /\ new.known = told
    BY <1>0, <1>32
<1> HIDE DEF new
<1>41. new.known => Evp!Located(new.event) # {}
    BY <1>4 DEF told
<1>5. ~IsHeld(r)
    BY <1>1, <1>3, VisibleIsFree DEF Evp!None
<1>6. evpOps' \in 0..EvpMaxOps /\ 0 <= evpFaults
    BY <1>3 DEF PipelineInvariant, Evp!TypeOK
<1> QED
    BY <1>3, <1>4, <1>41, <1>5, <1>6, FreeStep

LEMMA Buried ==
    ASSUME Evp!PipelineAssumption, PipelineInvariant, NEW r \in Records, Evp!Bury(r)
    PROVE  PipelineInvariant'
<1> DEFINE new == [evpRecord[r] EXCEPT !.place = "dlq"]
<1>1. /\ evpRecord[r] \in Evp!Queued /\ evpRecord[r].place = "main" /\ evpRecord[r].receives = MaxReceive /\ ~IsHeld(r)
      /\ UNCHANGED <<evpRun, ingested, applied, stored, standby, evpFaults, evpOps>>
    BY RecordTypes, VisibleIsFree DEF Evp!Bury, Evp!effects, Evp!Visible, PipelineInvariant
<1>2. new \in Evp!Queued /\ new.place = "dlq" /\ new.event = evpRecord[r].event /\ new.receives = evpRecord[r].receives /\ new.known = evpRecord[r].known
    BY <1>1 DEF Evp!Queued
<1>3. evpRecord' = [evpRecord EXCEPT ![r] = new]
    BY DEF Evp!Bury, Evp!effects, PipelineInvariant, Evp!TypeOK
<1> HIDE DEF new
<1>4. /\ evpRecord[r].event \in Events /\ (Evp!Normalizes(evpRecord[r].event) => evpRecord[r].receives <= evpFaults)
      /\ evpRecord[r].known => Evp!Located(evpRecord[r].event) # {}
    BY <1>1 DEF PipelineInvariant, RecordHolds, Evp!None
<1>5. evpOps' \in 0..EvpMaxOps
    BY <1>1 DEF PipelineInvariant, Evp!TypeOK
<1> QED
    BY <1>1, <1>2, <1>3, <1>4, <1>5, FreeStep

LEMMA Redriven ==
    ASSUME Evp!PipelineAssumption, PipelineInvariant, NEW r \in Records, Evp!Redrive(r)
    PROVE  PipelineInvariant'
<1> DEFINE mid == [evpRecord[r] EXCEPT !.place = "main"]
           new == [mid EXCEPT !.receives = 0]
<1>1. /\ evpRecord[r] \in Evp!Queued /\ evpRecord[r].place = "dlq" /\ ~IsHeld(r) /\ evpOps < EvpMaxOps /\ evpOps' = evpOps + 1
      /\ UNCHANGED <<evpRun, ingested, applied, stored, standby, evpFaults>>
    BY RecordTypes, VisibleIsFree DEF Evp!Redrive, Evp!effects, PipelineInvariant
<1>2. mid \in Evp!Queued /\ mid.place = "main" /\ mid.event = evpRecord[r].event /\ mid.known = evpRecord[r].known
    BY <1>1 DEF Evp!Queued
<1>3. evpRecord' = [evpRecord EXCEPT ![r] = new]
    BY DEF Evp!Redrive, Evp!effects, PipelineInvariant, Evp!TypeOK
<1> HIDE DEF mid
<1>4. new \in Evp!Queued /\ new.place = "main" /\ new.event = evpRecord[r].event /\ new.receives = 0 /\ new.known = evpRecord[r].known
    BY <1>2, PipelineNumbers DEF Evp!Queued
<1> HIDE DEF new
<1>5. evpRecord[r].event \in Events /\ (evpRecord[r].known => Evp!Located(evpRecord[r].event) # {})
    BY <1>1 DEF PipelineInvariant, RecordHolds, Evp!None
<1>6. evpOps' \in 0..EvpMaxOps /\ 0 <= evpFaults
    BY <1>1, PipelineNumbers DEF PipelineInvariant, Evp!TypeOK
<1> QED
    BY <1>1, <1>3, <1>4, <1>5, <1>6, FreeStep

\* A record as its reception leaves it.
LEMMA ReceivedRecord ==
    ASSUME Evp!PipelineAssumption, NEW x \in Evp!Queued, x.receives < MaxReceive
    PROVE  /\ [x EXCEPT !.receives = @ + 1, !.hidden = Evp!HiddenFor] \in Evp!Queued
           /\ [x EXCEPT !.receives = @ + 1, !.hidden = Evp!HiddenFor].event = x.event
           /\ [x EXCEPT !.receives = @ + 1, !.hidden = Evp!HiddenFor].place = x.place
           /\ [x EXCEPT !.receives = @ + 1, !.hidden = Evp!HiddenFor].known = x.known
           /\ [x EXCEPT !.receives = @ + 1, !.hidden = Evp!HiddenFor].receives = x.receives + 1
           /\ [x EXCEPT !.receives = @ + 1, !.hidden = Evp!HiddenFor].hidden = Visibility
<1> DEFINE more == x.receives + 1
           mid == [x EXCEPT !.receives = more]
<1>1. more \in 0..MaxReceive /\ Visibility \in 0..Visibility
    BY PipelineNumbers DEF Evp!Queued
<1> HIDE DEF more
<1>2. mid \in Evp!Queued /\ mid.receives = more /\ mid.event = x.event /\ mid.place = x.place /\ mid.known = x.known
    BY <1>1 DEF Evp!Queued
<1>3. [x EXCEPT !.receives = @ + 1, !.hidden = Evp!HiddenFor] = [mid EXCEPT !.hidden = Visibility]
    BY DEF Evp!HiddenFor, more, Evp!Queued
<1> HIDE DEF mid
<1>4. /\ [mid EXCEPT !.hidden = Visibility] \in Evp!Queued /\ [mid EXCEPT !.hidden = Visibility].hidden = Visibility
      /\ [mid EXCEPT !.hidden = Visibility].event = mid.event /\ [mid EXCEPT !.hidden = Visibility].place = mid.place
      /\ [mid EXCEPT !.hidden = Visibility].receives = mid.receives /\ [mid EXCEPT !.hidden = Visibility].known = mid.known
    BY <1>1, <1>2 DEF Evp!Queued
<1> QED
    BY <1>2, <1>3, <1>4 DEF more

LEMMA Received ==
    ASSUME Evp!PipelineAssumption, PipelineInvariant, NEW i \in Invocations, NEW B \in SUBSET Records, Evp!Receive(i, B)
    PROVE  PipelineInvariant'
<1>1. /\ ~Evp!Running(i) /\ (\A r \in B : Evp!Visible(r) /\ evpRecord[r].receives < MaxReceive)
      /\ UNCHANGED <<ingested, applied, stored, standby, evpFaults, evpOps>>
      /\ evpRecord' = [r \in Records |-> IF r \in B THEN [evpRecord[r] EXCEPT !.receives = @ + 1, !.hidden = Evp!HiddenFor]
                                      ELSE evpRecord[r]]
      /\ evpRun' = [evpRun EXCEPT ![i] = [batch |-> B, todo |-> B, failed |-> {}, left |-> Timeout]]
    BY DEF Evp!Receive, Evp!effects
<1>2. /\ Evp!TypeOK /\ (\A x \in Records : RecordHolds(x)) /\ (\A j \in Invocations : BatchHolds(j)) /\ BatchesApart /\ IngestedOnce
    BY DEF PipelineInvariant
<1>3. ASSUME NEW r \in B
      PROVE  /\ evpRecord'[r] \in Evp!Queued /\ evpRecord'[r].event = evpRecord[r].event /\ evpRecord'[r].place = "main"
             /\ evpRecord[r].place = "main" /\ evpRecord'[r].receives = evpRecord[r].receives + 1 /\ evpRecord'[r].hidden = Visibility
             /\ evpRecord'[r].known = evpRecord[r].known
             /\ ~IsHeld(r)
  <2>1. r \in Records /\ evpRecord[r] \in Evp!Queued /\ evpRecord[r].receives < MaxReceive /\ evpRecord[r].place = "main" /\ evpRecord[r].hidden = 0
    BY <1>1, <1>2, RecordTypes DEF Evp!Visible
  <2>2. evpRecord'[r] = [evpRecord[r] EXCEPT !.receives = @ + 1, !.hidden = Evp!HiddenFor]
    BY <1>1, <2>1
  <2> QED
    BY <2>1, <2>2, ReceivedRecord, VisibleIsFree
<1>4. \A r \in Records : r \notin B => evpRecord'[r] = evpRecord[r]
    BY <1>1
<1>5. evpRecord' \in [Records -> Evp!Queued]
    BY <1>1, <1>2, <1>3, <1>4 DEF Evp!TypeOK
<1>6. /\ evpRun' \in [Invocations -> Evp!Batches] /\ evpRun'[i].batch = B /\ evpRun'[i].todo = B /\ evpRun'[i].failed = {}
      /\ evpRun'[i].left = Timeout /\ \A j \in Invocations : j # i => evpRun'[j] = evpRun[j]
  <2> DEFINE new == [batch |-> B, todo |-> B, failed |-> {}, left |-> Timeout]
  <2>1. new \in Evp!Batches
    BY PipelineNumbers DEF Evp!Batches
  <2>2. evpRun' \in [Invocations -> Evp!Batches] /\ evpRun'[i] = new /\ \A j \in Invocations : j # i => evpRun'[j] = evpRun[j]
    BY <1>1, <1>2, <2>1 DEF Evp!TypeOK
  <2> QED
    BY <2>2
<1>7. Evp!TypeOK'
    BY <1>1, <1>2, <1>5, <1>6 DEF Evp!TypeOK
<1>8. evpRun[i].batch = {}
    BY <1>1 DEF Evp!Running
<1>9. \A r \in Records : IsHeld(r)' <=> (IsHeld(r) \/ r \in B)
    BY <1>6, <1>8 DEF IsHeld
<1>10. ASSUME NEW r \in Records PROVE RecordHolds(r)'
  <2>1. CASE r \in B
    <3>1. /\ evpRecord'[r].event = evpRecord[r].event /\ evpRecord'[r].place = "main" /\ evpRecord[r].place = "main"
          /\ evpRecord'[r].known = evpRecord[r].known /\ IsHeld(r)'
      BY <1>3, <1>9, <2>1
    <3>2. evpRecord[r].event \in Events /\ (evpRecord[r].known => Evp!Located(evpRecord[r].event) # {})
      BY <1>2, <3>1 DEF RecordHolds, Evp!None
    <3>3. PICK e \in Events : e = evpRecord[r].event
      BY <3>2
    <3>4. (Evp!Located(e) # {} => Evp!Located(e)' # {}) /\ evpRecord'[r].event = e
      BY <1>1, <3>1, <3>3, EffectsRest, ThroughKept
    <3>5. evpRecord'[r].known => Evp!Located(evpRecord[r].event)' # {}
      BY <3>1, <3>2, <3>3, <3>4
    <3> QED
      BY <3>1, <3>2, <3>5 DEF RecordHolds, Evp!None
  <2>2. CASE r \notin B
    BY <1>1, <1>2, <1>4, <1>9, <2>2 DEF RecordHolds, Evp!Normalizes, Through, Evp!MaySkip, Evp!Located
  <2> QED
    BY <2>1, <2>2
<1>11. ASSUME NEW j \in Invocations PROVE BatchHolds(j)'
  <2>1. CASE j = i
    <3>1. ASSUME NEW r \in B, Evp!Normalizes(evpRecord[r].event) PROVE evpRecord'[r].receives <= evpFaults + 1
      <4>1. evpRecord[r].receives <= evpFaults /\ evpRecord'[r].receives = evpRecord[r].receives + 1
        BY <1>2, <1>3, <3>1 DEF RecordHolds
      <4>2. evpRecord[r].receives \in Int /\ evpFaults \in Int
        BY <1>2, RecordTypes DEF Evp!TypeOK
      <4> QED
        BY <4>1, <4>2
    <3> QED
        BY <1>1, <1>3, <1>6, <2>1, <3>1, PipelineNumbers DEF BatchHolds, Evp!Normalizes, Through, Evp!MaySkip
  <2>2. CASE j # i
    <3>1. \A r \in evpRun[j].batch : r \in Records /\ r \notin B
        BY <1>2, <1>3, RunTypes DEF IsHeld
    <3>2. \A r \in evpRun[j].batch : evpRecord'[r] = evpRecord[r]
        BY <1>4, <3>1
    <3>3. ASSUME NEW r \in evpRun[j].batch PROVE Through(r) => Through(r)'
      <4>1. r \in Records /\ evpRecord[r].event \in Events
        BY <1>2, <3>1 DEF BatchHolds, RecordHolds, Evp!None
      <4> QED
        BY <1>1, <3>2, <4>1, EffectsRest, ThroughKept
    <3>4. evpRun'[j] = evpRun[j] /\ evpFaults' = evpFaults /\ BatchHolds(j)
        BY <1>1, <1>2, <1>6, <2>2
    <3> QED
        BY <3>2, <3>3, <3>4 DEF BatchHolds, Evp!Normalizes
  <2> QED
    BY <2>1, <2>2
<1>12. BatchesApart'
  <2>1. \A j \in Invocations : evpRun[j].batch \cap B = {}
    BY <1>3 DEF IsHeld
  <2> QED
    BY <1>2, <1>6, <2>1 DEF BatchesApart
<1> QED
    BY <1>1, <1>2, <1>7, <1>10, <1>11, <1>12 DEF PipelineInvariant, IngestedOnce

\* What a record owes does not grow when faults happen, events are ingested
\* or it is taken.
LEMMA RecordsKeep ==
    ASSUME Evp!PipelineAssumption, PipelineInvariant, NEW r \in Records, evpRecord'[r] = evpRecord[r],
           evpFaults \in Int, evpFaults' \in Int, evpFaults <= evpFaults', EffectsGrow,
           IsHeld(r) => IsHeld(r)' \/ evpRecord[r].receives <= evpFaults' \/ ~Evp!Normalizes(evpRecord[r].event)
    PROVE  RecordHolds(r)'
<1>1. RecordHolds(r) /\ evpRecord[r].receives \in Int
    BY RecordTypes DEF PipelineInvariant
<1>2. evpRecord[r].event \in Events => /\ Through(r) => Through(r)'
                                       /\ Evp!Located(evpRecord[r].event) # {} => Evp!Located(evpRecord[r].event)' # {}
    BY ThroughKept
<1> QED
    BY <1>1, <1>2 DEF RecordHolds, Evp!Normalizes, Evp!None

LEMMA HandleKeeps ==
    ASSUME Evp!PipelineAssumption, PipelineInvariant, NEW i \in Invocations, NEW r \in Records, r \in evpRun[i].todo,
           NEW failed \in SUBSET {r},
           evpRun' = [evpRun EXCEPT ![i].todo = @ \ {r}, ![i].failed = @ \cup failed],
           UNCHANGED <<evpRecord, standby, evpOps>>,
           evpFaults' \in 0..EvpMaxFaults, evpFaults <= evpFaults', IngestedOnce', applied' \in [Events -> Nat],
           EffectsGrow, ingested' \subseteq Events, stored' \in [Messages -> {Id[e] : e \in Events} \cup {Evp!None}],
           r \notin failed => Through(r)',
           r \in failed /\ Evp!Normalizes(evpRecord[r].event) => evpFaults' = evpFaults + 1
    PROVE  PipelineInvariant'
<1>1. /\ Evp!TypeOK /\ (\A x \in Records : RecordHolds(x)) /\ (\A j \in Invocations : BatchHolds(j)) /\ BatchesApart /\ IngestedOnce
    BY DEF PipelineInvariant
<1>2. evpFaults \in Int /\ evpFaults' \in Int
    BY <1>1 DEF Evp!TypeOK
<1> DEFINE mid == [evpRun[i] EXCEPT !.todo = @ \ {r}]
           new == [mid EXCEPT !.failed = @ \cup failed]
<1>3. /\ mid \in Evp!Batches /\ mid.batch = evpRun[i].batch /\ mid.todo = evpRun[i].todo \ {r} /\ mid.failed = evpRun[i].failed
      /\ mid.left = evpRun[i].left
    BY <1>1, RunTypes DEF Evp!Batches
<1>4. evpRun' = [evpRun EXCEPT ![i] = new]
    BY <1>1 DEF Evp!TypeOK, Evp!Batches
<1> HIDE DEF mid
<1>5. /\ new \in Evp!Batches /\ new.batch = evpRun[i].batch /\ new.todo = evpRun[i].todo \ {r}
      /\ new.failed = evpRun[i].failed \cup failed /\ new.left = evpRun[i].left
    BY <1>3 DEF Evp!Batches
<1> HIDE DEF new
<1>6. evpRun' \in [Invocations -> Evp!Batches] /\ evpRun'[i] = new /\ \A j \in Invocations : j # i => evpRun'[j] = evpRun[j]
    BY <1>1, <1>4, <1>5 DEF Evp!TypeOK
<1>7. Evp!TypeOK'
    BY <1>1, <1>6 DEF Evp!TypeOK
<1>8. \A j \in Invocations : evpRun'[j].batch = evpRun[j].batch
    BY <1>5, <1>6
<1>9. \A x \in Records : IsHeld(x)' <=> IsHeld(x)
    BY <1>8 DEF IsHeld
<1>10. ASSUME NEW x \in Records PROVE RecordHolds(x)'
    BY <1>2, <1>9, RecordsKeep
<1>11. ASSUME NEW j \in Invocations PROVE BatchHolds(j)'
  <2>1. \A x \in evpRun[j].batch : x \in Records /\ evpRecord[x].receives \in Int
    BY <1>1, RunTypes, RecordTypes
  <2>11. \A x \in evpRun[j].batch : Through(x) => Through(x)'
    <3>1. \A x \in evpRun[j].batch : x \in Records /\ evpRecord[x].event \in Events
      BY <1>1, <2>1 DEF BatchHolds, RecordHolds, Evp!None
    <3> QED
      BY <3>1, ThroughKept
  <2>2. CASE j # i
    BY <1>1, <1>2, <1>6, <2>1, <2>11, <2>2 DEF BatchHolds, Evp!Normalizes
  <2>3. CASE j = i
    <3>1. /\ evpRun[i].todo \subseteq evpRun[i].batch /\ evpRun[i].failed \subseteq evpRun[i].batch
          /\ evpRun[i].todo \cap evpRun[i].failed = {}
      BY <1>1 DEF BatchHolds
    <3>2. evpRun'[i].todo \subseteq evpRun'[i].batch /\ evpRun'[i].failed \subseteq evpRun'[i].batch /\ evpRun'[i].todo \cap evpRun'[i].failed = {}
      BY <1>5, <1>6, <3>1
    <3>3. ASSUME NEW x \in evpRun[i].batch
          PROVE  /\ evpRecord'[x].place = "main" /\ evpRecord'[x].hidden > evpRun'[i].left
                 /\ x \notin evpRun'[i].todo \cup evpRun'[i].failed => Through(x)'
                 /\ Evp!Normalizes(evpRecord[x].event) => /\ evpRecord'[x].receives <= evpFaults' + 1
                                                          /\ x \in evpRun'[i].failed => evpRecord'[x].receives <= evpFaults'
      <4>1. /\ evpRecord[x].place = "main" /\ evpRecord[x].hidden > evpRun[i].left
            /\ x \notin evpRun[i].todo \cup evpRun[i].failed => Through(x)
            /\ Evp!Normalizes(evpRecord[x].event) => /\ evpRecord[x].receives <= evpFaults + 1
                                                     /\ x \in evpRun[i].failed => evpRecord[x].receives <= evpFaults
        BY <1>1 DEF BatchHolds
      <4>2. evpRecord'[x] = evpRecord[x] /\ evpRecord[x].receives \in Int
        BY <2>1, <2>3, <3>3
      <4>3. x \notin evpRun'[i].todo \cup evpRun'[i].failed => Through(x)'
        <5>1. CASE x = r
          BY <1>5, <1>6, <5>1
        <5>2. CASE x # r
          BY <1>5, <1>6, <2>11, <2>3, <4>1, <5>2
        <5> QED
          BY <5>1, <5>2
      <4>4. ASSUME Evp!Normalizes(evpRecord[x].event)
            PROVE  /\ evpRecord[x].receives <= evpFaults' + 1
                   /\ x \in evpRun'[i].failed => evpRecord[x].receives <= evpFaults'
        <5>1. evpRecord[x].receives <= evpFaults + 1 /\ (x \in evpRun[i].failed => evpRecord[x].receives <= evpFaults)
          BY <4>1, <4>4
        <5>2. x \in evpRun'[i].failed => x \in evpRun[i].failed \/ (x = r /\ r \in failed)
          BY <1>5, <1>6
        <5>3. x = r /\ r \in failed => evpFaults' = evpFaults + 1
          BY <4>4
        <5> QED
          BY <1>2, <4>2, <5>1, <5>2, <5>3
      <4> QED
        BY <1>5, <1>6, <4>1, <4>2, <4>3, <4>4
    <3> QED
      BY <1>8, <2>3, <3>2, <3>3 DEF BatchHolds, Evp!Normalizes
  <2> QED
    BY <2>2, <2>3
<1>12. BatchesApart'
    BY <1>1, <1>8 DEF BatchesApart
<1> QED
    BY <1>7, <1>10, <1>11, <1>12 DEF PipelineInvariant

\* What the ingestion leaves: its effects, or a reason to have none.
LEMMA EventIngested ==
    ASSUME Evp!PipelineAssumption, Evp!TypeOK, IngestedOnce, NEW e \in Events, Evp!ingestProviderEvent(e)
    PROVE  /\ IngestedOnce' /\ applied' \in [Events -> Nat] /\ EffectsGrow /\ ingested' \subseteq Events
           /\ stored' \in [Messages -> {Id[x] : x \in Events} \cup {Evp!None}]
           /\ e \in ingested' \/ \A m \in Evp!Located(e) : stored'[m] \notin {Evp!None, Id[e]}
<1> DEFINE found == {m \in Evp!Located(e) : Evp!Matches(e, m)}
           Ids == {Id[x] : x \in Events} \cup {Evp!None}
<1>1. /\ stored \in [Messages -> Ids] /\ applied \in [Events -> Nat] /\ ingested \subseteq Events /\ Id[e] \in Ids
      /\ \A x \in Events : Id[x] # Evp!None
    BY PipelineNumbers DEF Evp!TypeOK
<1> HIDE DEF Ids
<1>2. CASE /\ Evp!Inserts(e) /\ ingested' = ingested \cup {e} /\ applied' = [applied EXCEPT ![e] = @ + 1]
           /\ \E m \in found : stored' = [stored EXCEPT ![m] = IF @ = Evp!None THEN Id[e] ELSE @]
  <2>1. PICK m \in found : stored' = [stored EXCEPT ![m] = IF @ = Evp!None THEN Id[e] ELSE @]
    BY <1>2
  <2>2. m \in Messages /\ stored[m] \in {Evp!None, Id[e]} /\ Tag[e] \in {Evp!None, m}
    BY <2>1 DEF Evp!Located, Evp!Matches
  <2>3. stored' = [stored EXCEPT ![m] = Id[e]]
    BY <1>1, <2>1, <2>2
  <2>4. /\ stored' \in [Messages -> Ids] /\ stored'[m] = Id[e]
        /\ \A x \in Messages : stored[x] # Evp!None => stored'[x] = stored[x]
    BY <1>1, <2>2, <2>3
  <2>5. EffectsGrow
    BY <1>2, <2>4 DEF EffectsGrow
  <2>6. ASSUME NEW x \in ingested' PROVE \E n \in Messages : stored'[n] = Id[x] /\ Tag[x] \in {Evp!None, n}
    <3>1. CASE x = e
      BY <2>2, <2>4, <3>1
    <3>2. CASE x # e
      <4>1. x \in ingested /\ Id[x] # Evp!None
        BY <1>1, <1>2, <3>2
      <4>2. PICK n \in Messages : stored[n] = Id[x] /\ Tag[x] \in {Evp!None, n}
        BY <4>1 DEF IngestedOnce
      <4> QED
        BY <2>4, <4>1, <4>2
    <3> QED
      BY <3>1, <3>2
  <2>7. applied' \in [Events -> Nat] /\ \A x \in Events : applied'[x] = IF x \in ingested' THEN 1 ELSE 0
    BY <1>1, <1>2 DEF IngestedOnce, Evp!Inserts
  <2>8. IngestedOnce' /\ ingested' \subseteq Events /\ e \in ingested'
    BY <1>1, <1>2, <2>6, <2>7 DEF IngestedOnce
  <2> QED
    BY <2>4, <2>5, <2>7, <2>8 DEF Ids
<1>3. CASE (~Evp!Inserts(e) \/ found = {}) /\ UNCHANGED Evp!effects
  <2>1. UNCHANGED <<ingested, applied, stored>>
    BY <1>3 DEF Evp!effects
  <2>2. IngestedOnce' /\ EffectsGrow
    BY <2>1, EffectsRest DEF IngestedOnce
  <2>3. e \in ingested' \/ \A m \in Evp!Located(e) : stored'[m] \notin {Evp!None, Id[e]}
    BY <1>3, <2>1 DEF Evp!Inserts, Evp!Matches
  <2> QED
    BY <1>1, <2>1, <2>2, <2>3 DEF Ids
<1> QED
    BY <1>2, <1>3 DEF Evp!ingestProviderEvent

LEMMA Handled ==
    ASSUME Evp!PipelineAssumption, PipelineInvariant, NEW i \in Invocations, NEW r \in Records, Evp!Handle(i, r)
    PROVE  PipelineInvariant'
<1> DEFINE e == evpRecord[r].event
           Done(failed) == evpRun' = [evpRun EXCEPT ![i].todo = @ \ {r}, ![i].failed = @ \cup failed]
<1>1. r \in evpRun[i].todo /\ UNCHANGED <<evpRecord, standby, evpOps>>
    BY DEF Evp!Handle
<1>2. Evp!TypeOK /\ IngestedOnce /\ BatchHolds(i) /\ RecordHolds(r)
    BY DEF PipelineInvariant
<1>3. e \in Events /\ (evpRecord[r].known => Evp!Located(e) # {})
    BY <1>1, <1>2 DEF BatchHolds, RecordHolds, Evp!None
<1>4. evpFaults \in 0..EvpMaxFaults /\ EvpMaxFaults \in Nat
    BY <1>2, PipelineNumbers DEF Evp!TypeOK
<1> DEFINE Good == /\ IngestedOnce' /\ applied' \in [Events -> Nat] /\ EffectsGrow /\ ingested' \subseteq Events
                   /\ stored' \in [Messages -> {Id[x] : x \in Events} \cup {Evp!None}]
<1>5. \/ ~Evp!Normalizes(e) /\ Done({r}) /\ UNCHANGED <<Evp!effects, evpFaults>>
      \/ Evp!Normalizes(e) /\ Evp!ingestProviderEvent(e) /\ Done({}) /\ UNCHANGED evpFaults
      \/ Evp!Normalizes(e) /\ Evp!ingestProviderEvent(e) /\ Done({r}) /\ Evp!Fault
      \/ Evp!Normalizes(e) /\ Done({r}) /\ Evp!Fault /\ UNCHANGED Evp!effects
    BY DEF Evp!Handle
<1>6. Evp!Fault => evpFaults' \in 0..EvpMaxFaults /\ evpFaults' = evpFaults + 1 /\ evpFaults <= evpFaults'
    BY <1>4 DEF Evp!Fault
<1>7. UNCHANGED Evp!effects => Good
    BY <1>2, EffectsRest DEF IngestedOnce, Evp!TypeOK, Evp!effects
<1>8. ASSUME Evp!ingestProviderEvent(e) PROVE Good /\ Through(r)'
  <2>1. Good /\ (e \in ingested' \/ \A m \in Evp!Located(e) : stored'[m] \notin {Evp!None, Id[e]})
    BY <1>2, <1>3, <1>8, EventIngested
  <2>2. ASSUME evpRecord[r].known, \A m \in Evp!Located(e) : stored'[m] \notin {Evp!None, Id[e]}
        PROVE  Tag[e] \in Messages /\ stored'[Tag[e]] \notin {Evp!None, Id[e]}
    <3>1. PICK m \in Evp!Located(e) : stored'[m] \notin {Evp!None, Id[e]}
      BY <1>3, <2>2
    <3>2. Id[e] # Evp!None
      BY <1>3, PipelineNumbers
    <3>3. Tag[e] # Evp!None
      BY <2>1, <3>1, <3>2 DEF Evp!Located, EffectsGrow
    <3> QED
      BY <3>1, <3>3 DEF Evp!Located
  <2>3. Through(r)'
    BY <1>1, <2>1, <2>2 DEF Through, Evp!MaySkip
  <2> QED
    BY <2>1, <2>3
<1>9. UNCHANGED evpFaults => evpFaults' \in 0..EvpMaxFaults /\ evpFaults <= evpFaults'
    BY <1>4
<1>10. {} \in SUBSET {r} /\ {r} \in SUBSET {r} /\ r \in {r} /\ r \notin {}
    OBVIOUS
<1>11. CASE ~Evp!Normalizes(e) /\ Done({r}) /\ UNCHANGED <<Evp!effects, evpFaults>>
    BY <1>1, <1>7, <1>9, <1>10, <1>11, HandleKeeps
<1>12. CASE Evp!Normalizes(e) /\ Evp!ingestProviderEvent(e) /\ Done({}) /\ UNCHANGED evpFaults
    BY <1>1, <1>8, <1>9, <1>10, <1>12, HandleKeeps
<1>13. CASE Evp!Normalizes(e) /\ Evp!ingestProviderEvent(e) /\ Done({r}) /\ Evp!Fault
    BY <1>1, <1>6, <1>8, <1>10, <1>13, HandleKeeps
<1>14. CASE Evp!Normalizes(e) /\ Done({r}) /\ Evp!Fault /\ UNCHANGED Evp!effects
    BY <1>1, <1>6, <1>7, <1>10, <1>14, HandleKeeps
<1> QED
    BY <1>5, <1>11, <1>12, <1>13, <1>14

\* An invocation that is over holds nothing.
LEMMA Over ==
    ASSUME Evp!PipelineAssumption, PipelineInvariant, NEW i \in Invocations, evpRun' = [evpRun EXCEPT ![i] = Evp!Resting]
    PROVE  /\ evpRun' \in [Invocations -> Evp!Batches] /\ evpRun'[i].batch = {} /\ evpRun'[i].todo = {} /\ evpRun'[i].failed = {}
           /\ \A j \in Invocations : j # i => evpRun'[j] = evpRun[j]
           /\ BatchesApart'
           /\ \A r \in Records : IsHeld(r)' \/ r \in evpRun[i].batch <=> IsHeld(r)
           /\ \A r \in evpRun[i].batch : r \in Records /\ ~IsHeld(r)'
<1>1. Evp!Resting \in Evp!Batches /\ Evp!Resting.batch = {} /\ Evp!Resting.todo = {} /\ Evp!Resting.failed = {}
    BY PipelineNumbers DEF Evp!Resting, Evp!Batches
<1>2. Evp!TypeOK /\ BatchesApart
    BY DEF PipelineInvariant
<1>3. evpRun' \in [Invocations -> Evp!Batches] /\ evpRun'[i] = Evp!Resting /\ \A j \in Invocations : j # i => evpRun'[j] = evpRun[j]
    BY <1>1, <1>2 DEF Evp!TypeOK
<1>4. \A j \in Invocations : j # i => evpRun[j].batch \cap evpRun[i].batch = {}
    BY <1>2 DEF BatchesApart
<1>5. BatchesApart'
    BY <1>1, <1>2, <1>3 DEF BatchesApart
<1>6. \A r \in Records : IsHeld(r)' \/ r \in evpRun[i].batch <=> IsHeld(r)
    BY <1>1, <1>3 DEF IsHeld
<1>7. \A r \in evpRun[i].batch : r \in Records /\ ~IsHeld(r)'
    BY <1>1, <1>2, <1>3, <1>4, RunTypes DEF IsHeld
<1> QED
    BY <1>1, <1>3, <1>5, <1>6, <1>7

LEMMA Responded ==
    ASSUME Evp!PipelineAssumption, PipelineInvariant, NEW i \in Invocations, Evp!Respond(i)
    PROVE  PipelineInvariant'
<1>1. /\ evpRun[i].todo = {} /\ evpRun' = [evpRun EXCEPT ![i] = Evp!Resting] /\ UNCHANGED <<ingested, applied, stored, standby, evpFaults, evpOps>>
      /\ evpRecord' = [r \in Records |-> IF r \in evpRun[i].batch \ evpRun[i].failed THEN [evpRecord[r] EXCEPT !.place = "gone"]
                                      ELSE evpRecord[r]]
    BY DEF Evp!Respond, Evp!effects, Evp!Returned
<1>2. /\ Evp!TypeOK /\ (\A x \in Records : RecordHolds(x)) /\ (\A j \in Invocations : BatchHolds(j)) /\ BatchesApart /\ IngestedOnce
      /\ evpFaults \in Int
    BY DEF PipelineInvariant, Evp!TypeOK
<1>3. ASSUME NEW r \in Records, r \in evpRun[i].batch \ evpRun[i].failed
      PROVE  /\ evpRecord'[r] \in Evp!Queued /\ evpRecord'[r].place = "gone" /\ evpRecord'[r].event = evpRecord[r].event
             /\ Through(r) /\ Through(r)' /\ evpRecord[r].event \in Events /\ evpRecord'[r].known = evpRecord[r].known
  <2>1. evpRecord[r] \in Evp!Queued /\ evpRecord'[r] = [evpRecord[r] EXCEPT !.place = "gone"]
    BY <1>1, <1>2, <1>3, RecordTypes
  <2>2. evpRecord[r].place = "main" /\ Through(r)
    BY <1>1, <1>2, <1>3 DEF BatchHolds
  <2>3. evpRecord[r].event \in Events
    BY <1>2, <2>2 DEF RecordHolds, Evp!None
  <2>4. /\ evpRecord'[r] \in Evp!Queued /\ evpRecord'[r].place = "gone" /\ evpRecord'[r].event = evpRecord[r].event
        /\ evpRecord'[r].known = evpRecord[r].known
    BY <2>1 DEF Evp!Queued
  <2>5. EffectsGrow
    BY <1>1, EffectsRest
  <2> QED
    BY <2>2, <2>3, <2>4, <2>5, ThroughKept
<1>4. \A r \in Records : r \notin evpRun[i].batch \ evpRun[i].failed => evpRecord'[r] = evpRecord[r]
    BY <1>1
<1>5. evpRecord' \in [Records -> Evp!Queued]
    BY <1>1, <1>2, <1>3, <1>4, RecordTypes
<1>6. Evp!TypeOK'
    BY <1>1, <1>2, <1>5, Over DEF Evp!TypeOK
<1>7. ASSUME NEW r \in Records PROVE RecordHolds(r)'
  <2>1. CASE r \in evpRun[i].batch \ evpRun[i].failed
    BY <1>1, <1>2, <1>3, <2>1 DEF RecordHolds, Evp!Located
  <2>2. CASE r \notin evpRun[i].batch \ evpRun[i].failed
    <3>1. r \in evpRun[i].failed /\ Evp!Normalizes(evpRecord[r].event) => evpRecord[r].receives <= evpFaults
      BY <1>2 DEF BatchHolds
    <3>2. IsHeld(r) => IsHeld(r)' \/ evpRecord[r].receives <= evpFaults' \/ ~Evp!Normalizes(evpRecord[r].event)
      BY <1>1, <2>2, <3>1, Over
    <3>3. evpRecord'[r] = evpRecord[r] /\ evpFaults' \in Int /\ evpFaults <= evpFaults' /\ EffectsGrow
      BY <1>1, <1>2, <1>4, <2>2, EffectsRest
    <3> QED
      BY <1>2, <3>2, <3>3, RecordsKeep
  <2> QED
    BY <2>1, <2>2
<1>8. ASSUME NEW j \in Invocations PROVE BatchHolds(j)'
  <2>1. CASE j = i
    BY <1>1, <2>1, Over DEF BatchHolds
  <2>2. CASE j # i
    <3>1. \A r \in evpRun[j].batch : r \in Records /\ r \notin evpRun[i].batch
      BY <1>2, <2>2, RunTypes DEF BatchesApart
    <3> QED
      BY <1>1, <1>2, <1>4, <2>2, <3>1, Over DEF BatchHolds, Evp!Normalizes, Through, Evp!MaySkip
  <2> QED
    BY <2>1, <2>2
<1> QED
    BY <1>1, <1>2, <1>6, <1>7, <1>8, Over DEF PipelineInvariant, IngestedOnce

LEMMA Died ==
    ASSUME Evp!PipelineAssumption, PipelineInvariant, NEW i \in Invocations, Evp!Die(i)
    PROVE  PipelineInvariant'
<1>1. /\ evpRun' = [evpRun EXCEPT ![i] = Evp!Resting] /\ UNCHANGED <<evpRecord, ingested, applied, stored, standby, evpOps>>
      /\ evpFaults < EvpMaxFaults /\ evpFaults' = evpFaults + 1
    BY DEF Evp!Die, Evp!effects, Evp!Fault
<1>2. /\ Evp!TypeOK /\ (\A x \in Records : RecordHolds(x)) /\ (\A j \in Invocations : BatchHolds(j)) /\ BatchesApart /\ IngestedOnce
      /\ evpFaults \in 0..EvpMaxFaults /\ EvpMaxFaults \in Nat
    BY PipelineNumbers DEF PipelineInvariant, Evp!TypeOK
<1>3. evpFaults' \in 0..EvpMaxFaults /\ evpFaults <= evpFaults' /\ evpFaults \in Int /\ evpFaults' \in Int
    BY <1>1, <1>2
<1>4. Evp!TypeOK'
    BY <1>1, <1>2, <1>3, Over DEF Evp!TypeOK
<1>5. ASSUME NEW r \in Records PROVE RecordHolds(r)'
  <2>1. r \in evpRun[i].batch /\ Evp!Normalizes(evpRecord[r].event) => evpRecord[r].receives <= evpFaults + 1
    BY <1>2 DEF BatchHolds
  <2>2. IsHeld(r) => IsHeld(r)' \/ evpRecord[r].receives <= evpFaults' \/ ~Evp!Normalizes(evpRecord[r].event)
    BY <1>1, <2>1, Over
  <2> QED
    BY <1>1, <1>3, <2>2, RecordsKeep, EffectsRest
<1>6. ASSUME NEW j \in Invocations PROVE BatchHolds(j)'
  <2>1. CASE j = i
    BY <1>1, <2>1, Over DEF BatchHolds
  <2>2. CASE j # i
    <3>1. \A r \in evpRun[j].batch : r \in Records /\ evpRecord[r].receives \in Int
      BY <1>2, RunTypes, RecordTypes
    <3> QED
      BY <1>1, <1>2, <1>3, <2>2, <3>1, Over DEF BatchHolds, Evp!Normalizes, Through, Evp!MaySkip
  <2> QED
    BY <2>1, <2>2
<1> QED
    BY <1>1, <1>2, <1>4, <1>5, <1>6, Over DEF PipelineInvariant, IngestedOnce

LEMMA Ticked ==
    ASSUME Evp!PipelineAssumption, PipelineInvariant, Evp!Tick
    PROVE  PipelineInvariant'
<1>1. /\ \A i \in Invocations : Evp!Running(i) => evpRun[i].left > 0
      /\ evpRecord' = [r \in Records |-> IF evpRecord[r].hidden = 0 THEN evpRecord[r] ELSE [evpRecord[r] EXCEPT !.hidden = @ - 1]]
      /\ evpRun' = [i \in Invocations |-> IF Evp!Running(i) THEN [evpRun[i] EXCEPT !.left = @ - 1] ELSE evpRun[i]]
      /\ UNCHANGED <<ingested, applied, stored, standby, evpFaults, evpOps>>
    BY DEF Evp!Tick, Evp!effects
<1>2. /\ Evp!TypeOK /\ (\A x \in Records : RecordHolds(x)) /\ (\A j \in Invocations : BatchHolds(j)) /\ BatchesApart /\ IngestedOnce
    BY DEF PipelineInvariant
<1>3. ASSUME NEW r \in Records
      PROVE  /\ evpRecord'[r] \in Evp!Queued /\ evpRecord'[r].event = evpRecord[r].event /\ evpRecord'[r].place = evpRecord[r].place
             /\ evpRecord'[r].receives = evpRecord[r].receives /\ evpRecord'[r].known = evpRecord[r].known
             /\ evpRecord[r].hidden > 0 => evpRecord'[r].hidden = evpRecord[r].hidden - 1
  <2>1. evpRecord[r] \in Evp!Queued /\ evpRecord[r].hidden \in 0..Visibility /\ Visibility \in Nat
    BY <1>2, RecordTypes, PipelineNumbers DEF Evp!Queued
  <2>2. CASE evpRecord[r].hidden = 0
    BY <1>1, <2>1, <2>2
  <2>3. CASE evpRecord[r].hidden # 0
    <3> DEFINE less == evpRecord[r].hidden - 1
    <3>1. less \in 0..Visibility
      BY <2>1, <2>3
    <3>2. evpRecord'[r] = [evpRecord[r] EXCEPT !.hidden = less]
      BY <1>1, <2>1, <2>3 DEF Evp!Queued
    <3> HIDE DEF less
    <3>3. /\ evpRecord'[r] \in Evp!Queued /\ evpRecord'[r].event = evpRecord[r].event /\ evpRecord'[r].place = evpRecord[r].place
          /\ evpRecord'[r].receives = evpRecord[r].receives /\ evpRecord'[r].hidden = less /\ evpRecord'[r].known = evpRecord[r].known
      BY <2>1, <3>1, <3>2 DEF Evp!Queued
    <3> QED
      BY <3>3 DEF less
  <2> QED
    BY <2>2, <2>3
<1>4. ASSUME NEW i \in Invocations
      PROVE  /\ evpRun'[i] \in Evp!Batches /\ evpRun'[i].batch = evpRun[i].batch /\ evpRun'[i].todo = evpRun[i].todo
             /\ evpRun'[i].failed = evpRun[i].failed
             /\ evpRun[i].batch # {} => evpRun'[i].left = evpRun[i].left - 1 /\ evpRun[i].left > 0
  <2>1. evpRun[i] \in Evp!Batches /\ evpRun[i].left \in 0..Timeout /\ Timeout \in Nat
    BY <1>2, RunTypes, PipelineNumbers DEF Evp!Batches
  <2>2. CASE ~Evp!Running(i)
    BY <1>1, <2>1, <2>2 DEF Evp!Running
  <2>3. CASE Evp!Running(i)
    <3> DEFINE less == evpRun[i].left - 1
    <3>1. less \in 0..Timeout /\ evpRun[i].left > 0
      BY <1>1, <2>1, <2>3
    <3>2. evpRun'[i] = [evpRun[i] EXCEPT !.left = less]
      BY <1>1, <2>1, <2>3 DEF Evp!Batches
    <3> HIDE DEF less
    <3>3. /\ evpRun'[i] \in Evp!Batches /\ evpRun'[i].batch = evpRun[i].batch /\ evpRun'[i].todo = evpRun[i].todo
          /\ evpRun'[i].failed = evpRun[i].failed /\ evpRun'[i].left = less
      BY <2>1, <3>1, <3>2 DEF Evp!Batches
    <3> QED
      BY <3>1, <3>3 DEF less
  <2> QED
    BY <2>2, <2>3
<1>5. evpRecord' \in [Records -> Evp!Queued] /\ evpRun' \in [Invocations -> Evp!Batches]
    BY <1>1, <1>3, <1>4
<1>6. Evp!TypeOK'
    BY <1>1, <1>2, <1>5 DEF Evp!TypeOK
<1>7. \A r \in Records : IsHeld(r)' <=> IsHeld(r)
    BY <1>4 DEF IsHeld
<1>8. ASSUME NEW r \in Records PROVE RecordHolds(r)'
    BY <1>1, <1>2, <1>3, <1>7 DEF RecordHolds, Evp!Normalizes, Through, Evp!MaySkip, Evp!Located
<1>9. ASSUME NEW i \in Invocations PROVE BatchHolds(i)'
  <2>1. evpRun[i].todo \subseteq evpRun[i].batch /\ evpRun[i].failed \subseteq evpRun[i].batch /\ evpRun[i].todo \cap evpRun[i].failed = {}
    BY <1>2 DEF BatchHolds
  <2>2. ASSUME NEW r \in evpRun[i].batch
        PROVE  /\ evpRecord'[r].place = "main" /\ evpRecord'[r].hidden > evpRun'[i].left
               /\ r \notin evpRun[i].todo \cup evpRun[i].failed => Through(r)'
               /\ Evp!Normalizes(evpRecord'[r].event) => /\ evpRecord'[r].receives <= evpFaults + 1
                                                         /\ r \in evpRun[i].failed => evpRecord'[r].receives <= evpFaults
    <3>1. r \in Records /\ evpRecord[r].hidden \in Int /\ evpRun[i].left \in Int
      BY <1>2, RunTypes, RecordTypes
    <3>2. evpRecord[r].hidden > evpRun[i].left /\ evpRun[i].left > 0 /\ evpRun'[i].left = evpRun[i].left - 1
      BY <1>2, <1>4 DEF BatchHolds
    <3>3. evpRecord'[r].hidden = evpRecord[r].hidden - 1
      BY <1>3, <3>1, <3>2
    <3>4. evpRecord'[r].hidden > evpRun'[i].left
      BY <3>1, <3>2, <3>3
    <3> QED
      BY <1>1, <1>2, <1>3, <3>1, <3>4 DEF BatchHolds, Through, Evp!MaySkip
  <2> QED
    BY <1>1, <1>4, <2>1, <2>2 DEF BatchHolds, Evp!Normalizes
<1>10. BatchesApart'
    BY <1>2, <1>4 DEF BatchesApart
<1> QED
    BY <1>1, <1>2, <1>6, <1>8, <1>9, <1>10 DEF PipelineInvariant, IngestedOnce

LEMMA PipelineRests ==
    ASSUME Evp!PipelineAssumption, PipelineInvariant, UNCHANGED <<evpRecord, evpRun, ingested, applied, evpFaults>>,
           EffectsGrow, IngestedOnce', stored' \in [Messages -> {Id[e] : e \in Events} \cup {Evp!None}],
           standby' \in BOOLEAN, evpOps' \in 0..EvpMaxOps
    PROVE  PipelineInvariant'
<1>1. /\ Evp!TypeOK /\ (\A x \in Records : RecordHolds(x)) /\ (\A j \in Invocations : BatchHolds(j)) /\ BatchesApart /\ IngestedOnce
    BY DEF PipelineInvariant
<1>2. Evp!TypeOK' /\ BatchesApart'
    BY <1>1 DEF Evp!TypeOK, BatchesApart
<1>3. ASSUME NEW x \in Records PROVE RecordHolds(x)'
  <2>1. evpFaults \in Int /\ (IsHeld(x) => IsHeld(x)')
    BY <1>1 DEF Evp!TypeOK, IsHeld
  <2> QED
    BY <2>1, RecordsKeep
<1>4. ASSUME NEW j \in Invocations PROVE BatchHolds(j)'
  <2>1. \A x \in evpRun[j].batch : x \in Records /\ evpRecord[x].event \in Events
    BY <1>1, RunTypes DEF BatchHolds, RecordHolds, Evp!None
  <2>2. \A x \in evpRun[j].batch : Through(x) => Through(x)'
    BY <2>1, ThroughKept
  <2> QED
    BY <1>1, <2>2 DEF BatchHolds, Evp!Normalizes
<1> QED
    BY <1>2, <1>3, <1>4 DEF PipelineInvariant

LEMMA IdStored ==
    ASSUME Evp!PipelineAssumption, PipelineInvariant, NEW m \in Messages, Evp!StoreId(m)
    PROVE  PipelineInvariant'
<1>1. PICK e \in Events : stored' = [stored EXCEPT ![m] = Id[e]]
    BY DEF Evp!StoreId
<1>2. /\ Evp!TypeOK /\ IngestedOnce /\ stored[m] = Evp!None /\ UNCHANGED <<evpRecord, evpRun, ingested, applied, standby, evpFaults, evpOps>>
      /\ \A x \in Events : Id[x] # Evp!None
    BY PipelineNumbers DEF Evp!StoreId, PipelineInvariant
<1>3. /\ stored' \in [Messages -> {Id[x] : x \in Events} \cup {Evp!None}]
      /\ \A n \in Messages : stored[n] # Evp!None => stored'[n] = stored[n]
    BY <1>1, <1>2 DEF Evp!TypeOK
<1>4. EffectsGrow
    BY <1>2, <1>3 DEF EffectsGrow
<1>5. IngestedOnce'
    BY <1>2, <1>3 DEF IngestedOnce, Evp!TypeOK
<1>6. standby' \in BOOLEAN /\ evpOps' \in 0..EvpMaxOps
    BY <1>2 DEF Evp!TypeOK
<1> QED
    BY <1>2, <1>3, <1>4, <1>5, <1>6, PipelineRests

LEMMA PipelineNext == ASSUME Evp!PipelineAssumption, PipelineInvariant, [Evp!Next]_Evp!vars PROVE PipelineInvariant'
<1>1. /\ standby \in BOOLEAN /\ evpOps \in 0..EvpMaxOps /\ EvpMaxOps \in Nat /\ IngestedOnce
      /\ stored \in [Messages -> {Id[e] : e \in Events} \cup {Evp!None}]
    BY PipelineNumbers DEF PipelineInvariant, Evp!TypeOK
<1>2. UNCHANGED Evp!effects => EffectsGrow /\ IngestedOnce' /\ stored' \in [Messages -> {Id[e] : e \in Events} \cup {Evp!None}]
    BY <1>1, EffectsRest DEF Evp!effects, IngestedOnce
<1>3. CASE Evp!Deploy
  <2>1. standby' \in BOOLEAN /\ evpOps' \in 0..EvpMaxOps
    BY <1>1, <1>3 DEF Evp!Deploy
  <2> QED
    BY <1>2, <1>3, <2>1, PipelineRests DEF Evp!Deploy, Evp!effects
<1>4. CASE UNCHANGED Evp!vars
    BY <1>1, <1>2, <1>4, PipelineRests DEF Evp!vars, Evp!effects
<1> QED
    BY <1>3, <1>4, Published, Buried, Redriven, Received, Handled, Responded, Died, Ticked, IdStored DEF Evp!Next

\* However a record is repeated, times out, is buried and moved back, two
\* invocations never hold it together, the effects of an event are written
\* once, to a message of its identifier, what is gone has had its effects
\* unless its message could not be told, and it takes MaxReceive errors to
\* bury a record that can be read: the function is over before its
\* records are seen again, and email_events knows the event.
THEOREM EventsAreHandledOnce == Evp!PipelineAssumption => (Evp!Spec => [](Evp!TypeOK /\ Evp!HandledOnce /\ Evp!OnlyBadIsBuried))
<1> SUFFICES ASSUME Evp!PipelineAssumption PROVE Evp!Spec => [](Evp!TypeOK /\ Evp!HandledOnce /\ Evp!OnlyBadIsBuried)
    OBVIOUS
<1>1. Evp!Init => PipelineInvariant
    BY PipelineInit
<1>2. PipelineInvariant /\ [Evp!Next]_Evp!vars => PipelineInvariant'
    BY PipelineNext
<1>3. PipelineInvariant => Evp!TypeOK /\ Evp!HandledOnce /\ Evp!OnlyBadIsBuried
  <2> SUFFICES ASSUME PipelineInvariant PROVE Evp!TypeOK /\ Evp!HandledOnce /\ Evp!OnlyBadIsBuried
    OBVIOUS
  <2>1. Evp!TypeOK /\ BatchesApart /\ IngestedOnce /\ \A r \in Records : RecordHolds(r)
    BY DEF PipelineInvariant
  <2>2. Evp!HandledOnce
    BY <2>1 DEF Evp!HandledOnce, BatchesApart, IngestedOnce, RecordHolds, Through, Evp!None
  <2>3. Evp!OnlyBadIsBuried
    BY <2>1, VisibleIsFree DEF Evp!OnlyBadIsBuried, RecordHolds
  <2> QED
    BY <2>1, <2>2, <2>3
<1> QED
    BY <1>1, <1>2, <1>3, PTL DEF Evp!Spec
=============================================================================
