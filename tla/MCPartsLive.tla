---------------------------- MODULE MCPartsLive ----------------------------
(* Small instances of the modules that promise an end, under the fairness  *)
(* each of them states.  As in MCPartsSafe, the run explores one part      *)
(* after the other, and what is said of a part is guarded by its name, for *)
(* the variables mean something else in another.                           *)
EXTENDS Schema, Integers, Sequences

VARIABLES part, v1, v2, v3, v4, v5, v6, v7, v8, v9, v10, v11, v12, v13, v14, v15, v16

vars == <<part, v1, v2, v3, v4, v5, v6, v7, v8, v9, v10, v11, v12, v13, v14, v15, v16>>

(* The variables after the n-th, when a part has n.                        *)
After12 == <<v13, v14, v15, v16>>
After10 == <<v11, v12, After12>>
After9 == <<v10, After10>>
After8 == <<v9, After9>>
After7 == <<v8, After8>>
Off12 == v13 = 0 /\ v14 = 0 /\ v15 = 0 /\ v16 = 0
Off10 == v11 = 0 /\ v12 = 0 /\ Off12
Off9 == v10 = 0 /\ Off10
Off8 == v9 = 0 /\ Off9
Off7 == v8 = 0 /\ Off8

Whk == INSTANCE WebhookDelivery WITH
    Deliveries <- {"e1"}, Workers <- {"w1", "w2"}, Nobody <- "nobody",
    Dead <- "dead", MaxAttempts <- 3, RetryDelay <- <<2, 10>>, Lease <- 4,
    Timeout <- 2, Visibility <- 12, Skew <- 0, Toggling <- FALSE,
    MaxFaults <- 2,
    endpoint <- v1, state <- v2, attempt <- v3, due <- v4, claim <- v5,
    claimAge <- v6, queue <- v7, run <- v8, calls <- v9, faults <- v10
Evp == INSTANCE EventPipeline WITH
    Events <- {"good", "bare", "bad"}, Invalid <- {"bad"}, Messages <- {"m"},
    Tag <- [good |-> "m", bare |-> "none", bad |-> "m"],
    Id <- [good |-> "p", bare |-> "q", bad |-> "p"], Records <- {"x", "y"},
    Invocations <- {"i", "j"}, BatchSize <- 2, MaxReceive <- 2, Timeout <- 1,
    Visibility <- 2, MaxFaults <- 1, MaxOps <- 1,
    record <- v1, run <- v2, ingested <- v3, applied <- v4, stored <- v5,
    standby <- v6, faults <- v7, ops <- v8
Mem == INSTANCE Membership WITH
    People <- {"owner", "p"}, Owner <- "owner", Couriers <- {"c", "d"},
    Seats <- 2, MaxSends <- 2, MaxFaults <- 1,
    run <- v1, courier <- v2, invitation <- v3, live <- v4, members <- v5,
    accounts <- v6, bound <- v7, hook <- v8, approved <- v9, revived <- v10,
    sends <- v11, faults <- v12
Att == INSTANCE Attachments WITH
    Files <- {"f1"}, Typed <- {"f1"}, Scanners <- {"s1", "s2"},
    MaxVerdicts <- 1, MaxFaults <- 2,
    row <- v1, owned <- v2, object <- v3, window <- v4, expired <- v5,
    verdicts <- v6, scanner <- v7, message <- v8, purge <- v9, erased <- v10,
    condemned <- v11, faults <- v12
Ret == INSTANCE Retention WITH
    Tenants <- {"t", "u", "v"}, Poisoned <- {"u"}, Invocations <- {"i"},
    PurgeLimit <- 2, SweepLimit <- 1, MaxRows <- 2, MaxCuts <- 1,
    order <- v1, due <- v2, requested <- v3, remains <- v4, purging <- v5,
    sweeping <- v6, global <- v7, stage <- v8, cuts <- v9
Wsd == INSTANCE WorkspaceDeletion WITH
    Messages <- {"m1"}, Keys <- {"k1"}, Users <- {"u1"},
    Purgers <- {"p1", "p2"}, Pilot <- TRUE, LateEvents <- TRUE,
    Checkouts <- TRUE, MaxEvents <- 2, MaxFaults <- 1,
    workspace <- v1, gate <- v2, keys <- v3, owner <- v4, page <- v5,
    request <- v6, message <- v7, worker <- v8, handed <- v9, job <- v10,
    local <- v11, stripe <- v12, session <- v13, events <- v14, purger <- v15,
    faults <- v16
Ers == INSTANCE Erasure WITH
    MaxInserts <- 2, MaxDeletes <- 1,
    rows <- v1, cleared <- v2, role <- v3, place <- v4, late <- v5,
    inserts <- v6, deletes <- v7

ASSUME Assumptions ==
    /\ Whk!WebhookAssumption
    /\ Evp!PipelineAssumption
    /\ Mem!MembershipAssumption
    /\ Att!AttachmentsAssumption
    /\ Ret!RetentionAssumption
    /\ Wsd!DeletionAssumption
    /\ Ers!ErasureAssumption

-----------------------------------------------------------------------------
In(p) == part = p

Init ==
    \/ part = "webhook"     /\ Whk!Init /\ Off10
    \/ part = "events"      /\ Evp!Init /\ Off8
    \/ part = "members"     /\ Mem!Init /\ Off12
    \/ part = "attachments" /\ Att!Init /\ Off12
    \/ part = "retention"   /\ Ret!Init /\ Off9
    \/ part = "deletion"    /\ Wsd!Init
    \/ part = "erasure"     /\ Ers!Init /\ Off7

Next ==
    /\ UNCHANGED part
    /\ \/ part = "webhook"     /\ Whk!Next /\ UNCHANGED After10
       \/ part = "events"      /\ Evp!Next /\ UNCHANGED After8
       \/ part = "members"     /\ Mem!Next /\ UNCHANGED After12
       \/ part = "attachments" /\ Att!Next /\ UNCHANGED After12
       \/ part = "retention"   /\ Ret!Next /\ UNCHANGED After9
       \/ part = "deletion"    /\ Wsd!Next
       \/ part = "erasure"     /\ Ers!Next /\ UNCHANGED After7

(* The fairness of each part, on its own variables.                        *)
Clock              == In("webhook") /\ Whk!Tick
ReceiveDelivery(d) == In("webhook") /\ \E w \in {"w1", "w2"} : Whk!Receive(w, d)
Deliver(w)         == In("webhook") /\ Whk!Step(w)
PollEvents         == In("events") /\ Evp!Polls
EventClock         == In("events") /\ Evp!Tick
HandleEvents(i)    == In("events") /\ Evp!Works(i)
Reconcile          == In("members") /\ Mem!reconcilePendingOwnerInvitations
FinishSend(c)      == In("members") /\ (Mem!SendInvitation(c) \/ Mem!RecordDelivery(c))
CloseUpload(f)     == In("attachments") /\ Att!CloseWindow(f)
ExpireFile(f)      == In("attachments") /\ Att!Expire(f)
PurgeFiles         == In("attachments") /\ Att!Purge
RunRetention(i)    == In("retention") /\ Ret!Works(i)
ContinuePurge(p)   == In("deletion") /\ Wsd!Purge(p)
StartPurge(p)      == In("deletion") /\ Wsd!StartPurge(p)
EraseTables        == In("erasure") /\ Ers!purgeDeletedWorkspace

Fairness ==
    /\ WF_(Whk!vars)(Clock) /\ SF_(Whk!vars)(ReceiveDelivery("e1"))
    /\ \A w \in {"w1", "w2"} : WF_(Whk!vars)(Deliver(w))
    /\ WF_(Evp!vars)(PollEvents) /\ WF_(Evp!vars)(EventClock)
    /\ \A i \in {"i", "j"} : WF_(Evp!vars)(HandleEvents(i))
    /\ WF_(Mem!vars)(Reconcile) /\ \A c \in {"c", "d"} : WF_(Mem!vars)(FinishSend(c))
    /\ WF_(Att!vars)(CloseUpload("f1")) /\ WF_(Att!vars)(ExpireFile("f1")) /\ WF_(Att!vars)(PurgeFiles)
    /\ WF_(Ret!vars)(RunRetention("i"))
    /\ \A p \in {"p1", "p2"} : WF_(Wsd!vars)(StartPurge(p)) /\ WF_(Wsd!vars)(ContinuePurge(p))
    /\ WF_(Ers!vars)(EraseTables)

FairSpec == Init /\ [][Next]_vars /\ Fairness

-----------------------------------------------------------------------------
(* Every webhook delivery is accepted, or exhausts its attempts, whatever  *)
(* is killed or duplicated on the way; until then it has a message in the  *)
(* queue, or a worker.                                                     *)
EventuallySettled ==
    /\ [](In("webhook") => Whk!PendingIsPursued)
    /\ \A d \in {"e1"} : In("webhook") /\ Whk!Pending(d) ~> (In("webhook") => ~Whk!Pending(d))

(* A provider event that can be read, and whose message can be told when   *)
(* it comes, is applied, if its queue is consumed.                         *)
EventuallyIngested ==
    \A r \in {"x", "y"} : In("events") /\ Evp!Waiting(r) ~> (In("events") => Evp!Served(r))

(* An owner who accepted ends up bound to the workspace.                   *)
OwnerIsBound == <>[](In("members") => Mem!Bound)

(* The bytes of an attachment are gone after its date, unless the sender   *)
(* has deleted it before.                                                  *)
ErasedInTime ==
    In("attachments") /\ Att!Overdue("f1") ~> (In("attachments") => ~Att!Overdue("f1"))

(* One failing workspace does not keep the others' data beyond its date,   *)
(* nor their deletion from its end.                                        *)
SweptInTurn ==
    \A t \in {"t", "v"} : /\ <>(In("retention") => Ret!Swept(t))
                          /\ In("retention") /\ Ret!Requested(t) ~> (In("retention") => Ret!Finished(t))

(* A deletion that was accepted ends, and every statement of it can run.   *)
DeletedIsGone ==
    /\ In("deletion") /\ Wsd!Deleted ~> (In("deletion") => Wsd!Gone)
    /\ In("erasure") /\ Ers!Purging ~> (In("erasure") => Ers!Purged)
=============================================================================
