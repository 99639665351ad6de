----------------------------- MODULE Endpoints ------------------------------
(***************************************************************************)
(* One customer webhook endpoint in the hands of several administrators    *)
(* (webhooks/actions.ts): the switch toggles whatever state it finds, so   *)
(* it reads and writes under the row's lock; a new secret replaces the old *)
(* one; a test event is throttled by the audit trail, read before it is    *)
(* written, without a lock.  Nothing keeps an administrator to one request *)
(* at a time: what has state is the request, a server action.  Deliveries  *)
(* are WebhookDelivery's.                                                  *)
(***************************************************************************)
EXTENDS Integers, Sequences, FiniteSets

CONSTANTS
    Actions,  \* requests of administrators, several of them of one
    Interval, \* TEST_EVENT_INTERVAL_MS
    MaxTime,  \* bound: the clock
    MaxLog    \* bound: audited operations

EndpointsAssumption ==
    {Interval, MaxTime, MaxLog} \subseteq Nat /\ Interval > 0 /\ "nobody" \notin Actions

VARIABLES
    endpoint, \* webhook_endpoints: exists, enabled, and the number of its secret
    lock,     \* who holds the row's lock
    action,   \* what each request is doing, the state and how much of the trail it read
    known,    \* the secret each answered with last
    log,      \* audit_events, and how much of the trail each was decided on
    now

vars == <<endpoint, lock, action, known, log, now>>

-----------------------------------------------------------------------------
Nobody == "nobody"
Idle   == [pc |-> "idle", was |-> FALSE, seen |-> 0]
Switches == {"webhook.enabled", "webhook.disabled"}

(* select ... for update                                                   *)
Free    == lock = Nobody

Audit(what, seen) == Len(log) < MaxLog /\ log' = Append(log, [what |-> what, at |-> now, seen |-> seen])

(* No test of this endpoint, by anybody, in the last ten seconds.          *)
Recent(e)    == e.at > now - Interval
TooSoon      == \E i \in DOMAIN log : log[i].what = "webhook.tested" /\ Recent(log[i])

-----------------------------------------------------------------------------
Init ==
    /\ endpoint = [exists |-> FALSE, enabled |-> FALSE, secret |-> 0]
    /\ lock = Nobody /\ action = [a \in Actions |-> Idle] /\ known = [a \in Actions |-> 0]
    /\ log = <<>> /\ now = 0

Tick == now < MaxTime /\ now' = now + 1 /\ UNCHANGED <<endpoint, lock, action, known, log>>

(* The URL is validated; nothing is written if it is refused.              *)
createWebhook(a) ==
    /\ action[a] = Idle /\ log = <<>>
    /\ endpoint' = [exists |-> TRUE, enabled |-> TRUE, secret |-> 1]
    /\ known' = [known EXCEPT ![a] = 1]
    /\ Audit("webhook.created", Len(log))
    /\ UNCHANGED <<lock, action, now>>

(* toggleWebhookAction: lock and read, then write, audit and commit.       *)
LockToToggle(a) ==
    /\ action[a] = Idle /\ Free /\ endpoint.exists
    /\ lock' = a
    /\ action' = [action EXCEPT ![a] = [pc |-> "toggling", was |-> endpoint.enabled, seen |-> 0]]
    /\ UNCHANGED <<endpoint, known, log, now>>

toggleWebhook(a) ==
    /\ action[a].pc = "toggling"
    /\ endpoint' = [endpoint EXCEPT !.enabled = ~action[a].was]
    /\ Audit(IF action[a].was THEN "webhook.disabled" ELSE "webhook.enabled", Len(log))
    /\ lock' = Nobody /\ action' = [action EXCEPT ![a] = Idle]
    /\ UNCHANGED <<known, now>>

Rollback(a) ==
    /\ action[a].pc = "toggling"
    /\ lock' = Nobody /\ action' = [action EXCEPT ![a] = Idle]
    /\ UNCHANGED <<endpoint, known, log, now>>

(* A statement that writes the row waits for its lock.                     *)
rotateWebhookSecret(a) ==
    /\ action[a] = Idle /\ Free /\ endpoint.exists
    /\ endpoint' = [endpoint EXCEPT !.secret = @ + 1]
    /\ known' = [known EXCEPT ![a] = endpoint.secret + 1]
    /\ Audit("webhook.secret_rotated", Len(log))
    /\ UNCHANGED <<lock, action, now>>

deleteWebhook(a) ==
    /\ action[a] = Idle /\ Free /\ endpoint.exists
    /\ endpoint' = [endpoint EXCEPT !.exists = FALSE]
    /\ Audit("webhook.deleted", Len(log))
    /\ UNCHANGED <<lock, action, known, now>>

(* sendWebhookTestAction: the endpoint and the trail are read, no lock.    *)
ReadToTest(a) ==
    /\ action[a] = Idle /\ endpoint.exists
    /\ ~TooSoon
    /\ action' = [action EXCEPT ![a] = [pc |-> "testing", was |-> FALSE, seen |-> Len(log)]]
    /\ UNCHANGED <<endpoint, lock, known, log, now>>

sendWebhookTest(a) ==
    /\ action[a].pc = "testing"
    /\ Audit("webhook.tested", action[a].seen)
    /\ action' = [action EXCEPT ![a] = Idle]
    /\ UNCHANGED <<endpoint, lock, known, now>>

Next ==
    \/ Tick
    \/ \E a \in Actions : \/ createWebhook(a) \/ LockToToggle(a) \/ toggleWebhook(a) \/ Rollback(a)
                         \/ rotateWebhookSecret(a) \/ deleteWebhook(a) \/ ReadToTest(a) \/ sendWebhookTest(a)

Spec == Init /\ [][Next]_vars

-----------------------------------------------------------------------------
Operations == Switches \cup {"webhook.created", "webhook.secret_rotated", "webhook.deleted", "webhook.tested"}

TypeOK ==
    /\ endpoint \in [exists : BOOLEAN, enabled : BOOLEAN, secret : Nat]
    /\ lock \in Actions \cup {Nobody}
    /\ action \in [Actions -> [pc : {"idle", "toggling", "testing"}, was : BOOLEAN, seen : 0..MaxLog]]
    /\ known \in [Actions -> Nat]
    /\ log \in Seq([what : Operations, at : 0..MaxTime, seen : 0..MaxLog]) /\ Len(log) <= MaxLog
    /\ now \in 0..MaxTime

\* The switches among the first n operations.
Switched(n) == {i \in 1..n : log[i].what \in Switches}

(* However requests overlap, the trail tells what happened to the          *)
(* endpoint: it was switched off, on, off in turn, the last switch is its  *)
(* state, an answer named its secret, nothing but a late test follows its  *)
(* deletion; and two tests within the interval are of requests that        *)
(* overlapped, for none is sent that a test it could read forbids.         *)
TrailIsTrue ==
    /\ \A i \in DOMAIN log : log[i].what \in Switches =>
         log[i].what = IF Cardinality(Switched(i)) % 2 = 1 THEN "webhook.disabled" ELSE "webhook.enabled"
    /\ endpoint.exists => /\ endpoint.enabled <=> Cardinality(Switched(Len(log))) % 2 = 0
                          /\ \E a \in Actions : known[a] = endpoint.secret
    /\ \A i, j \in DOMAIN log : i < j =>
         /\ log[i].what = "webhook.deleted" => log[j].what = "webhook.tested"
         /\ log[i].what = "webhook.tested" /\ log[j].what = "webhook.tested" /\ i <= log[j].seen
              => log[j].at - log[i].at >= Interval
=============================================================================
