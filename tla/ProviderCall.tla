---------------------------- MODULE ProviderCall ----------------------------
(***************************************************************************)
(* The call by which the send worker hands one message to a provider       *)
(* (providers/postmark.ts, providers/ses.ts), and what the worker makes of *)
(* its answer: the queue delivers the job again only after an answer that  *)
(* proves that nothing was sent.  The providers have no idempotency key.   *)
(*                                                                         *)
(* Of an answer only what the adapters look at is kept.                    *)
(***************************************************************************)
EXTENDS Integers

CONSTANTS
    MaxTries \* bound: deliveries of the job by the queue

ProviderCallAssumption == MaxTries \in Nat \ {0}

VARIABLES
    provider, \* the binding's
    enabled,  \* is it switched on, with an account and a credential that match?
    cached,   \* has this process read the credential?
    status,   \* messages.status
    pc,       \* what the worker is doing
    answer,   \* what it has heard
    sent,     \* requests of this call
    taken,    \* messages the provider has taken: the truth
    tries

vars == <<provider, enabled, cached, status, pc, answer, sent, taken, tries>>

-----------------------------------------------------------------------------
(* Answers, and what the provider has done with the message.               *)
Taken     == {"ok", "ok, no id"}
NotTaken  == {"code", "throttled", "refused"}
Uncertain == {"none", "server error", "unreadable", "other"}
Answers(p) ==
    Taken \cup (IF p = "postmark" THEN {"code", "throttled", "refused", "none", "server error", "unreadable"}
                ELSE {"throttled", "refused", "none", "server error", "other"})

(* 2xx needs an identifier and no error code; 429 alone may be repeated.   *)
PostmarkKindBug(a) ==
    CASE a = "ok" -> "accepted" [] a \in {"throttled", "server error"} -> "transient"
      [] a \in {"refused", "code"} -> "definitive" [] OTHER -> "ambiguous"
PostmarkKind(a) ==
    CASE a = "ok"                  -> "accepted"
      [] a = "throttled"           -> "transient"
      [] a \in {"refused", "code"} -> "definitive"
      [] OTHER                     -> "ambiguous"

(* Exceptions by name: an unknown one proves nothing.                      *)
SesKind(a) ==
    CASE a = "ok"        -> "accepted"
      [] a = "throttled" -> "transient"
      [] a = "refused"   -> "definitive"
      [] OTHER           -> "ambiguous"

Kind == IF provider = "postmark" THEN PostmarkKind(answer) ELSE SesKind(answer)

(* The clients' own retries: none, where the default would be three.       *)
maxAttempts    == 1
Repeatable(a)  == a \in {"none", "server error", "throttled"}

At(x) == pc = x
Ends(s) == status' = s /\ pc' = "idle"

-----------------------------------------------------------------------------
Init ==
    /\ provider \in {"ses", "postmark"} /\ enabled \in BOOLEAN
    /\ cached = FALSE /\ status = "queued" /\ pc = "idle" /\ answer = "none"
    /\ sent = 0 /\ taken = 0 /\ tries = 0

(* The claim, and what is refused before anything is sent.                 *)
Call ==
    /\ At("idle") /\ status = "queued" /\ tries < MaxTries
    /\ tries' = tries + 1 /\ sent' = 0
    /\ \/ ~enabled /\ Ends("failed")
       \/ enabled /\ status' = "sending" /\ pc' = IF provider = "postmark" THEN "credential" ELSE "request"
    /\ UNCHANGED <<provider, enabled, cached, answer, taken>>

(* The credential is kept once read; a failure to read it is an error of   *)
(* no known kind, which the worker takes for an ambiguous one.             *)
getSecureParameter ==
    /\ At("credential")
    /\ \/ status' = status /\ pc' = "request" /\ cached' = TRUE
       \/ ~cached /\ Ends("unknown") /\ UNCHANGED cached
    /\ UNCHANGED <<provider, enabled, answer, sent, taken, tries>>

(* One request, answered, or not within fifteen seconds.                   *)
Request ==
    /\ At("request") /\ sent < maxAttempts
    /\ sent' = sent + 1
    /\ answer' \in Answers(provider)
    /\ \/ answer' \in Taken \cup Uncertain /\ taken' = taken + 1
       \/ answer' \in NotTaken \cup Uncertain /\ UNCHANGED taken
    /\ pc' = IF Repeatable(answer') /\ sent' < maxAttempts THEN "request" ELSE "answered"
    /\ UNCHANGED <<provider, enabled, cached, status, tries>>

(* Queued again, unknown for ever, failed with its reservation released,   *)
(* or accepted.                                                            *)
Settle ==
    /\ At("answered")
    /\ Ends(CASE Kind = "transient" -> "queued" [] Kind = "ambiguous" -> "unknown"
              [] Kind = "definitive" -> "failed" [] Kind = "accepted" -> "accepted")
    /\ UNCHANGED <<provider, enabled, cached, answer, sent, taken, tries>>

(* The invocation ends, and its cache with it.                             *)
Recycle ==
    /\ At("idle") /\ cached /\ cached' = FALSE
    /\ UNCHANGED <<provider, enabled, status, pc, answer, sent, taken, tries>>

Next == Call \/ getSecureParameter \/ Request \/ Settle \/ Recycle

Spec == Init /\ [][Next]_vars

-----------------------------------------------------------------------------
TypeOK ==
    /\ provider \in {"ses", "postmark"} /\ {enabled, cached} \subseteq BOOLEAN
    /\ status \in {"queued", "sending", "unknown", "failed", "accepted"}
    /\ pc \in {"idle", "credential", "request", "answered"}
    /\ answer \in Answers("ses") \cup Answers("postmark")
    /\ {sent, taken} \subseteq Nat /\ tries \in 0..MaxTries

(* Whatever a provider did with the message and whatever was heard of it,  *)
(* over any number of deliveries of the job: it is taken once at most, a   *)
(* message that is queued again, or failed and not billed, was not taken,  *)
(* and one that counts as accepted was.                                    *)
TakenOnce ==
    /\ taken <= 1
    /\ status \in {"queued", "failed"} => taken = 0
    /\ status = "accepted" => taken = 1
=============================================================================
