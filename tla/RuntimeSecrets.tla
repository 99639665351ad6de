--------------------------- MODULE RuntimeSecrets ---------------------------
(***************************************************************************)
(* Secrets of a worker process (workers/runtime-secrets.ts): concurrent    *)
(* callers ask for names that are not in the environment yet, share the    *)
(* load of a name that runs, and wait for all of theirs.  A load that      *)
(* fails, or whose first caller gives up, is forgotten.                    *)
(***************************************************************************)
EXTENDS Integers, FiniteSets

CONSTANTS
    Secrets,  \* parameter names
    Callers,  \* concurrent calls of a process
    MaxFaults \* bound: loads that fail

SecretsAssumption == MaxFaults \in Nat /\ "nobody" \notin Callers

VARIABLES
    env,     \* names in process.env
    loading, \* loadingByName: the caller that started the load, or nobody
    running, \* requests in flight, per name
    call,    \* what each caller asks for, waits for, and has got
    faults

vars == <<env, loading, running, call, faults>>

-----------------------------------------------------------------------------
Nobody == "nobody"
Idle   == [pc |-> "idle", asks |-> {}, waits |-> {}]

(* A name whose load is known is not loaded again.                         *)
Joined(n)    == loading[n] # Nobody

Missing(names) == names \ env

(* What a failed load leaves behind.                                       *)
Forgotten(n)    == Nobody

(* The callers that wait for n, after it failed: their call fails at once. *)
Failing(n) == [c \in Callers |-> IF n \in call[c].waits
                                 THEN [call[c] EXCEPT !.pc = "failed", !.waits = {}] ELSE call[c]]

-----------------------------------------------------------------------------
Init ==
    /\ env = {} /\ loading = [n \in Secrets |-> Nobody] /\ running = [n \in Secrets |-> 0]
    /\ call = [c \in Callers |-> Idle] /\ faults = 0

(* The names that are missing are loaded, or their load is joined; one     *)
(* that a failed load has kept fails this caller too.                      *)
loadRuntimeSecrets(c, names) ==
    /\ call[c].pc = "idle"
    /\ LET missing == Missing(names)
           dead    == {n \in missing : Joined(n) /\ running[n] = 0} IN
       /\ call' = [call EXCEPT ![c] = [asks |-> names, waits |-> IF dead = {} THEN missing ELSE {},
                      pc |-> IF dead # {} THEN "failed" ELSE IF missing = {} THEN "ok" ELSE "waiting"]]
       /\ loading' = [n \in Secrets |-> IF n \in missing /\ ~Joined(n) THEN c ELSE loading[n]]
       /\ running' = [n \in Secrets |-> IF n \in missing /\ ~Joined(n) THEN running[n] + 1 ELSE running[n]]
    /\ UNCHANGED <<env, faults>>

(* The parameter store answers: the name is set, whoever waits goes on.    *)
Loaded(n) ==
    /\ running[n] > 0
    /\ running' = [running EXCEPT ![n] = @ - 1]
    /\ env' = env \cup {n}
    /\ call' = [c \in Callers |-> IF n \in call[c].waits
         THEN [call[c] EXCEPT !.waits = @ \ {n}, !.pc = IF call[c].waits = {n} THEN "ok" ELSE @] ELSE call[c]]
    /\ UNCHANGED <<loading, faults>>

(* An invalid parameter, an error, or the signal of the first caller.      *)
Failed(n) ==
    /\ running[n] > 0 /\ faults < MaxFaults
    /\ faults' = faults + 1
    /\ running' = [running EXCEPT ![n] = @ - 1]
    /\ loading' = [loading EXCEPT ![n] = Forgotten(n)]
    /\ call' = Failing(n)
    /\ UNCHANGED env

Again(c) ==
    /\ call[c].pc \in {"ok", "failed"}
    /\ call' = [call EXCEPT ![c] = Idle]
    /\ UNCHANGED <<env, loading, running, faults>>

Next ==
    \/ \E c \in Callers : (\E names \in SUBSET Secrets : loadRuntimeSecrets(c, names)) \/ Again(c)
    \/ \E n \in Secrets : Loaded(n) \/ Failed(n)

Spec == Init /\ [][Next]_vars

-----------------------------------------------------------------------------
TypeOK ==
    /\ env \subseteq Secrets
    /\ loading \in [Secrets -> Callers \cup {Nobody}] /\ running \in [Secrets -> Nat]
    /\ call \in [Callers -> [pc : {"idle", "waiting", "ok", "failed"}, asks : SUBSET Secrets, waits : SUBSET Secrets]]
    /\ faults \in 0..MaxFaults

(* A call that returns has all its names; one that waits, waits only for   *)
(* loads that run; a name is requested once at a time; and a load that     *)
(* failed keeps no later call from loading the name again.                 *)
SecretsAreLoaded ==
    /\ \A c \in Callers : /\ call[c].pc = "ok" => call[c].asks \subseteq env
                          /\ call[c].pc = "waiting" => call[c].waits # {}
                          /\ \A n \in call[c].waits : running[n] = 1
    /\ \A n \in Secrets : running[n] <= 1 /\ (n \notin env /\ loading[n] # Nobody => running[n] = 1)
=============================================================================
