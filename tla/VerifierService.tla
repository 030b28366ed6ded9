---------------------------- MODULE VerifierService ----------------------------
(***************************************************************************)
(* services/product_verifier.py with services/cache.py: verify() called by *)
(* several worker threads on one service that has a repository.            *)
(*                                                                         *)
(* Threads interleave between the repository, the clock and the workflow.  *)
(* The repository is SQLite: get and save are atomic and survive a kill of *)
(* the process; a later process may have another CACHE_SCHEMA_VERSION.     *)
(* time.time() may be stepped; `now` is real time, for the properties.     *)
(* A workflow result is known by the run that produced it.                 *)
(***************************************************************************)
EXTENDS Integers

CONSTANTS
  Threads,            \* worker threads (asyncio.to_thread)
  Keys,               \* _cache_key values, one per normalised request
  SchemaVersions,     \* CACHE_SCHEMA_VERSION of the releases that are deployed
  TTL,                \* CachePolicy.ttl_seconds
  CacheFailures,      \* CachePolicy.cache_failures
  Faulty,             \* whether the repository may raise
  NoEntry,            \* no row for the key
  MaxTime,            \* bound: real time and the clock
  MaxRestarts,        \* bound: kills of the process
  MaxClockSteps       \* bound: adjustments of the wall clock

ASSUME ServiceAssumption ==
  /\ SchemaVersions # {} /\ Keys # {}
  /\ TTL \in Nat
  /\ CacheFailures \in BOOLEAN /\ Faulty \in BOOLEAN
  /\ MaxTime \in Nat /\ MaxRestarts \in Nat /\ MaxClockSteps \in Nat

Times == 0 .. MaxTime

Request == [key : Keys, force : BOOLEAN, valid : BOOLEAN]

(* CacheEntry.  key, made: the request and the stamping of the run whose     *)
(* result the payload is.  corrupt: _result_from_dict raises on it.          *)
Entry == [version : SchemaVersions, storedAt : Times, success : BOOLEAN,
          corrupt : BOOLEAN, key : Keys, made : Times]

ASSUME NoEntryAssumption == NoEntry \notin Entry

VARIABLES
  store,              \* the repository: a row per key
  deployed,           \* CACHE_SCHEMA_VERSION of the running process
  now,                \* real time
  clock,              \* what time.time() returns
  setBack,            \* by how much the clock has been set back altogether
  pc, request,        \* each thread's position and request
  got,                \* the entry it looked up, or is saving
  age,                \* cache_age_seconds of its answer
  answer,             \* how its last call ended
  restarts, clockSteps

vars == <<store, deployed, now, clock, setBack, pc, request, got, age,
          answer, restarts, clockSteps>>
worldVars  == <<deployed, now, clock, setBack, restarts, clockSteps>>

Stages  == {"idle", "checking", "looking", "judging", "running", "stamping", "saving"}
Answers == {"none", "invalid_request", "hit", "failed", "live"}

TypeOK ==
  /\ store \in [Keys -> Entry \cup {NoEntry}]
  /\ deployed \in SchemaVersions
  /\ now \in Times /\ clock \in Times /\ setBack \in Nat
  /\ pc \in [Threads -> Stages]
  /\ request \in [Threads -> Request]
  /\ got \in [Threads -> Entry \cup {NoEntry}]
  /\ age \in [Threads -> Times]
  /\ answer \in [Threads -> Answers]
  /\ restarts \in 0 .. MaxRestarts
  /\ clockSteps \in 0 .. MaxClockSteps

(* What an earlier process left: nothing, or a row that may be damaged.      *)
LeftoverRow(k, l) ==
  IF l[1] THEN [version |-> l[2], storedAt |-> 0, success |-> TRUE, corrupt |-> l[3],
                key |-> k, made |-> 0]
  ELSE NoEntry

AnyKey == CHOOSE k \in Keys : TRUE
Nothing == [key |-> AnyKey, force |-> FALSE, valid |-> TRUE]

Init ==
  /\ \E leftover \in [Keys -> BOOLEAN \X SchemaVersions \X BOOLEAN] :
       store = [k \in Keys |-> LeftoverRow(k, leftover[k])]
  /\ deployed \in SchemaVersions
  /\ now = 0 /\ clock = 0 /\ setBack = 0
  /\ pc = [t \in Threads |-> "idle"]
  /\ request = [t \in Threads |-> Nothing]
  /\ got = [t \in Threads |-> NoEntry]
  /\ age = [t \in Threads |-> 0]
  /\ answer = [t \in Threads |-> "none"]
  /\ restarts = 0 /\ clockSteps = 0

-----------------------------------------------------------------------------
Goto(t, s) == pc' = [pc EXCEPT ![t] = s]

Return(t, a) ==
  /\ Goto(t, "idle")
  /\ answer' = [answer EXCEPT ![t] = a]

Call(t) ==
  /\ pc[t] = "idle"
  /\ \E r \in Request : request' = [request EXCEPT ![t] = r]
  /\ Goto(t, "checking")
  /\ got' = [got EXCEPT ![t] = NoEntry]
  /\ age' = [age EXCEPT ![t] = 0]
  /\ answer' = [answer EXCEPT ![t] = "none"]
  /\ UNCHANGED <<store, worldVars>>

(* _build_internal_request raises ValueError.                               *)
Reject(t) ==
  /\ pc[t] = "checking" /\ ~request[t].valid
  /\ Return(t, "invalid_request")
  /\ UNCHANGED <<store, request, got, age, worldVars>>

(* self._run_workflow(internal_request) starts.                             *)
RunWorkflow(t) ==
  /\ Goto(t, "running")
  /\ got' = [got EXCEPT ![t] = NoEntry]

(* `if cache_key is not None and not request.force_refresh`                 *)
Bypass(t) ==
  /\ pc[t] = "checking" /\ request[t].valid /\ request[t].force
  /\ RunWorkflow(t)
  /\ UNCHANGED <<store, request, age, answer, worldVars>>

LookUp(t) ==
  /\ pc[t] = "checking" /\ request[t].valid /\ ~request[t].force
  /\ Goto(t, "looking")
  /\ UNCHANGED <<store, request, got, age, answer, worldVars>>

-----------------------------------------------------------------------------
(* _cache_key: force_refresh is not part of it.                             *)
CacheKey(t) == request[t].key

(* _lookup_cache *)

(* Mutant: the schema version is not noticed.                               *)
UsableAnyVersion(e) == (e.success \/ CacheFailures) /\ ~e.corrupt

Usable(e) == e.version = deployed /\ (e.success \/ CacheFailures) /\ ~e.corrupt

(* repository.get raises, finds no row, or finds one that is not usable.    *)
Miss(t) ==
  LET e == store[CacheKey(t)]
  IN  /\ pc[t] = "looking"
      /\ Faulty \/ ~(e # NoEntry /\ Usable(e))
      /\ RunWorkflow(t)
      /\ UNCHANGED <<store, request, age, answer, worldVars>>

Find(t) ==
  LET e == store[CacheKey(t)]
  IN  /\ pc[t] = "looking"
      /\ e # NoEntry /\ Usable(e)
      /\ got' = [got EXCEPT ![t] = e]
      /\ Goto(t, "judging")
      /\ UNCHANGED <<store, request, age, answer, worldVars>>

(* The age, once the clock is read.                                         *)
Age(e) == IF clock > e.storedAt THEN clock - e.storedAt ELSE 0

Stale(t) ==
  /\ pc[t] = "judging"
  /\ Age(got[t]) > TTL
  /\ RunWorkflow(t)
  /\ UNCHANGED <<store, request, age, answer, worldVars>>

Hit(t) ==
  /\ pc[t] = "judging"
  /\ Age(got[t]) <= TTL
  /\ age' = [age EXCEPT ![t] = Age(got[t])]
  /\ Return(t, "hit")
  /\ UNCHANGED <<store, request, got, worldVars>>

-----------------------------------------------------------------------------
(* The workflow raises, or its result cannot be mapped: returned at once,   *)
(* before _store_cache, so that no failure is ever saved.                   *)
WorkflowFails(t) ==
  /\ pc[t] = "running"
  /\ Return(t, "failed")
  /\ UNCHANGED <<store, request, got, age, worldVars>>

WorkflowSucceeds(t) ==
  /\ pc[t] = "running"
  /\ Goto(t, "stamping")
  /\ UNCHANGED <<store, request, got, age, answer, worldVars>>

(* _store_cache: stored_at is the clock at this moment, then save().        *)
Stamp(t) ==
  /\ pc[t] = "stamping"
  /\ got' = [got EXCEPT ![t] =
       [version |-> deployed, storedAt |-> clock, success |-> TRUE, corrupt |-> FALSE,
        key |-> request[t].key, made |-> now]]
  /\ Goto(t, "saving")
  /\ UNCHANGED <<store, request, age, answer, worldVars>>

(* INSERT OR REPLACE; an exception is swallowed.                            *)
Save(t) ==
  /\ pc[t] = "saving"
  /\ \/ store' = [store EXCEPT ![CacheKey(t)] = got[t]]
     \/ Faulty /\ UNCHANGED store
  /\ Return(t, "live")
  /\ UNCHANGED <<request, got, age, worldVars>>

-----------------------------------------------------------------------------
Tick ==
  /\ now < MaxTime /\ clock < MaxTime
  /\ now' = now + 1
  /\ clock' = clock + 1
  /\ UNCHANGED <<store, deployed, setBack, pc, request, got, age, answer,
                 restarts, clockSteps>>

(* The wall clock is adjusted.                                              *)
StepClock ==
  /\ clockSteps < MaxClockSteps
  /\ \E c \in Times :
       /\ clock' = c
       /\ setBack' = setBack + (IF c < clock THEN clock - c ELSE 0)
  /\ clockSteps' = clockSteps + 1
  /\ UNCHANGED <<store, deployed, now, pc, request, got, age, answer, restarts>>

(* The process is killed, with all its threads, and a release started.      *)
Restart ==
  /\ restarts < MaxRestarts
  /\ restarts' = restarts + 1
  /\ deployed' \in SchemaVersions
  /\ pc' = [t \in Threads |-> "idle"]
  /\ got' = [t \in Threads |-> NoEntry]
  /\ answer' = [t \in Threads |-> "none"]
  /\ UNCHANGED <<store, now, clock, setBack, request, age, clockSteps>>

Step(t) ==
  \/ Reject(t) \/ Bypass(t) \/ LookUp(t) \/ Miss(t) \/ Find(t) \/ Stale(t) \/ Hit(t)
  \/ WorkflowFails(t) \/ WorkflowSucceeds(t) \/ Stamp(t) \/ Save(t)

Next ==
  \/ \E t \in Threads : Call(t) \/ Step(t)
  \/ Tick \/ StepClock \/ Restart

Spec == Init /\ [][Next]_vars
=============================================================================
