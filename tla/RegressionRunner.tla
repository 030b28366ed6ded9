--------------------------- MODULE RegressionRunner ---------------------------
(***************************************************************************)
(* regression/runner.py: run_products() starts one worker process per      *)
(* product, reads their result queues, kills those that exceed the hard    *)
(* timeout, and save() rewrites the artifact after every record; run() may *)
(* resume an artifact that an interrupted run left.                        *)
(*                                                                         *)
(* The scheduler is one loop; workers, time and kills interleave with it.  *)
(* multiprocessing.Queue is modelled from its use: a worker's record first *)
(* sits in the worker's buffer, then can be read; a worker does not exit   *)
(* by itself with a full buffer.                                           *)
(*                                                                         *)
(* `worker` is the process that the scheduler looks after for a product. A  *)
(* process that it lets go of may live on: one that outlives terminate() and *)
(* the join of two seconds, or one whose scheduler was killed (workers are   *)
(* not daemons). Nobody reads its queue; what it still shares with later     *)
(* workers is the cache (VerifierService) and the breaker file (HealthStore). *)
(***************************************************************************)
EXTENDS Naturals, FiniteSets

CONSTANTS
  Products,           \* the dataset: products by their position in it
  Selections,         \* what --tag and --limit may select
  Concurrency,        \* --concurrency
  Timeout,            \* --timeout, in ticks
  MaxRuns             \* bound: invocations of run()

ASSUME RunnerAssumption ==
  /\ Products \subseteq Nat /\ IsFiniteSet(Products)
  /\ Selections \subseteq SUBSET Products
  /\ Concurrency \in Nat \ {0}
  /\ Timeout \in Nat \ {0}
  /\ MaxRuns \in Nat

VARIABLES
  pc,                 \* where the scheduler's loop is
  selected,           \* products of this run
  todo,               \* `pending`: products not started yet
  running,            \* keys of `running`
  scan,               \* items the current for loop has not visited yet
  late,               \* items found past their timeout by this iteration
  records,            \* records_by_id
  artifact,           \* the records in the output file
  finished,           \* its finished_at is set
  worker,             \* the process looked after for each product
  result,             \* what the process put in its queue
  delivered,          \* whether that can be read
  elapsed,            \* time since the process was started
  runs

vars == <<pc, selected, todo, running, scan, late, records, artifact, finished,
          worker, result, delivered, elapsed, runs>>
schedulerVars == <<pc, selected, todo, running, scan, late, records, artifact, finished, runs>>

Failures == {"failure", "timeout", "worker_exit"}
Outcomes == {"none", "success"} \cup Failures

TypeOK ==
  /\ pc \in {"idle", "starting", "reading", "checking"}
  /\ selected \subseteq Products
  /\ todo \subseteq Products
  /\ running \subseteq Products /\ scan \subseteq running /\ late \subseteq running
  /\ records \in [Products -> Outcomes]
  /\ artifact \in [Products -> Outcomes]
  /\ finished \in BOOLEAN
  /\ worker \in [Products -> {"none", "alive", "gone"}]
  /\ result \in [Products -> {"none", "success", "failure"}]
  /\ delivered \in [Products -> BOOLEAN]
  /\ elapsed \in [Products -> 0 .. Timeout]
  /\ runs \in 0 .. MaxRuns

NoRecords == [p \in Products |-> "none"]

Init ==
  /\ pc = "idle"
  /\ selected = {} /\ todo = {}
  /\ running = {} /\ scan = {} /\ late = {}
  /\ records = NoRecords /\ artifact = NoRecords
  /\ finished = FALSE
  /\ worker = [p \in Products |-> "none"]
  /\ result = [p \in Products |-> "none"]
  /\ delivered = [p \in Products |-> FALSE]
  /\ elapsed = [p \in Products |-> 0]
  /\ runs = 0

-----------------------------------------------------------------------------
(* run(): the artifact to resume, if any, is read, restricted to the        *)
(* selection and written again before the first worker is started.          *)

(* Mutant: whatever has a record is skipped or retried, success or not.     *)
ResumableAny(p, prior, keep) == prior[p] = "none" \/ ~keep

(* resumable_products *)
Resumable(p, prior, keep) == prior[p] = "none" \/ (prior[p] # "success" /\ ~keep)

RunBegins(s, resume, keep) ==
  LET prior == [p \in Products |-> IF resume /\ p \in s THEN artifact[p] ELSE "none"]
  IN  /\ pc = "idle" /\ runs < MaxRuns
      /\ runs' = runs + 1
      /\ selected' = s
      /\ todo' = {p \in s : Resumable(p, prior, keep)}
      /\ records' = prior
      /\ artifact' = prior
      /\ finished' = FALSE
      /\ pc' = "starting"
      /\ UNCHANGED <<running, scan, late, worker, result, delivered, elapsed>>

-----------------------------------------------------------------------------
(* run_products: `while len(running) < concurrency and not exhausted`       *)

Room == Cardinality(running) < Concurrency

StartWorker(p) ==
  /\ pc = "starting" /\ Room
  /\ p \in todo /\ \A q \in todo : p <= q
  /\ todo' = todo \ {p}
  /\ running' = running \cup {p}
  /\ worker' = [worker EXCEPT ![p] = "alive"]
  /\ UNCHANGED <<pc, selected, scan, late, records, artifact, finished, result,
                 delivered, elapsed, runs>>

(* The first for loop, over a snapshot of the running items.                *)
BeginReading ==
  /\ pc = "starting"
  /\ running # {}
  /\ ~Room \/ todo = {}
  /\ pc' = "reading"
  /\ scan' = running
  /\ UNCHANGED <<selected, todo, running, late, records, artifact, finished, worker,
                 result, delivered, elapsed, runs>>

(* The processes of P are joined or terminated, as far as the waits go, and  *)
(* forgotten; their queues are closed.                                      *)
Close(P) ==
  /\ worker' = [p \in Products |-> IF p \in P THEN "none" ELSE worker[p]]
  /\ result' = [p \in Products |-> IF p \in P THEN "none" ELSE result[p]]
  /\ delivered' = [p \in Products |-> delivered[p] /\ p \notin P]
  /\ elapsed' = [p \in Products |-> IF p \in P THEN 0 ELSE elapsed[p]]

(* on_record = save(): in memory and, atomically, in the output file.       *)
Record(p, outcome) ==
  /\ Close({p})
  /\ records' = [records EXCEPT ![p] = outcome]
  /\ artifact' = records'
  /\ running' = running \ {p}
  /\ UNCHANGED <<pc, selected, todo, finished, runs>>

Visited(p) == scan' = scan \ {p}

(* get_nowait() returns the record.                                         *)
TakeResult(p) ==
  /\ pc = "reading" /\ p \in scan
  /\ delivered[p]
  /\ Record(p, result[p])
  /\ Visited(p)
  /\ UNCHANGED late

(* get_nowait() raises queue.Empty.                                         *)
NoResultYet(p) ==
  /\ pc = "reading" /\ p \in scan
  /\ ~delivered[p]
  /\ Visited(p)
  /\ UNCHANGED <<pc, selected, todo, running, late, records, artifact, finished, worker,
                 result, delivered, elapsed, runs>>

(* Mutant: a worker that has its result is not terminated any more.         *)
LateAndSilent(p) == elapsed[p] >= Timeout /\ result[p] = "none"

Late(p) == elapsed[p] >= Timeout

(* `now = time.monotonic()`, then the second for loop.                      *)
BeginChecking ==
  /\ pc = "reading" /\ scan = {}
  /\ pc' = "checking"
  /\ scan' = running
  /\ late' = {p \in running : Late(p)}
  /\ UNCHANGED <<selected, todo, running, records, artifact, finished, worker, result,
                 delivered, elapsed, runs>>

(* A result that arrived since the queue was read is dropped.               *)
KillLate(p) ==
  /\ pc = "checking" /\ p \in scan \cap late
  /\ Record(p, "timeout")
  /\ Visited(p)
  /\ late' = late \ {p}

(* Mutant: the queue is not read again after the process was found dead.    *)
LastWordUnread(p) == "worker_exit"

LastWord(p) == IF delivered[p] THEN result[p] ELSE "worker_exit"

ReapDead(p) ==
  /\ pc = "checking" /\ p \in scan \ late
  /\ worker[p] = "gone"
  /\ Record(p, LastWord(p))
  /\ Visited(p)
  /\ UNCHANGED late

StillRunning(p) ==
  /\ pc = "checking" /\ p \in scan \ late
  /\ worker[p] = "alive"
  /\ Visited(p)
  /\ UNCHANGED <<pc, selected, todo, running, late, records, artifact, finished, worker,
                 result, delivered, elapsed, runs>>

(* time.sleep(0.05), and around the while loop.                             *)
NextRound ==
  /\ pc = "checking" /\ scan = {}
  /\ pc' = "starting"
  /\ late' = {}
  /\ UNCHANGED <<selected, todo, running, scan, records, artifact, finished, worker,
                 result, delivered, elapsed, runs>>

(* Mutant: the loop ends as soon as nothing is left to start.               *)
AllDoneTooSoon == todo = {}

(* `while running or not exhausted`                                         *)
AllDone == running = {} /\ todo = {}

RunEnds ==
  /\ pc = "starting" /\ AllDone
  /\ pc' = "idle"
  /\ artifact' = records
  /\ finished' = TRUE
  /\ UNCHANGED <<selected, todo, running, scan, late, records, worker, result, delivered,
                 elapsed, runs>>

(* An exception (Ctrl-C, no process, no disk space: the finally clause      *)
(* terminates the workers) or a kill of the scheduler, which orphans them:   *)
(* either way nobody reads their queues any more.                           *)
Interrupt ==
  /\ pc # "idle"
  /\ pc' = "idle"
  /\ todo' = {} /\ running' = {} /\ scan' = {} /\ late' = {}
  /\ Close(running)
  /\ UNCHANGED <<selected, records, artifact, finished, runs>>

-----------------------------------------------------------------------------
(* _worker: put() always gets a record, whatever verify() raises.           *)
WorkerPuts(p) ==
  /\ worker[p] = "alive" /\ result[p] = "none"
  /\ \E r \in {"success", "failure"} : result' = [result EXCEPT ![p] = r]
  /\ UNCHANGED <<schedulerVars, worker, delivered, elapsed>>

(* The queue's feeder thread has written it.                                *)
WorkerDelivers(p) ==
  /\ worker[p] = "alive" /\ result[p] # "none" /\ ~delivered[p]
  /\ delivered' = [delivered EXCEPT ![p] = TRUE]
  /\ UNCHANGED <<schedulerVars, worker, result, elapsed>>

(* The process ends by itself, or is killed from outside at any point.      *)
WorkerExits(p) ==
  /\ worker[p] = "alive"
  /\ worker' = [worker EXCEPT ![p] = "gone"]
  /\ UNCHANGED <<schedulerVars, result, delivered, elapsed>>

Tick ==
  /\ \E p \in running : elapsed[p] < Timeout
  /\ elapsed' = [p \in Products |->
       IF p \in running /\ elapsed[p] < Timeout THEN elapsed[p] + 1 ELSE elapsed[p]]
  /\ UNCHANGED <<schedulerVars, worker, result, delivered>>

-----------------------------------------------------------------------------
SchedulerStep ==
  \/ BeginReading \/ BeginChecking \/ NextRound \/ RunEnds
  \/ \E p \in Products : \/ StartWorker(p)
                         \/ TakeResult(p) \/ NoResultYet(p)
                         \/ KillLate(p) \/ ReapDead(p) \/ StillRunning(p)

Next ==
  \/ \E s \in Selections, resume, keep \in BOOLEAN : RunBegins(s, resume, keep)
  \/ SchedulerStep
  \/ \E p \in Products : WorkerPuts(p) \/ WorkerDelivers(p) \/ WorkerExits(p)
  \/ Interrupt
  \/ Tick

Spec == Init /\ [][Next]_vars

(* The scheduler's process runs and time passes; workers owe nothing.       *)
FairSpec == Spec /\ WF_vars(SchedulerStep) /\ WF_vars(Tick)
=============================================================================
