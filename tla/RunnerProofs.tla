------------------------------ MODULE RunnerProofs ------------------------------
(***************************************************************************)
(* Theorems about the regression scheduler, for any dataset, selections,   *)
(* concurrency, timeout and number of runs.                                *)
(*                                                                         *)
(* The inductive invariant says where a product of the selection is at any *)
(* moment of a run: it has a record, or a worker, or waits for one; and    *)
(* that the artifact is the records in memory.                             *)
(***************************************************************************)
EXTENDS RunnerProperties, TLAPS

(* The processes and their queues.                                          *)
WorkerInv ==
  /\ worker \in [Products -> {"none", "alive", "gone"}]
  /\ result \in [Products -> {"none", "success", "failure"}]
  /\ delivered \in [Products -> BOOLEAN]
  /\ elapsed \in [Products -> 0 .. Timeout]
  /\ \A p \in Products : /\ worker[p] = "alive" => p \in running
                         /\ delivered[p] => result[p] # "none"
                         /\ p \in late => elapsed[p] >= Timeout

(* The loop's own variables.                                                *)
LoopInv ==
  /\ pc \in {"idle", "starting", "reading", "checking"}
  /\ runs \in 0 .. MaxRuns
  /\ selected \subseteq Products
  /\ todo \subseteq selected /\ running \subseteq selected /\ todo \cap running = {}
  /\ scan \subseteq running /\ late \subseteq running
  /\ pc = "idle" => todo = {} /\ running = {}
  /\ pc # "checking" => late = {}

(* The records, in memory and in the output file.                           *)
RecordInv ==
  /\ records \in [Products -> Outcomes] /\ artifact \in [Products -> Outcomes]
  /\ finished \in BOOLEAN /\ (finished => pc = "idle")
  /\ pc # "idle" => artifact = records
  /\ \A p \in Products :
       /\ p \in todo \cup running => records[p] # "success"
       /\ records[p] # "none" => p \in selected
       /\ pc # "idle" /\ p \in selected => p \in todo \cup running \/ records[p] # "none"
  /\ finished => \A p \in Products : artifact[p] # "none" <=> p \in selected

Inv == WorkerInv /\ LoopInv /\ RecordInv

LEMMA Bounds == /\ Timeout \in Nat /\ Timeout > 0 /\ MaxRuns \in Nat
BY RunnerAssumption

LEMMA RunnerInit == Init => Inv
<1>. SUFFICES ASSUME Init PROVE Inv
  OBVIOUS
<1>1. WorkerInv
  BY Bounds DEF Init, WorkerInv
<1>2. LoopInv
  BY Bounds DEF Init, LoopInv
<1>3. RecordInv
  BY DEF Init, RecordInv, NoRecords, Outcomes
<1>. QED BY <1>1, <1>2, <1>3 DEF Inv

-----------------------------------------------------------------------------
(* What becomes of a product whose outcome is recorded.                     *)
LEMMA RecordStep ==
  ASSUME Inv, NEW p \in running, NEW outcome \in Outcomes, outcome # "none",
         pc # "idle", Record(p, outcome), scan' = scan \ {p},
         UNCHANGED late \/ late' = late \ {p}, p \in late => p \notin late'
  PROVE  Inv'
<1>1. /\ Close({p}) /\ running' = running \ {p}
      /\ records' = [records EXCEPT ![p] = outcome] /\ artifact' = records'
      /\ UNCHANGED <<pc, selected, todo, finished, runs>>
  BY DEF Record
<1>2. p \in Products /\ p \in selected
  BY DEF Inv, LoopInv
<1>3. WorkerInv'
  <2>1. /\ worker' \in [Products -> {"none", "alive", "gone"}]
        /\ result' \in [Products -> {"none", "success", "failure"}]
        /\ delivered' \in [Products -> BOOLEAN]
        /\ elapsed' \in [Products -> 0 .. Timeout]
    BY <1>1, Bounds DEF Close, Inv, WorkerInv
  <2>2. ASSUME NEW q \in Products
        PROVE  /\ worker'[q] = "alive" => q \in running'
               /\ delivered'[q] => result'[q] # "none"
               /\ q \in late' => elapsed'[q] >= Timeout
    <3>1. CASE q = p
      BY <1>1, <3>1 DEF Close, Inv, WorkerInv, LoopInv
    <3>2. CASE q # p
      BY <1>1, <3>2 DEF Close, Inv, WorkerInv
    <3>. QED BY <3>1, <3>2
  <2>. QED BY <2>1, <2>2 DEF WorkerInv
<1>4. LoopInv'
  <2>1. scan' \subseteq running' /\ late' \subseteq running'
    BY <1>1 DEF Inv, LoopInv
  <2>. QED BY <1>1, <2>1 DEF Inv, LoopInv
<1>5. RecordInv'
  <2>1. finished = FALSE
    BY DEF Inv, RecordInv
  <2>2. records' \in [Products -> Outcomes] /\ records'[p] = outcome
    BY <1>1, <1>2 DEF Inv, RecordInv
  <2>3. ASSUME NEW q \in Products
        PROVE  /\ q \in todo' \cup running' => records'[q] # "success"
               /\ records'[q] # "none" => q \in selected'
               /\ q \in selected' => q \in todo' \cup running' \/ records'[q] # "none"
    <3>1. CASE q = p
      <4>1. p \notin todo
        BY DEF Inv, RecordInv, LoopInv
      <4>. QED BY <1>1, <1>2, <2>2, <3>1, <4>1
    <3>2. CASE q # p
      BY <1>1, <3>2 DEF Inv, RecordInv
    <3>. QED BY <3>1, <3>2
  <2>. QED BY <1>1, <2>1, <2>2, <2>3 DEF Inv, RecordInv
<1>. QED BY <1>3, <1>4, <1>5 DEF Inv

LEMMA BeginStep ==
  ASSUME Inv, NEW s \in Selections, NEW resume \in BOOLEAN, NEW keep \in BOOLEAN,
         RunBegins(s, resume, keep)
  PROVE  Inv'
<1>. DEFINE prior == [p \in Products |-> IF resume /\ p \in s THEN artifact[p] ELSE "none"]
<1>1. /\ pc = "idle" /\ runs < MaxRuns /\ runs' = runs + 1 /\ selected' = s
      /\ todo' = {p \in s : Resumable(p, prior, keep)}
      /\ records' = prior /\ artifact' = prior /\ finished' = FALSE /\ pc' = "starting"
      /\ UNCHANGED <<running, scan, late, worker, result, delivered, elapsed>>
  BY DEF RunBegins
<1>2. s \subseteq Products
  BY RunnerAssumption
<1>3. WorkerInv'
  BY <1>1 DEF Inv, WorkerInv
<1>4. LoopInv'
  <2>1. running' = {} /\ scan' = {} /\ late' = {}
    BY <1>1 DEF Inv, LoopInv
  <2>2. runs' \in 0 .. MaxRuns
    BY <1>1, Bounds DEF Inv, LoopInv
  <2>. QED BY <1>1, <1>2, <2>1, <2>2 DEF LoopInv
<1>5. RecordInv'
  <2>1. prior \in [Products -> Outcomes]
    BY DEF Inv, RecordInv, Outcomes
  <2>2. ASSUME NEW p \in Products
        PROVE  /\ p \in todo' \cup running' => prior[p] # "success"
               /\ prior[p] # "none" => p \in s
               /\ p \in s => p \in todo' \cup running' \/ prior[p] # "none"
    BY <1>1 DEF Resumable, Inv, LoopInv
  <2>. QED BY <1>1, <2>1, <2>2 DEF RecordInv
<1>. QED BY <1>3, <1>4, <1>5 DEF Inv

LEMMA StartStep ==
  ASSUME Inv, NEW p \in Products, StartWorker(p) PROVE Inv'
<1>1. /\ pc = "starting" /\ p \in todo
      /\ todo' = todo \ {p} /\ running' = running \cup {p}
      /\ worker' = [worker EXCEPT ![p] = "alive"]
      /\ UNCHANGED <<pc, selected, scan, late, records, artifact, finished, result, delivered,
                     elapsed, runs>>
  BY DEF StartWorker
<1>2. WorkerInv'
  BY <1>1 DEF Inv, WorkerInv
<1>3. LoopInv'
  BY <1>1 DEF Inv, LoopInv
<1>4. RecordInv'
  BY <1>1 DEF Inv, RecordInv
<1>. QED BY <1>2, <1>3, <1>4 DEF Inv

(* The steps of the loop that touch no worker and no record.                *)
LEMMA LoopStep ==
  ASSUME Inv, UNCHANGED <<selected, todo, running, records, artifact, finished, worker, result,
                          delivered, elapsed, runs>>,
         pc # "idle", pc' \in {"starting", "reading", "checking"}, pc' # "checking" => late' = {},
         scan' \subseteq running, late' \subseteq running,
         \A p \in late' : elapsed[p] >= Timeout
  PROVE  Inv'
BY DEF Inv, WorkerInv, LoopInv, RecordInv

LEMMA EndStep == ASSUME Inv, RunEnds PROVE Inv'
<1>1. /\ pc = "starting" /\ running = {} /\ todo = {} /\ pc' = "idle"
      /\ artifact' = records /\ finished' = TRUE
      /\ UNCHANGED <<selected, todo, running, scan, late, records, worker, result, delivered,
                     elapsed, runs>>
  BY DEF RunEnds, AllDone
<1>2. WorkerInv' /\ LoopInv'
  BY <1>1 DEF Inv, WorkerInv, LoopInv
<1>3. RecordInv'
  BY <1>1 DEF Inv, RecordInv
<1>. QED BY <1>2, <1>3 DEF Inv

LEMMA InterruptStep == ASSUME Inv, Interrupt PROVE Inv'
<1>1. /\ pc # "idle" /\ pc' = "idle" /\ Close(running)
      /\ todo' = {} /\ running' = {} /\ scan' = {} /\ late' = {}
      /\ UNCHANGED <<selected, records, artifact, finished, runs>>
  BY DEF Interrupt
<1>2. WorkerInv'
  <2>1. /\ worker' \in [Products -> {"none", "alive", "gone"}]
        /\ result' \in [Products -> {"none", "success", "failure"}]
        /\ delivered' \in [Products -> BOOLEAN]
        /\ elapsed' \in [Products -> 0 .. Timeout]
    BY <1>1, Bounds DEF Close, Inv, WorkerInv
  <2>2. ASSUME NEW q \in Products
        PROVE  /\ worker'[q] # "alive"
               /\ delivered'[q] => result'[q] # "none"
    BY <1>1 DEF Close, Inv, WorkerInv
  <2>. QED BY <1>1, <2>1, <2>2 DEF WorkerInv
<1>3. LoopInv'
  BY <1>1 DEF Inv, LoopInv
<1>4. RecordInv'
  BY <1>1 DEF Inv, RecordInv
<1>. QED BY <1>2, <1>3, <1>4 DEF Inv

LEMMA WorkerStep ==
  ASSUME Inv, NEW p \in Products, WorkerPuts(p) \/ WorkerDelivers(p) \/ WorkerExits(p)
  PROVE  Inv'
<1>1. UNCHANGED schedulerVars
  BY DEF WorkerPuts, WorkerDelivers, WorkerExits
<1>2. WorkerInv'
  <2>1. CASE WorkerPuts(p)
    BY <1>1, <2>1 DEF WorkerPuts, Inv, WorkerInv, schedulerVars
  <2>2. CASE WorkerDelivers(p)
    BY <1>1, <2>2 DEF WorkerDelivers, Inv, WorkerInv, schedulerVars
  <2>3. CASE WorkerExits(p)
    BY <1>1, <2>3 DEF WorkerExits, Inv, WorkerInv, schedulerVars
  <2>. QED BY <2>1, <2>2, <2>3
<1>3. LoopInv' /\ RecordInv'
  BY <1>1 DEF Inv, LoopInv, RecordInv, schedulerVars
<1>. QED BY <1>2, <1>3 DEF Inv

LEMMA TickStep == ASSUME Inv, Tick PROVE Inv'
<1>1. UNCHANGED schedulerVars /\ UNCHANGED <<worker, result, delivered>>
  BY DEF Tick
<1>2. /\ elapsed' \in [Products -> 0 .. Timeout]
      /\ \A p \in Products : elapsed'[p] >= elapsed[p]
  BY Bounds DEF Tick, Inv, WorkerInv
<1>3. WorkerInv'
  <2>1. \A p \in Products : p \in late' => elapsed'[p] >= Timeout
    BY <1>1, <1>2, Bounds DEF Inv, WorkerInv, schedulerVars
  <2>. QED BY <1>1, <1>2, <2>1 DEF Inv, WorkerInv, schedulerVars
<1>4. LoopInv' /\ RecordInv'
  BY <1>1 DEF Inv, LoopInv, RecordInv, schedulerVars
<1>. QED BY <1>3, <1>4 DEF Inv

LEMMA RunnerStep == Inv /\ [Next]_vars => Inv'
<1>. SUFFICES ASSUME Inv, [Next]_vars PROVE Inv'
  OBVIOUS
<1>1. ASSUME NEW s \in Selections, NEW resume \in BOOLEAN, NEW keep \in BOOLEAN,
             RunBegins(s, resume, keep)
      PROVE  Inv'
  BY <1>1, BeginStep
<1>2. ASSUME NEW p \in Products, StartWorker(p) PROVE Inv'
  BY <1>2, StartStep
<1>3. CASE BeginReading \/ BeginChecking \/ NextRound
  <2>1. /\ pc # "idle" /\ pc' \in {"starting", "reading", "checking"}
        /\ UNCHANGED <<selected, todo, running, records, artifact, finished, worker, result,
                       delivered, elapsed, runs>>
        /\ scan' \subseteq running
    BY <1>3 DEF BeginReading, BeginChecking, NextRound, Inv, LoopInv
  <2>2. late' \subseteq running /\ \A p \in late' : elapsed[p] >= Timeout
    BY <1>3 DEF BeginReading, BeginChecking, NextRound, Late, Inv, LoopInv, WorkerInv
  <2>3. pc' # "checking" => late' = {}
    BY <1>3 DEF BeginReading, BeginChecking, NextRound, Inv, LoopInv
  <2>. QED BY <2>3, <2>1, <2>2, LoopStep
<1>4. ASSUME NEW p \in Products, TakeResult(p) PROVE Inv'
  <2>1. /\ p \in running /\ pc # "idle" /\ delivered[p] /\ Record(p, result[p])
        /\ scan' = scan \ {p} /\ UNCHANGED late
    BY <1>4 DEF TakeResult, Visited, Inv, LoopInv
  <2>2. p \notin late /\ result[p] \in Outcomes /\ result[p] # "none"
    BY <1>4, <2>1 DEF TakeResult, Inv, LoopInv, WorkerInv, Outcomes, Failures
  <2>. QED BY <2>1, <2>2, RecordStep
<1>5. ASSUME NEW p \in Products, KillLate(p) PROVE Inv'
  <2>1. /\ p \in running /\ pc # "idle" /\ Record(p, "timeout")
        /\ scan' = scan \ {p} /\ late' = late \ {p}
    BY <1>5 DEF KillLate, Visited, Inv, LoopInv
  <2>2. "timeout" \in Outcomes
    BY DEF Outcomes, Failures
  <2>. QED BY <2>1, <2>2, RecordStep
<1>6. ASSUME NEW p \in Products, ReapDead(p) PROVE Inv'
  <2>1. /\ p \in running /\ p \notin late /\ pc # "idle" /\ Record(p, LastWord(p))
        /\ scan' = scan \ {p} /\ UNCHANGED late
    BY <1>6 DEF ReapDead, Visited, Inv, LoopInv
  <2>2. LastWord(p) \in Outcomes /\ LastWord(p) # "none"
    BY DEF LastWord, Inv, WorkerInv, Outcomes, Failures
  <2>. QED BY <2>1, <2>2, RecordStep
<1>7. ASSUME NEW p \in Products, NoResultYet(p) \/ StillRunning(p) PROVE Inv'
  <2>1. /\ pc # "idle" /\ pc' \in {"starting", "reading", "checking"} /\ UNCHANGED <<pc, late>>
        /\ UNCHANGED <<selected, todo, running, records, artifact, finished, worker, result,
                       delivered, elapsed, runs>>
        /\ scan' \subseteq running
    BY <1>7 DEF NoResultYet, StillRunning, Visited, Inv, LoopInv
  <2>2. /\ late' \subseteq running /\ \A q \in late' : elapsed[q] >= Timeout
        /\ pc' # "checking" => late' = {}
    BY <2>1, Bounds DEF Inv, LoopInv, WorkerInv
  <2>. QED BY <2>1, <2>2, LoopStep
<1>8. RunEnds \/ Interrupt => Inv'
  BY EndStep, InterruptStep
<1>9. ASSUME NEW p \in Products, WorkerPuts(p) \/ WorkerDelivers(p) \/ WorkerExits(p) PROVE Inv'
  BY <1>9, WorkerStep
<1>10. Tick => Inv'
  BY TickStep
<1>11. CASE UNCHANGED vars
  BY <1>11 DEF vars, Inv, WorkerInv, LoopInv, RecordInv
<1>. QED
  BY <1>1, <1>2, <1>3, <1>4, <1>5, <1>6, <1>7, <1>8, <1>9, <1>10, <1>11 DEF Next, SchedulerStep

(* The invariant holds of the scheduler with and without fairness.          *)
THEOREM Invariance == Spec => []Inv
<1>. QED BY RunnerInit, RunnerStep, PTL DEF Spec

(* Type correctness of the scheduler.                                       *)
THEOREM TypeCorrect == Spec => []TypeOK
<1>1. Inv => TypeOK
  BY DEF Inv, WorkerInv, LoopInv, RecordInv, TypeOK
<1>. QED BY <1>1, Invariance, PTL

(* A finished artifact has exactly the records of its selection.            *)
THEOREM Completeness == Spec => []FinishedIsComplete
<1>1. Inv => FinishedIsComplete
  BY DEF Inv, RecordInv, FinishedIsComplete
<1>. QED BY <1>1, Invariance, PTL

-----------------------------------------------------------------------------
(* One step's worth of the two action properties.                           *)
Survives(p) ==
  /\ artifact[p] = "success" /\ (pc # "idle" \/ (Resuming /\ p \in selected'))
       => artifact'[p] = "success"
  /\ p \in running' => records[p] # "success"

Honest(p) ==
  p \in running /\ p \notin running' /\ pc' # "idle" =>
    \/ delivered[p] /\ records'[p] = result[p]
    \/ elapsed[p] >= Timeout /\ records'[p] = "timeout"
    \/ ~delivered[p] /\ worker[p] = "gone" /\ records'[p] = "worker_exit"

(* A step that changes neither the records nor who is running.              *)
LEMMA QuietStep ==
  ASSUME Inv, UNCHANGED <<artifact, records, running>>, NEW p \in Products
  PROVE  Survives(p) /\ Honest(p)
BY DEF Inv, LoopInv, RecordInv, Survives, Honest

LEMMA RecordedStep ==
  ASSUME Inv, NEW q \in running, NEW outcome, pc # "idle", Record(q, outcome),
         \/ delivered[q] /\ outcome = result[q]
         \/ elapsed[q] >= Timeout /\ outcome = "timeout"
         \/ ~delivered[q] /\ worker[q] = "gone" /\ outcome = "worker_exit",
         NEW p \in Products
  PROVE  Survives(p) /\ Honest(p)
<1>1. /\ running' = running \ {q} /\ records' = [records EXCEPT ![q] = outcome]
      /\ artifact' = records' /\ artifact = records /\ records[q] # "success"
      /\ records \in [Products -> Outcomes] /\ q \in Products
  BY DEF Record, Inv, LoopInv, RecordInv
<1>2. CASE p = q
  BY <1>1, <1>2 DEF Survives, Honest
<1>3. CASE p # q
  BY <1>1, <1>3 DEF Survives, Honest, Inv, RecordInv
<1>. QED BY <1>2, <1>3

LEMMA BeginSurvives ==
  ASSUME Inv, NEW s \in Selections, NEW resume \in BOOLEAN, NEW keep \in BOOLEAN,
         RunBegins(s, resume, keep), NEW p \in Products
  PROVE  Survives(p) /\ Honest(p)
<1>. DEFINE prior == [q \in Products |-> IF resume /\ q \in s THEN artifact[q] ELSE "none"]
<1>1. /\ pc = "idle" /\ selected' = s /\ records' = prior /\ artifact' = prior /\ UNCHANGED running
  BY DEF RunBegins
<1>2. running = {}
  BY <1>1 DEF Inv, LoopInv
<1>3. ~resume => records' = NoRecords
  BY <1>1 DEF NoRecords
<1>4. resume /\ p \in s => artifact'[p] = artifact[p]
  BY <1>1
<1>. QED BY <1>1, <1>2, <1>3, <1>4 DEF Survives, Honest, Resuming

LEMMA ActionStep ==
  ASSUME Inv, [Next]_vars, NEW p \in Products PROVE Survives(p) /\ Honest(p)
<1>1. ASSUME NEW s \in Selections, NEW resume \in BOOLEAN, NEW keep \in BOOLEAN,
             RunBegins(s, resume, keep)
      PROVE  Survives(p) /\ Honest(p)
  BY <1>1, BeginSurvives
<1>2. ASSUME NEW q \in Products, StartWorker(q) PROVE Survives(p) /\ Honest(p)
  BY <1>2 DEF StartWorker, Survives, Honest, Inv, RecordInv
<1>3. ASSUME NEW q \in Products, TakeResult(q) PROVE Survives(p) /\ Honest(p)
  BY <1>3, RecordedStep DEF TakeResult, Inv, LoopInv
<1>4. ASSUME NEW q \in Products, KillLate(q) PROVE Survives(p) /\ Honest(p)
  <2>1. /\ q \in running /\ pc # "idle" /\ Record(q, "timeout") /\ elapsed[q] >= Timeout
    BY <1>4 DEF KillLate, Inv, LoopInv, WorkerInv
  <2>. QED BY <2>1, RecordedStep
<1>5. ASSUME NEW q \in Products, ReapDead(q) PROVE Survives(p) /\ Honest(p)
  <2>1. /\ q \in running /\ pc # "idle" /\ Record(q, LastWord(q)) /\ worker[q] = "gone"
    BY <1>5 DEF ReapDead, Inv, LoopInv
  <2>2. \/ delivered[q] /\ LastWord(q) = result[q]
        \/ ~delivered[q] /\ LastWord(q) = "worker_exit"
    BY DEF LastWord
  <2>. QED BY <2>1, <2>2, RecordedStep
<1>6. ASSUME NEW q \in Products,
             \/ BeginReading \/ BeginChecking \/ NextRound \/ NoResultYet(q) \/ StillRunning(q)
             \/ WorkerPuts(q) \/ WorkerDelivers(q) \/ WorkerExits(q) \/ Tick \/ UNCHANGED vars
      PROVE  Survives(p) /\ Honest(p)
  <2>1. UNCHANGED <<artifact, records, running>>
    BY <1>6 DEF BeginReading, BeginChecking, NextRound, NoResultYet, StillRunning, WorkerPuts,
                WorkerDelivers, WorkerExits, Tick, vars, schedulerVars
  <2>. QED BY <2>1, QuietStep
<1>7. ASSUME RunEnds PROVE Survives(p) /\ Honest(p)
  BY <1>7 DEF RunEnds, AllDone, Inv, RecordInv, Survives, Honest
<1>8. ASSUME Interrupt PROVE Survives(p) /\ Honest(p)
  BY <1>8 DEF Interrupt, Survives, Honest, Resuming
<1>. QED
  BY <1>1, <1>2, <1>3, <1>4, <1>5, <1>6, <1>7, <1>8 DEF Next, SchedulerStep

(* A success is neither run again nor replaced, in any sequence of resumed  *)
(* and interrupted runs.                                                    *)
THEOREM ResumeKeepsSuccesses == Spec => SuccessesSurvive
<1>1. Inv /\ [Next]_vars =>
        [\A p \in Products :
           /\ artifact[p] = "success" /\ (pc # "idle" \/ (Resuming /\ p \in selected'))
                => artifact'[p] = "success"
           /\ p \in running' => records[p] # "success"]_vars
  BY ActionStep DEF Survives
<1>. QED BY <1>1, Invariance, PTL DEF Spec, SuccessesSurvive

(* A record says what became of its worker.                                 *)
THEOREM HonestRecords == Spec => RecordsAreHonest
<1>1. Inv /\ [Next]_vars =>
        [\A p \in Products : p \in running /\ p \notin running' /\ pc' # "idle" =>
           \/ delivered[p] /\ records'[p] = result[p]
           \/ elapsed[p] >= Timeout /\ records'[p] = "timeout"
           \/ ~delivered[p] /\ worker[p] = "gone" /\ records'[p] = "worker_exit"]_vars
  BY ActionStep DEF Honest
<1>. QED BY <1>1, Invariance, PTL DEF Spec, RecordsAreHonest
=============================================================================
