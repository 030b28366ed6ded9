--------------------------- MODULE RunnerProperties ---------------------------
(***************************************************************************)
(* What a regression run guarantees about the records it leaves behind.    *)
(***************************************************************************)
EXTENDS RegressionRunner

(* An artifact with a finished_at has a record of every selected product,  *)
(* and none of any other.                                                  *)
FinishedIsComplete ==
  finished => \A p \in Products : artifact[p] # "none" <=> p \in selected

(* "Resume the same output file (successful records are skipped ...)":     *)
(* a success is not run again, nor replaced, in any sequence of resumed    *)
(* and interrupted runs that select the product.                           *)
Resuming == pc = "idle" /\ pc' = "starting" /\ records' # NoRecords

SuccessesSurvive ==
  [][\A p \in Products :
       /\ artifact[p] = "success" /\ (pc # "idle" \/ (Resuming /\ p \in selected'))
            => artifact'[p] = "success"
       /\ p \in running' => records[p] # "success"]_vars

(* A record says what became of the worker: the outcome it delivered, if   *)
(* the scheduler noticed its end before the hard timeout; a timeout only   *)
(* when it was due; "worker_exit" only if it took its result with it.      *)
RecordsAreHonest ==
  [][\A p \in Products : p \in running /\ p \notin running' /\ pc' # "idle" =>
       \/ delivered[p] /\ records'[p] = result[p]
       \/ elapsed[p] >= Timeout /\ records'[p] = "timeout"
       \/ ~delivered[p] /\ worker[p] = "gone" /\ records'[p] = "worker_exit"]_vars

(* A run ends although workers may hang forever: "a stuck browser/network  *)
(* stack can be terminated without stopping the rest of the dataset".      *)
RunTerminates == pc # "idle" ~> pc = "idle"
=============================================================================
