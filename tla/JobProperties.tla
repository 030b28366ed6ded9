----------------------------- MODULE JobProperties -----------------------------
(***************************************************************************)
(* What JobManager must guarantee, and the inductive strengthening of its  *)
(* safety properties: how the suspension point of a task, the state of its *)
(* job, the registries and shutdown() determine one another.               *)
(***************************************************************************)
EXTENDS JobManager

(* PRODUCT_VERIFIER_MAX_CONCURRENT_JOBS caps the verify() calls in flight: *)
(* also those of jobs already cancelled, whose threads cannot be killed.   *)
ConcurrencyBound ==
  Cardinality({j \in Jobs : thread[j] = "running"}) <= MaxConcurrentJobs

(* Every slot is free or held by exactly one suspended task, whatever was  *)
(* cancelled while waiting, while being woken, or while running.           *)
SlotsConserved == semValue + Cardinality(Holding) = MaxConcurrentJobs

(* A free slot and a waiting job only coexist while a woken job has not    *)
(* yet had its turn: no wake-up is lost.                                   *)
NoLostWakeup ==
  semValue > 0 /\ Eligible # {} => \E k \in Jobs : pc[k] = "granted"

(* submit(): the same request of the same chat never has two live jobs,    *)
(* and _active_by_identity names exactly the live one.                     *)
OneActivePerIdentity ==
  \A j \in Jobs : Active(j) <=> activeByIdentity[Identity(j)] = j

(* No job outlives its retention in _jobs, _tasks or _callbacks: what is   *)
(* registered is live, being reported, or in its chat's bounded history.   *)
Retained(j) == \E i \in DOMAIN history[ChatOf[j]] : history[ChatOf[j]][i] = j

NoJobLeak ==
  /\ \A j \in jobs : Active(j) \/ pc[j] = "finalizing" \/ Retained(j)
  /\ \A j \in Jobs : Retained(j) => j \in jobs /\ state[j] \in TerminalStates
  /\ \A j \in tasks : Active(j)
  /\ \A j \in Jobs : j \in callbacks <=> Active(j) \/ pc[j] = "finalizing"
  /\ \A c \in Chats : Len(history[c]) <= HistoryLimit

(* A job is counted and notified once; only a shutdown whose timeout ran   *)
(* out while an outcome was being delivered may cancel it a second time.   *)
FinalizedOnce ==
  \A j \in Jobs :
    /\ Active(j) => outcomes[j] = <<>>
    /\ Len(outcomes[j]) > 1 =>
         /\ Len(outcomes[j]) = 2 /\ outcomes[j][2] = "cancelled"
         /\ shutdown.phase \in {"expired", "down"}

(* A verification cancelled by the user never ends as completed.           *)
CancelDiscardsResult ==
  \A j \in Jobs : cancelRequested[j] => state[j] # "completed"

(* /export serves a successful result of its own chat for as long as the   *)
(* bot is serving, whatever later jobs do.                                 *)
ExportKeepsSuccess ==
  \A c \in Chats : lastSuccess[c] # NoJob =>
    /\ ChatOf[lastSuccess[c]] = c
    /\ Head(outcomes[lastSuccess[c]]) = "completed"
    /\ shutdown.phase \in {"up", "waiting"} => result[lastSuccess[c]] = "success"

(* JobManager implements the contract.                                     *)
Contract == INSTANCE JobContract WITH
  IdentityOf <- [j \in Jobs |-> Identity(j)], Limit <- MaxConcurrentJobs,
  phase <- state, closed <- ~accepting

ImplementsContract == Contract!Spec

(* The verify() calls end (their wall-clock budget).                       *)
ThreadsEnd == \A j \in Jobs : thread[j] = "running" ~> thread[j] # "running"

-----------------------------------------------------------------------------
(* A task's suspension point and its job's public state.  Only a job whose *)
(* task was cancelled before its first timeslice is queued and "done".     *)
PcInv ==
  \A j \in Jobs :
    /\ pc[j] = "none" <=> state[j] = "none"
    /\ pc[j] \in {"created", "waiting", "granted"} => state[j] = "queued"
    /\ pc[j] \in {"starting", "verifying"} <=> state[j] = "running"
    /\ pc[j] = "finalizing" => state[j] \in {"completed", "failed"}

(* A cancellation is pending only on a suspended task; beyond the queue it *)
(* can only come from shutdown's timeout.                                  *)
CancelInv ==
  \A j \in Jobs : mustCancel[j] =>
    /\ pc[j] \notin {"none", "done"}
    /\ pc[j] \in {"starting", "verifying", "finalizing"} =>
         shutdown.phase = "expired" /\ j \in shutdown.pending

(* Who sleeps in cancel_chat_jobs sleeps on a task it has cancelled.       *)
CallerInv ==
  \A c \in Callers : \A j \in Jobs :
    caller[c].cur = j => mustCancel[j] \/ pc[j] = "done"

(* A worker thread runs for a verifying task, or was orphaned by shutdown. *)
ThreadInv ==
  \A j \in Jobs : thread[j] = "running" =>
    pc[j] = "verifying" \/ shutdown.phase \in {"expired", "down"}

(* The registries of live jobs agree, and history names finished jobs.     *)
HistoryFinished ==
  \A c \in Chats : \A i \in DOMAIN history[c] : state[history[c][i]] \in TerminalStates

LiveInv ==
  /\ \A j \in Jobs : Active(j) => j \in jobs
  /\ \A j \in Jobs : Active(j) <=> j \in tasks
  /\ OneActivePerIdentity
  /\ HistoryFinished

(* shutdown() knows every live job, and expires only with all of them      *)
(* cancelled.                                                              *)
ShutdownInv ==
  /\ accepting <=> shutdown.phase = "up"
  /\ shutdown.queued \subseteq shutdown.pending
  /\ \A j \in shutdown.pending : state[j] # "none"
  /\ shutdown.phase \in {"waiting", "expired"} =>
       \A j \in Jobs : /\ Active(j) => j \in shutdown.pending
                       /\ state[j] = "queued" => j \in shutdown.queued
  /\ shutdown.phase = "expired" =>
       \A j \in Jobs : Active(j) => mustCancel[j] \/ pc[j] = "done"
  /\ shutdown.phase = "down" => \A j \in Jobs : ~Active(j)

(* How often a job has been finalized.                                     *)
OutcomeInv ==
  \A j \in Jobs :
    /\ state[j] \in ActiveStates \cup {"none"} => outcomes[j] = <<>>
    /\ pc[j] = "finalizing" => Len(outcomes[j]) = 1

(* Core is inductive by itself; ConcurrencyBound follows step by step.     *)
Core ==
  /\ TypeOK /\ PcInv /\ CancelInv /\ CallerInv /\ ThreadInv /\ LiveInv /\ ShutdownInv
  /\ OutcomeInv /\ SlotsConserved /\ FinalizedOnce /\ CancelDiscardsResult

Inv == Core /\ ConcurrencyBound

-----------------------------------------------------------------------------
(* The history of a chat names its own jobs, each once, all of them over.   *)
HistoryOwn ==
  \A c \in Chats :
    /\ \A i \in DOMAIN history[c] : ChatOf[history[c][i]] = c /\ pc[history[c][i]] = "done"
    /\ \A i, n \in DOMAIN history[c] : history[c][i] = history[c][n] => i = n

(* What left _jobs left it because its chat's history was full.             *)
EvictedForRoom ==
  \A j \in Jobs :
    /\ pc[j] = "finalizing" => j \in jobs
    /\ state[j] # "none" =>
         j \in jobs \/ (pc[j] = "done" /\ Len(history[ChatOf[j]]) = HistoryLimit)

RetentionInv == NoJobLeak /\ HistoryOwn /\ EvictedForRoom

(* A job that is over, as is its verification.                              *)
Settled(j) == state[j] \in TerminalStates /\ thread[j] # "running" /\ outcomes[j] # <<>>

ExportInv ==
  /\ ExportKeepsSuccess
  /\ \A c \in Chats : lastSuccess[c] # NoJob => Settled(lastSuccess[c])
=============================================================================
