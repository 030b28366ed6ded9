------------------------------ MODULE JobContract ------------------------------
(***************************************************************************)
(* What bot.jobs.JobManager promises its callers about the jobs it tracks, *)
(* with no event loop, semaphore, callback or registry: JobManager is      *)
(* shown to implement it.                                                  *)
(***************************************************************************)
EXTENDS Naturals, FiniteSets

CONSTANTS
  Jobs,               \* every job id
  IdentityOf,         \* the (chat, normalised request) of each job
  Limit               \* verifications that may run at once

VARIABLES
  phase,              \* the public state of each job, "none" before submit
  closed              \* no job is accepted any more

vars == <<phase, closed>>

Live(j)  == phase[j] \in {"queued", "running"}
Running  == {j \in Jobs : phase[j] = "running"}

Init ==
  /\ phase = [j \in Jobs |-> "none"]
  /\ closed = FALSE

(* A request is accepted unless the same one is still live.                *)
Accept(j) ==
  /\ ~closed
  /\ phase[j] = "none"
  /\ \A k \in Jobs : IdentityOf[k] = IdentityOf[j] => ~Live(k)
  /\ phase' = [phase EXCEPT ![j] = "queued"]
  /\ UNCHANGED closed

Begin(j) ==
  /\ phase[j] = "queued"
  /\ Cardinality(Running) < Limit
  /\ phase' = [phase EXCEPT ![j] = "running"]
  /\ UNCHANGED closed

Drop(j) ==
  /\ phase[j] = "queued"
  /\ phase' = [phase EXCEPT ![j] = "cancelled"]
  /\ UNCHANGED closed

End(j) ==
  /\ phase[j] = "running"
  /\ \E p \in {"completed", "failed", "cancelled"} : phase' = [phase EXCEPT ![j] = p]
  /\ UNCHANGED closed

Close ==
  /\ closed' = TRUE
  /\ UNCHANGED phase

(* Only a shutdown that ran out of time may withdraw a reported outcome.   *)
Withdraw(j) ==
  /\ closed
  /\ phase[j] \in {"completed", "failed"}
  /\ phase' = [phase EXCEPT ![j] = "cancelled"]
  /\ UNCHANGED closed

Next ==
  \/ Close
  \/ \E j \in Jobs : Accept(j) \/ Begin(j) \/ Drop(j) \/ End(j) \/ Withdraw(j)

Spec == Init /\ [][Next]_vars
=============================================================================
