--------------------------- MODULE HealthProperties ---------------------------
(***************************************************************************)
(* What the shared provider-health file guarantees to its users although   *)
(* its lock excludes nobody: whoever cannot get it goes on without it.     *)
(***************************************************************************)
EXTENDS HealthStore

(* However many updates are lost to stale locks, crashes or disk errors, no *)
(* stored or loaded breaker is ever in a state the code cannot recover from:*)
(* open without failures, or closed with a grown cooldown.                  *)
Sane(t) == \A k \in Keys : t[k] = Absent \/ Coherent(t[k])

EntriesCoherent == Sane(file) /\ \A p \in Procs : Sane(copy[p])

(* A provider is skipped only while a failure of it is at most one longest  *)
(* cooldown old: no interleaving keeps a provider switched off by itself.   *)
SkipHasRecentFailure ==
  [][\A p \in Procs : skip'[p] /\ ~skip[p] => failedAgo[key[p]] < Longest]_vars

(* Whoever asks for an update or an answer gets to the end of it, also when *)
(* the lock's owner was killed or another process keeps the lock busy.      *)
OperationsEnd ==
  \A p \in Procs : pc[p] = "locking" ~> pc[p] \in {"idle", "dead"}
=============================================================================
