-------------------------- MODULE VerifierProperties --------------------------
(***************************************************************************)
(* What verify() guarantees about the answers it serves from the cache.    *)
(***************************************************************************)
EXTENDS VerifierService

ServesHit(t) == answer[t] # "hit" /\ answer'[t] = "hit"

(* An answer from the cache is an undamaged, successful result for this    *)
(* very request, saved by a release with the running schema version, and   *)
(* the caller did not ask for a fresh one.                                 *)
HitsAreSound ==
  [][\A t \in Threads : ServesHit(t) =>
       /\ got[t].key = request[t].key /\ ~request[t].force /\ request[t].valid
       /\ got[t].version = deployed /\ got[t].success /\ ~got[t].corrupt]_vars

(* PRODUCT_VERIFIER_CACHE_TTL_SECONDS, in real time: a result is served at *)
(* most TTL after it was stamped, plus however far the wall clock has been *)
(* set back meanwhile, whoever else reads or replaces the row.             *)
HitsAreFresh ==
  [][\A t \in Threads : ServesHit(t) => now - got[t].made <= TTL + setBack]_vars
=============================================================================
