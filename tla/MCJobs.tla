-------------------------------- MODULE MCJobs --------------------------------
(* Instances of JobManager for TLC.  Three ids: chat c1 may send product   *)
(* p1 twice and p2 once.               *)
EXTENDS JobProperties, TLC

CONSTANTS c1, p1, p2, j1, j2, j3

MCChatOf3 == j1 :> c1 @@ j2 :> c1 @@ j3 :> c1
MCProductOf3 == j1 :> p1 @@ j2 :> p1 @@ j3 :> p2

(* j1 and j2 are two ids for the same request: interchangeable.            *)
SameRequest == Permutations({j1, j2})
=============================================================================
