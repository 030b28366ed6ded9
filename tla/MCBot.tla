-------------------------------- MODULE MCBot --------------------------------
(* One chat that asks for two products, a job each.                          *)
EXTENDS Conversation, TLC

CONSTANTS c1, p1, p2, j2, j3

MCChatOf2 == j2 :> c1 @@ j3 :> c1
MCProductOf2 == j2 :> p1 @@ j3 :> p2
=============================================================================
