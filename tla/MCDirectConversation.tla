------------------------ MODULE MCDirectConversation ------------------------
(* Instances of DirectConversation for TLC. *)
EXTENDS DirectConversation, TLC

CONSTANTS t1, t2, t3, c1, c2, c3

Interchangeable == Permutations({t1, t2, t3}) \cup Permutations({c1, c2, c3})
=============================================================================
