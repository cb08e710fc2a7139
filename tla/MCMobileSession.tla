--------------------------- MODULE MCMobileSession ---------------------------
(* MobileSession with handler threads that are interchangeable.             *)
EXTENDS MobileSession, TLC

Interchangeable == Permutations(Threads)
=============================================================================
