----------------------------- MODULE MCHostSetup -----------------------------
(* Instances of HostSetup for TLC. *)
EXTENDS HostSetup, TLC

\* A short document over a long one leaves a tail of it.
MCDailyDocuments == {[size |-> 1, image |-> NoImage], [size |-> 2, image |-> "pinned"]}
MCModelDocuments == {[size |-> 1, key |-> "k1"], [size |-> 2, key |-> "k2"]}

MCEnvironments == {NoImage, "inherited"}

Menu(ops, files, calls) == [ops |-> ops, files |-> files, calls |-> calls]

MCMenus ==
  { Menu({"write"}, {"daily"}, 4), Menu({"write", "show"}, {"model"}, 3),
    Menu({"create", "show", "write"}, {"model"}, 3), Menu({"create"}, {}, 4),
    Menu({"write", "stack"}, {"daily"}, 3) }

Symmetry == Permutations(Callers)
=============================================================================
