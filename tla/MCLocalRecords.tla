--------------------------- MODULE MCLocalRecords ---------------------------
(* Instances of LocalRecords for TLC. *)
EXTENDS LocalRecords

MCProjects == {"default", "lai"}

MCLabel(name) ==
  CASE name = "LAI" -> "lai" [] name = "../Odd" -> "../odd" [] OTHER -> name

MCWords == {"", "low", "k1", "k2", "sum up", "old", "docs", "notes", "mail", "draft", "two lines"}

\* An objective of a project with two tasks, the first of them done.
Lai == [project |-> "LAI",
        tasks |-> << [id |-> <<"k1">>, status |-> "done", title |-> <<"sum up">>, target |-> <<"old">>],
                     [id |-> <<"k2">>, status |-> "active", title |-> <<"sum up">>, target |-> <<"docs">>] >>]
Odd == [project |-> "../Odd", tasks |-> << >>]

MCObjectives == {NoState, BadState, Lai, Odd}

Says(target, data, effect) ==
  [action |-> <<"sum up">>, target |-> target, data |-> data, effect |-> effect]

\* A plain proposal, two that read the same when their texts are joined, and one that
\* leaves its target to the task and is read as two lines by the inbox.
Plainly == Says(<<"docs">>, <<"notes">>, <<"draft">>)
One     == Says(<<"docs">>, <<"notes", "mail">>, <<"draft">>)
Another == Says(<<"docs">>, <<"notes">>, <<"mail", "draft">>)
OfTask  == Says(NoText, <<"two lines">>, <<"draft">>)

MCExplicits == {Plainly, One, Another, OfTask}

Menu(ops, calls, says, edits) ==
  [ops |-> ops, calls |-> calls, says |-> says, edits |-> edits]

MCMenus ==
  { Menu({"show", "remember", "forget"}, 4, {}, FALSE),
    Menu({"remember", "forget", "pack"}, 3, {}, TRUE),
    Menu({"audit", "record", "runs"}, 3, {}, FALSE),
    Menu({"inbox", "enqueue", "loop"}, 4, {One, Another}, FALSE),
    Menu({"inbox", "enqueue", "loop"}, 4, {One, Plainly}, FALSE),
    Menu({"inbox", "enqueue"}, 2, {Plainly, OfTask}, TRUE) }

Symmetry == Permutations(Threads)
=============================================================================
