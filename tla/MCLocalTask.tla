----------------------------- MODULE MCLocalTask -----------------------------
(* Instances of LocalTask for TLC. *)
EXTENDS LocalTask, TLC

Interchangeable == Permutations(Calls)

\* Two ids with the same slug, a task of each zone, and one that proposes more
\* commands than may be run at once.
TwoIds ==
  {[id |-> "Tidy", zone |-> "green", commands |-> <<"diff", "check">>],
   [id |-> "Tidy", zone |-> "yellow", commands |-> <<"diff">>],
   [id |-> "tidy", zone |-> "green", commands |-> <<"check", "diff", "stat">>],
   [id |-> "tidy", zone |-> "red", commands |-> <<"diff">>]}

HandMadeRecord(zone, human, required, claims, commands) ==
  [id |-> "Tidy", zone |-> zone, commands |-> commands,
   human |-> human, required |-> required, claims |-> claims]

\* Records the file pack never writes: green ones that want a human, claim
\* authority or propose what is not allowed, and zones it does not know.
Unusual ==
  {HandMadeRecord("green", TRUE, FALSE, FALSE, <<"diff">>),
   HandMadeRecord("green", FALSE, TRUE, FALSE, <<"diff">>),
   HandMadeRecord("green", FALSE, FALSE, TRUE, <<"diff">>),
   HandMadeRecord("green", FALSE, FALSE, FALSE, <<"diff", "publish", "quote">>),
   HandMadeRecord("none", FALSE, FALSE, FALSE, <<"diff">>),
   HandMadeRecord("mauve", FALSE, FALSE, FALSE, <<"diff">>)}

Listed == {<<>>, <<"diff">>, <<"publish">>, <<"quote">>}
=============================================================================
