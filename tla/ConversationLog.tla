--------------------------- MODULE ConversationLog ---------------------------
(***************************************************************************)
(* What direct conversations promise, without handlers, locks, limits or   *)
(* busy flags: a conversation starts empty, and a turn reads the history   *)
(* and appends its own exchange in one step.  The oldest exchanges may be  *)
(* forgotten when one is appended, never the one appended.                 *)
(***************************************************************************)
EXTENDS Naturals, Sequences

CONSTANTS Ids

VARIABLE log    \* for each id whether it is open, and its exchanges

Shut == [open |-> FALSE, messages |-> << >>]
Fresh == [open |-> TRUE, messages |-> << >>]

Init == log = [id \in Ids |-> Shut]

\* A conversation is opened, empty; another one may be dropped to make room.
Open(id, dropped) ==
  /\ log' = [x \in Ids |-> CASE x = id -> Fresh
                            [] x # id /\ x \in dropped -> Shut
                            [] OTHER -> log[x]]
  /\ log[id].open => id \in dropped

Clear(id) ==
  /\ log[id].open
  /\ log' = [log EXCEPT ![id].messages = << >>]

\* The turn that commits saw exactly the history it is appended to.
Turn(id) ==
  /\ log[id].open
  /\ LET before == log[id].messages
         after  == log'[id].messages
     IN  /\ Len(after) \in 1..(Len(before) + 1)
         /\ after[Len(after)].saw = [i \in DOMAIN before |-> before[i].turn]
         /\ SubSeq(after, 1, Len(after) - 1)
              = SubSeq(before, Len(before) + 2 - Len(after), Len(before))
  /\ \A x \in Ids : log'[x].open = log[x].open /\ (x # id => log'[x] = log[x])

\* The process holding the conversations went away.
Forget == log' = [id \in Ids |-> Shut]

Next ==
  \/ \E id \in Ids :
       \/ \E dropped \in {{}} \cup {{x} : x \in Ids} : Open(id, dropped)
       \/ Clear(id)
       \/ Turn(id)
  \/ Forget

Spec == Init /\ [][Next]_log
=============================================================================
