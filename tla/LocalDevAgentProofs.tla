------------------------- MODULE LocalDevAgentProofs -------------------------
(***************************************************************************)
(* Proofs about HarnessWork, for every timeout, poll budget and number of  *)
(* works, answers and ticks: type correctness, that one call of run_work   *)
(* makes at most one run of the Harness, and what a ready outcome means;   *)
(* then proofs about LocalDevAgent, for every budget of rounds, calls,     *)
(* exchanges and messages.  The agent only moves run_work by its own       *)
(* steps, so what is proved of the works holds of the works of an agent.   *)
(***************************************************************************)
EXTENDS LocalDevAgent, TLAPS

-----------------------------------------------------------------------------
(* Delegated work: type correctness *)

LEMMA AppendFacts ==
  ASSUME NEW S, NEW s \in Seq(S), NEW e \in S
  PROVE  /\ Append(s, e) \in Seq(S)
         /\ Len(s) \in Nat
         /\ DOMAIN s = 1..Len(s)
         /\ Len(Append(s, e)) = Len(s) + 1
         /\ DOMAIN Append(s, e) = 1..(Len(s) + 1)
         /\ \A i \in 1..Len(s) : Append(s, e)[i] = s[i]
         /\ Append(s, e)[Len(s) + 1] = e
OBVIOUS

LEMMA QuietType == Quiet \in Wires
BY DEF Quiet, Wires, Statuses

\* Sequences over a set are sequences over a larger one.
LEMMA WiderSeq ==
  ASSUME NEW n \in Nat, NEW s \in Seq(1..n)
  PROVE  s \in Seq(1..(n + 1))
<1>1. /\ Len(s) \in Nat
      /\ \A i \in 1..Len(s) : s[i] \in 1..(n + 1)
  OBVIOUS
<1>2. s = [i \in 1..Len(s) |-> s[i]]
  OBVIOUS
<1> QED
  BY <1>1, <1>2

\* Work under way has a number and, once it was created, a run; before its polls
\* it has made none, the budget stops the others, and no request is on the wire
\* while run_work is idle or asleep.
PollsInBudget ==
  /\ wpc # "idle" => work.no # 0
  /\ wpc \in Lookups \cup {"create"} => work.polls = 0
  /\ wpc = "events" => work.polls < MaxPolls
  /\ wpc \in {"idle", "sleep"} => wire = Quiet
  /\ wpc \in {"events", "review"} /\ wire.stage = "sent" => work.run \in DOMAIN runs
  /\ wpc = "create" /\ wire.stage = "answered" /\ wire.ok => wire.run \in DOMAIN runs
  /\ wire.stage = "sent" => ~ wire.ok
  /\ wpc \in {"events", "sleep", "review"} => work.run \in DOMAIN runs

TypeInv == WorkTypeOK /\ PollsInBudget

LEMMA TypeInit == WorkInit => TypeInv
<1> SUFFICES ASSUME WorkInit PROVE TypeInv
  OBVIOUS
<1> USE QuietType, WorkAssumption DEF WorkInit
<1>1. /\ runs \in Seq(Runs) /\ posts \in Seq(1..work.no)
      /\ work \in Works /\ work.polls <= MaxPolls
  BY DEF NoWork, Works, Statuses
<1>2. WorkTypeOK
  BY <1>1 DEF WorkTypeOK
<1>3. PollsInBudget
  BY DEF PollsInBudget, Lookups, Quiet
<1> QED
  BY <1>2, <1>3 DEF TypeInv

\* The end of run_work, however it comes about.
LEMMA TypeEnd ==
  ASSUME TypeInv, NEW r \in {"none", "ready", "blocked"}, EndWork(r),
         UNCHANGED <<runs, posts, clock, work, misrouted>>,
         GoesAstray
  PROVE  TypeInv'
<1>1. WorkTypeOK'
  <2>1. work.no \in Nat
    BY DEF TypeInv, WorkTypeOK, Works
  <2>2. astray' \subseteq 1..work.no
    BY <2>1 DEF TypeInv, WorkTypeOK, PollsInBudget, GoesAstray
  <2> QED
    BY <2>2, QuietType DEF TypeInv, WorkTypeOK, EndWork
<1>2. PollsInBudget'
  BY DEF PollsInBudget, EndWork, Lookups, Quiet
<1> QED
  BY <1>1, <1>2 DEF TypeInv

\* The end without a submission on the wire.
LEMMA StaysHere == UNCHANGED astray => GoesAstray
BY DEF GoesAstray

LEMMA TypeNext == TypeInv /\ [WorkNext]_workVars => TypeInv'
<1> SUFFICES ASSUME TypeInv, [WorkNext]_workVars PROVE TypeInv'
  OBVIOUS
<1> USE WorkAssumption
<1>0. /\ runs \in Seq(Runs) /\ posts \in Seq(1..work.no) /\ work.no \in Nat
      /\ wire \in Wires /\ work \in Works /\ clock \in Nat
  BY DEF TypeInv, WorkTypeOK, Works
<1>1. CASE StartWork
  <2>1. posts \in Seq(1..(work.no + 1)) /\ astray \subseteq 1..(work.no + 1)
    BY <1>0, WiderSeq DEF TypeInv, WorkTypeOK
  <2>2. work' \in Works /\ work'.no = work.no + 1 /\ work'.polls = 0
    <3>1. work' = [no |-> work.no + 1, deadline |-> clock + Timeout, run |-> 0,
                   polls |-> 0, status |-> "queued"]
      BY <1>1 DEF StartWork, NoWork
    <3> QED BY <1>0, <3>1 DEF Works, Statuses
  <2>3. WorkTypeOK'
    BY <1>1, <2>1, <2>2 DEF StartWork, TypeInv, WorkTypeOK, Requests, Lookups
  <2>4. PollsInBudget'
    BY <1>0, <1>1, <2>2 DEF StartWork, TypeInv, PollsInBudget, Lookups
  <2> QED BY <2>3, <2>4 DEF TypeInv
<1>2. CASE RejectWork
  <2>1. posts \in Seq(1..(work.no + 1)) /\ astray \subseteq 1..(work.no + 1)
    BY <1>0, WiderSeq DEF TypeInv, WorkTypeOK
  <2>2. work' \in Works /\ work'.no = work.no + 1 /\ work'.polls = 0
    <3>1. work' = [no |-> work.no + 1, deadline |-> 0, run |-> 0,
                   polls |-> 0, status |-> "queued"]
      BY <1>2 DEF RejectWork, NoWork
    <3> QED BY <1>0, <3>1 DEF Works, Statuses
  <2>3. WorkTypeOK'
    BY <1>2, <2>1, <2>2 DEF RejectWork, TypeInv, WorkTypeOK
  <2>4. PollsInBudget'
    BY <1>2 DEF RejectWork, TypeInv, PollsInBudget, Lookups
  <2> QED BY <2>3, <2>4 DEF TypeInv
<1>3. CASE Send
  <2>1. wpc # "idle" /\ work.no \in 1..work.no
    BY <1>0, <1>3 DEF Send, Requests, Lookups, TypeInv, PollsInBudget
  <2>2. posts' \in Seq(1..work.no)
    BY <1>0, <1>3, <2>1, AppendFacts DEF Send
  <2>3. /\ wire' \in Wires
        /\ wire'.stage = "sent" /\ ~ wire'.ok
    BY <1>3, QuietType DEF Send, Wires, Quiet
  <2>4. WorkTypeOK'
    BY <1>3, <2>2, <2>3 DEF Send, TypeInv, WorkTypeOK
  <2>5. PollsInBudget'
    BY <1>3, <2>3 DEF Send, TypeInv, PollsInBudget, Requests, Lookups, Quiet
  <2> QED BY <2>4, <2>5 DEF TypeInv
<1>4. CASE TooLate
  BY <1>4, TypeEnd, StaysHere DEF TooLate
<1>5. CASE Refused
  BY <1>5, TypeEnd, StaysHere DEF Refused
<1>6. CASE LookupDone
  <2>1. wpc' \in {"workspaces", "models", "create"} /\ wpc # "idle" /\ work.polls = 0
    BY <1>6 DEF LookupDone, Lookups, Next3, TypeInv, PollsInBudget
  <2>2. WorkTypeOK'
    BY <1>6, <2>1, QuietType DEF LookupDone, TypeInv, WorkTypeOK, Requests, Lookups
  <2>3. PollsInBudget'
    BY <1>6, <2>1 DEF LookupDone, TypeInv, PollsInBudget, Lookups, Quiet
  <2> QED BY <2>2, <2>3 DEF TypeInv
<1>7. CASE CreateDone
  <2>1. wire.run \in DOMAIN runs /\ wire.run \in Nat /\ work.polls = 0
    BY <1>0, <1>7 DEF CreateDone, TypeInv, PollsInBudget, Wires
  <2>2. work' \in Works /\ work'.no = work.no /\ work'.polls = 0 /\ work'.run = wire.run
    BY <1>0, <1>7, <2>1 DEF CreateDone, Works
  <2>3. WorkTypeOK'
    BY <1>7, <2>2, QuietType DEF CreateDone, TypeInv, WorkTypeOK, Requests
  <2>4. PollsInBudget'
    BY <1>7, <2>1, <2>2 DEF CreateDone, TypeInv, PollsInBudget, Lookups, Quiet
  <2> QED BY <2>3, <2>4 DEF TypeInv
<1>8. CASE EventsDone
  <2>1. work.polls \in Nat /\ work.polls < MaxPolls /\ work.run \in DOMAIN runs
        /\ wire.status \in Statuses
    BY <1>0, <1>8 DEF EventsDone, TypeInv, PollsInBudget, Works, Wires
  <2>2. /\ work' \in Works /\ work'.no = work.no /\ work'.run = work.run
        /\ work'.polls = work.polls + 1 /\ work'.status = wire.status
    <3>1. work' = [no |-> work.no, deadline |-> work.deadline, run |-> work.run,
                   polls |-> work.polls + 1, status |-> wire.status]
      BY <1>0, <1>8 DEF EventsDone, Works
    <3> QED BY <1>0, <2>1, <3>1 DEF Works
  <2>3. WorkTypeOK'
    BY <1>8, <2>1, <2>2, QuietType DEF EventsDone, TypeInv, WorkTypeOK, Requests
  <2>4. PollsInBudget'
    BY <1>8, <2>1, <2>2 DEF EventsDone, TypeInv, PollsInBudget, Lookups, Quiet
  <2> QED BY <2>3, <2>4 DEF TypeInv
<1>9. CASE Wake
  <2>1. CASE work.polls < MaxPolls
    <3>1. WorkTypeOK'
      BY <1>9, <2>1 DEF Wake, TypeInv, WorkTypeOK, Requests
    <3>2. PollsInBudget'
      BY <1>9, <2>1 DEF Wake, TypeInv, PollsInBudget, Lookups, Quiet
    <3> QED BY <3>1, <3>2 DEF TypeInv
  <2>2. CASE ~ (work.polls < MaxPolls)
    BY <1>9, <2>2, TypeEnd, StaysHere DEF Wake
  <2> QED BY <2>1, <2>2
<1>10. CASE ReviewDone
  BY <1>10, TypeEnd, StaysHere DEF ReviewDone
<1>11. CASE Fails
  BY <1>11, TypeEnd DEF Fails
<1>12. CASE Dies
  BY <1>12, TypeEnd DEF Dies
<1>13. CASE AnswerLookup
  <2>1. wire' \in Wires /\ wire'.stage = "answered"
    BY <1>0, <1>13 DEF AnswerLookup, Wires
  <2>2. WorkTypeOK'
    BY <1>13, <2>1 DEF AnswerLookup, TypeInv, WorkTypeOK
  <2>3. PollsInBudget'
    BY <1>13, <2>1 DEF AnswerLookup, TypeInv, PollsInBudget, Lookups
  <2> QED BY <2>2, <2>3 DEF TypeInv
<1>14. CASE AnswerCreate
  <2>1. /\ runs' \in Seq(Runs) /\ DOMAIN runs \subseteq DOMAIN runs'
        /\ Len(runs) + 1 \in Nat
        /\ runs' # runs => Len(runs) + 1 \in DOMAIN runs'
    <3>1. NewRun(work.no) \in Runs
      BY <1>0 DEF NewRun, Runs, Statuses
    <3>2. CASE runs' = runs
      BY <1>0, <3>2
    <3>3. CASE runs' = Append(runs, NewRun(work.no))
      BY <1>0, <3>1, <3>3, AppendFacts
    <3> QED BY <1>14, <3>2, <3>3 DEF AnswerCreate
  <2>2. /\ wire' \in Wires /\ wire'.stage = "answered"
        /\ wire'.ok => wire'.run \in DOMAIN runs'
    <3>1. CASE /\ runs' = Append(runs, NewRun(work.no))
               /\ wire' = [wire EXCEPT !.stage = "answered", !.ok = TRUE, !.run = Len(runs) + 1]
      <4>1. Len(runs) + 1 \in DOMAIN runs'
        <5>1. NewRun(work.no) \in Runs
          BY <1>0 DEF NewRun, Runs, Statuses
        <5> QED BY <1>0, <3>1, <5>1, AppendFacts
      <4> QED BY <1>0, <2>1, <3>1, <4>1 DEF Wires
    <3>2. CASE wire' = [wire EXCEPT !.stage = "answered"]
      <4>1. ~ wire.ok
        BY <1>14 DEF AnswerCreate, TypeInv, PollsInBudget
      <4> QED BY <1>0, <3>2, <4>1 DEF Wires
    <3> QED BY <1>14, <3>1, <3>2 DEF AnswerCreate
  <2>3. WorkTypeOK'
    BY <1>14, <2>1, <2>2 DEF AnswerCreate, TypeInv, WorkTypeOK
  <2>4. PollsInBudget'
    BY <1>14, <2>1, <2>2 DEF AnswerCreate, TypeInv, PollsInBudget, Lookups
  <2> QED BY <2>3, <2>4 DEF TypeInv
<1>15. CASE AnswerRun
  <2>1. /\ wire' \in Wires /\ wire'.stage = "answered"
    <3>1. ASSUME NEW r \in DOMAIN runs, About(r)
          PROVE  wire' \in Wires /\ wire'.stage = "answered"
      <4>1. r \in Nat /\ runs[r] \in Runs
        BY <1>0
      <4> QED BY <3>1, <4>1 DEF About, Wires, Runs
    <3>2. wire' = [wire EXCEPT !.stage = "answered"]
          => wire' \in Wires /\ wire'.stage = "answered"
      BY <1>0 DEF Wires
    <3>3. work.run \in DOMAIN runs
      BY <1>15 DEF AnswerRun, TypeInv, PollsInBudget
    <3> QED BY <1>15, <3>1, <3>2, <3>3 DEF AnswerRun
  <2>2. misrouted' \in Nat
    BY <1>15 DEF AnswerRun, TypeInv, WorkTypeOK
  <2>3. WorkTypeOK'
    BY <1>15, <2>1, <2>2 DEF AnswerRun, TypeInv, WorkTypeOK
  <2>4. PollsInBudget'
    BY <1>15, <2>1 DEF AnswerRun, TypeInv, PollsInBudget, Lookups
  <2> QED BY <2>3, <2>4 DEF TypeInv
<1>16. CASE StrayArrives
  <2>1. /\ runs' \in Seq(Runs) /\ DOMAIN runs \subseteq DOMAIN runs'
        /\ astray' \subseteq astray
    <3>1. PICK n \in astray : runs' = Append(runs, NewRun(n)) /\ astray' = astray \ {n}
      BY <1>16 DEF StrayArrives
    <3>2. NewRun(n) \in Runs
      BY <1>0 DEF NewRun, Runs, Statuses, TypeInv, WorkTypeOK
    <3> QED BY <1>0, <3>1, <3>2, AppendFacts
  <2>2. WorkTypeOK'
    BY <1>16, <2>1 DEF StrayArrives, TypeInv, WorkTypeOK
  <2>3. PollsInBudget'
    BY <1>16, <2>1 DEF StrayArrives, TypeInv, PollsInBudget, Lookups
  <2> QED BY <2>2, <2>3 DEF TypeInv
<1>17. ASSUME NEW r \in DOMAIN runs, RunStarts(r) \/ RunEnds(r)
       PROVE  TypeInv'
  <2>1. runs' \in Seq(Runs) /\ DOMAIN runs' = DOMAIN runs
    <3>1. runs[r] \in Runs
      BY <1>0
    <3>2. CASE RunStarts(r)
      <4>1. [runs[r] EXCEPT !.status = "running"] \in Runs
        BY <3>1 DEF Runs, Statuses
      <4> QED BY <1>0, <3>2, <4>1 DEF RunStarts
    <3>3. CASE RunEnds(r)
      <4>1. PICK s \in Terminal, p \in BOOLEAN, c \in BOOLEAN :
              runs' = [runs EXCEPT ![r].status = s, ![r].passed = p, ![r].changed = c]
        BY <3>3 DEF RunEnds
      <4>2. [runs[r] EXCEPT !.status = s, !.passed = p, !.changed = c] \in Runs
        BY <3>1 DEF Runs, Statuses
      <4>3. runs' = [runs EXCEPT ![r] = [runs[r] EXCEPT !.status = s, !.passed = p, !.changed = c]]
        BY <1>0, <4>1
      <4> QED BY <1>0, <4>2, <4>3
    <3> QED BY <1>17, <3>2, <3>3
  <2>2. WorkTypeOK'
    BY <1>17, <2>1 DEF RunStarts, RunEnds, TypeInv, WorkTypeOK
  <2>3. PollsInBudget'
    BY <1>17, <2>1 DEF RunStarts, RunEnds, TypeInv, PollsInBudget, Lookups
  <2> QED BY <2>2, <2>3 DEF TypeInv
<1>18. CASE Tick \/ UNCHANGED workVars
  <2>1. clock' \in Nat
    BY <1>0, <1>18 DEF Tick, workVars
  <2>2. WorkTypeOK'
    BY <1>18, <2>1 DEF Tick, workVars, TypeInv, WorkTypeOK
  <2>3. PollsInBudget'
    BY <1>18 DEF Tick, workVars, TypeInv, PollsInBudget
  <2> QED BY <2>2, <2>3 DEF TypeInv
<1> QED
  BY <1>1, <1>2, <1>3, <1>4, <1>5, <1>6, <1>7, <1>8, <1>9, <1>10, <1>11, <1>12, <1>13,
     <1>14, <1>15, <1>16, <1>17, <1>18
     DEF WorkNext, Client, Harness, Answer

\* Types; no poll beyond the budget, no review of a run not seen terminal.
THEOREM WorkTypeCorrect == WorkSpec => []WorkTypeOK
<1>1. TypeInv => WorkTypeOK
  BY DEF TypeInv
<1> QED
  BY <1>1, TypeInit, TypeNext, PTL DEF WorkSpec

-----------------------------------------------------------------------------
(* Delegated work: at most one run *)

Posted(n) == \E k \in DOMAIN posts : posts[k] = n

HasRun(n) == \E i \in DOMAIN runs : runs[i].work = n

\* Every run, and every submission that may still arrive, was posted; what may
\* still arrive has no run yet.  The work under way is not posted before
\* "create" is sent, and while it is on the wire it has no run either.
OneRunEach == \A i, j \in DOMAIN runs : runs[i].work = runs[j].work => i = j

RunsPosted == \A i \in DOMAIN runs : Posted(runs[i].work)

StraysWait == \A n \in astray : Posted(n) /\ ~ HasRun(n)

NotPostedYet ==
  wpc \in Lookups \/ (wpc = "create" /\ wire.stage = "none") => ~ Posted(work.no)

OnTheWire ==
  wpc = "create" /\ wire.stage = "sent" =>
    Posted(work.no) /\ ~ HasRun(work.no) /\ work.no \notin astray

Delivered == OneRunEach /\ RunsPosted /\ StraysWait /\ NotPostedYet /\ OnTheWire

LEMMA DeliveredInit == WorkInit => Delivered
BY DEF WorkInit, Delivered, Lookups,
       OneRunEach, RunsPosted, StraysWait, NotPostedYet, OnTheWire

\* The steps that send and create nothing.
LEMMA DeliveredQuiet ==
  ASSUME TypeInv, Delivered, UNCHANGED posts,
         DOMAIN runs' = DOMAIN runs,
         \A i \in DOMAIN runs : runs'[i].work = runs[i].work,
         GoesAstray,
         \/ wpc' \notin Lookups \cup {"create"}
         \/ wpc' = "create" /\ wire'.stage = "answered"
         \/ /\ wpc \in Lookups
            /\ wpc' \in Lookups \cup {"create"}
            /\ work'.no = work.no
            /\ wire'.stage # "sent"
         \/ UNCHANGED <<wpc, wire, work, astray>>
  PROVE  Delivered'
<1>1. \A n : Posted(n)' = Posted(n)
  BY DEF Posted
<1>2. \A n : HasRun(n)' = HasRun(n)
  BY DEF HasRun
<1>3. StraysWait'
  BY <1>1, <1>2 DEF GoesAstray, Delivered, StraysWait, OnTheWire
<1>4. OneRunEach'
  BY DEF Delivered, OneRunEach
<1>5. RunsPosted'
  BY <1>1 DEF Delivered, RunsPosted
<1>6. NotPostedYet'
  BY <1>1 DEF Delivered, NotPostedYet, Lookups
<1>7. OnTheWire'
  BY <1>1, <1>2 DEF Delivered, OnTheWire, Lookups
<1> QED
  BY <1>3, <1>4, <1>5, <1>6, <1>7 DEF Delivered

\* A run is created for a submission that was posted and has none.
LEMMA DeliveredCreates ==
  ASSUME TypeInv, Delivered, NEW n \in Nat, Posted(n), ~ HasRun(n),
         runs' = Append(runs, NewRun(n)), UNCHANGED posts,
         astray' \subseteq astray, n \notin astray'
  PROVE  /\ OneRunEach' /\ RunsPosted' /\ StraysWait'
         /\ \A m : HasRun(m)' => HasRun(m) \/ m = n
         /\ \A m : Posted(m)' = Posted(m)
<1>1. runs \in Seq(Runs) /\ NewRun(n) \in Runs /\ NewRun(n).work = n
  BY DEF TypeInv, WorkTypeOK, NewRun, Runs, Statuses
<1>2. /\ Len(runs) \in Nat
      /\ DOMAIN runs = 1..Len(runs) /\ DOMAIN runs' = 1..(Len(runs) + 1)
      /\ \A i \in 1..Len(runs) : runs'[i] = runs[i]
      /\ runs'[Len(runs) + 1] = NewRun(n)
  BY <1>1, AppendFacts
<1>3. \A i \in DOMAIN runs' :
        \/ i \in DOMAIN runs /\ runs'[i].work = runs[i].work /\ runs[i].work # n
        \/ i = Len(runs) + 1 /\ runs'[i].work = n
  BY <1>1, <1>2 DEF HasRun
<1>4. \A m : Posted(m)' = Posted(m)
  BY DEF Posted
<1>5. \A m : HasRun(m)' => HasRun(m) \/ m = n
  BY <1>3 DEF HasRun
<1> QED
  BY <1>3, <1>4, <1>5 DEF Delivered, OneRunEach, RunsPosted, StraysWait

LEMMA DeliveredNext == TypeInv /\ Delivered /\ [WorkNext]_workVars => Delivered'
<1> SUFFICES ASSUME TypeInv, Delivered, [WorkNext]_workVars PROVE Delivered'
  OBVIOUS
<1>0. /\ posts \in Seq(1..work.no) /\ work.no \in Nat
  BY DEF TypeInv, WorkTypeOK, Works
<1>1. CASE StartWork \/ RejectWork
  <2>1. UNCHANGED <<runs, astray, posts>> /\ wpc' \in {"idle", "contract"}
    BY <1>1 DEF StartWork, RejectWork
  <2>2. wpc' = "contract" => work'.no = work.no + 1
    BY <1>1 DEF StartWork, RejectWork, NoWork
  <2>3. ~ Posted(work.no + 1)
    BY <1>0 DEF Posted
  <2>4. \A n : Posted(n)' = Posted(n) /\ HasRun(n)' = HasRun(n)
    BY <2>1 DEF Posted, HasRun
  <2> QED
    BY <2>1, <2>2, <2>3, <2>4 DEF Delivered, Lookups,
       OneRunEach, RunsPosted, StraysWait, NotPostedYet, OnTheWire
<1>2. CASE Send
  <2>1. UNCHANGED <<runs, astray, wpc, work>> /\ wire'.stage = "sent" /\ wire.stage = "none"
    BY <1>2, QuietType DEF Send, Quiet
  <2>2. CASE wpc = "create"
    <3>1. work.no \in 1..work.no
      BY <1>0, <2>2 DEF TypeInv, PollsInBudget
    <3>2. posts' = Append(posts, work.no)
      BY <1>2, <2>2 DEF Send
    <3>3. /\ \A n : Posted(n) => Posted(n)'
          /\ Posted(work.no)'
      <4>1. /\ DOMAIN posts = 1..Len(posts) /\ DOMAIN posts' = 1..(Len(posts) + 1)
            /\ Len(posts) \in Nat
            /\ \A k \in 1..Len(posts) : posts'[k] = posts[k]
            /\ posts'[Len(posts) + 1] = work.no
        BY <1>0, <3>1, <3>2, AppendFacts
      <4> QED BY <2>1, <4>1 DEF Posted
    <3>4. ~ HasRun(work.no) /\ work.no \notin astray
      BY <2>1, <2>2 DEF Delivered, RunsPosted, StraysWait, NotPostedYet, HasRun
    <3>5. \A n : HasRun(n)' = HasRun(n)
      BY <2>1 DEF HasRun
    <3> QED
      BY <2>1, <2>2, <3>3, <3>4, <3>5 DEF Delivered, Lookups,
       OneRunEach, RunsPosted, StraysWait, NotPostedYet, OnTheWire
  <2>3. CASE wpc # "create"
    <3>1. posts' = posts
      BY <1>2, <2>3 DEF Send
    <3>2. \A n : Posted(n)' = Posted(n) /\ HasRun(n)' = HasRun(n)
      BY <2>1, <3>1 DEF Posted, HasRun
    <3> QED
      BY <2>1, <2>3, <3>2 DEF Delivered,
       OneRunEach, RunsPosted, StraysWait, NotPostedYet, OnTheWire
  <2> QED BY <2>2, <2>3
<1>3. CASE TooLate \/ Refused \/ ReviewDone
  BY <1>3, DeliveredQuiet, StaysHere DEF TooLate, Refused, ReviewDone, EndWork, Lookups
<1>4. CASE LookupDone
  <2>1. wpc' \in {"workspaces", "models", "create"} /\ wire'.stage = "none"
    BY <1>4 DEF LookupDone, Lookups, Next3, Quiet
  <2> QED
    BY <1>4, <2>1, DeliveredQuiet, StaysHere DEF LookupDone, Lookups
<1>5. CASE CreateDone \/ EventsDone \/ Wake
  BY <1>5, DeliveredQuiet, StaysHere DEF CreateDone, EventsDone, Wake, EndWork, Lookups
<1>6. CASE Fails \/ Dies
  BY <1>6, DeliveredQuiet DEF Fails, Dies, EndWork, Lookups
<1>7. CASE AnswerLookup \/ AnswerRun
  <2>1. wpc # "create" /\ UNCHANGED <<runs, astray, posts, wpc, work>>
    BY <1>7 DEF AnswerLookup, AnswerRun, Lookups
  <2>2. \A n : Posted(n)' = Posted(n) /\ HasRun(n)' = HasRun(n)
    BY <2>1 DEF Posted, HasRun
  <2> QED BY <2>1, <2>2 DEF Delivered,
       OneRunEach, RunsPosted, StraysWait, NotPostedYet, OnTheWire
<1>8. CASE AnswerCreate
  <2>1. wpc = "create" /\ wire.stage = "sent" /\ wire'.stage = "answered"
        /\ UNCHANGED <<astray, posts, wpc, work>>
    BY <1>8 DEF AnswerCreate, TypeInv, WorkTypeOK, Wires
  <2>2. CASE runs' = Append(runs, NewRun(work.no))
    <3>1. Posted(work.no) /\ ~ HasRun(work.no) /\ work.no \notin astray'
      BY <2>1 DEF Delivered, OnTheWire
    <3> QED
      BY <1>0, <2>1, <2>2, <3>1, DeliveredCreates DEF Delivered, NotPostedYet, OnTheWire, Lookups
  <2>3. CASE UNCHANGED runs
    BY <2>1, <2>3, DeliveredQuiet, StaysHere DEF Lookups
  <2> QED BY <1>8, <2>2, <2>3 DEF AnswerCreate
<1>9. CASE StrayArrives
  <2>1. PICK n \in astray : runs' = Append(runs, NewRun(n)) /\ astray' = astray \ {n}
                            /\ UNCHANGED <<posts, wpc, wire, work>>
    BY <1>9 DEF StrayArrives
  <2>2. n \in Nat /\ Posted(n) /\ ~ HasRun(n) /\ n \notin astray'
    BY <2>1 DEF Delivered, StraysWait, TypeInv, WorkTypeOK
  <2>3. /\ OneRunEach' /\ RunsPosted' /\ StraysWait'
        /\ \A m : HasRun(m)' => HasRun(m) \/ m = n
        /\ \A m : Posted(m)' = Posted(m)
    BY <2>1, <2>2, DeliveredCreates
  <2>4. OnTheWire'
    BY <2>1, <2>3 DEF Delivered, OnTheWire, StraysWait
  <2>5. NotPostedYet'
    BY <2>1, <2>3 DEF Delivered, NotPostedYet
  <2> QED
    BY <2>3, <2>4, <2>5 DEF Delivered
<1>10. ASSUME NEW r \in DOMAIN runs, RunStarts(r) \/ RunEnds(r)
       PROVE  Delivered'
  <2>1. DOMAIN runs' = DOMAIN runs /\ \A i \in DOMAIN runs : runs'[i].work = runs[i].work
    <3>1. DOMAIN runs' = DOMAIN runs /\ \A i \in DOMAIN runs : i # r => runs'[i] = runs[i]
      BY <1>10 DEF RunStarts, RunEnds
    <3>2. runs[r] \in Runs
      BY DEF TypeInv, WorkTypeOK
    <3>3. runs'[r].work = runs[r].work
      <4>1. runs \in Seq(Runs)
        BY DEF TypeInv, WorkTypeOK
      <4>2. RunStarts(r) => runs'[r].work = runs[r].work
        BY <3>2, <4>1 DEF RunStarts, Runs
      <4>3. RunEnds(r) => runs'[r].work = runs[r].work
        <5> SUFFICES ASSUME RunEnds(r) PROVE runs'[r].work = runs[r].work
          OBVIOUS
        <5>1. PICK s \in Terminal, p \in BOOLEAN, c \in BOOLEAN :
                runs' = [runs EXCEPT ![r].status = s, ![r].passed = p, ![r].changed = c]
          BY DEF RunEnds
        <5>2. runs'[r] = [runs[r] EXCEPT !.status = s, !.passed = p, !.changed = c]
          BY <4>1, <5>1
        <5> QED BY <3>2, <5>2 DEF Runs
      <4> QED BY <1>10, <4>2, <4>3
    <3> QED BY <3>1, <3>3
  <2> QED
    BY <1>10, <2>1, DeliveredQuiet, StaysHere DEF RunStarts, RunEnds
<1>11. CASE Tick \/ UNCHANGED workVars
  BY <1>11, DeliveredQuiet, StaysHere DEF Tick, workVars
<1> QED
  BY <1>1, <1>2, <1>3, <1>4, <1>5, <1>6, <1>7, <1>8, <1>9, <1>10, <1>11
     DEF WorkNext, Client, Harness, Answer

\* Whatever is lost, late or misrouted, one call of run_work makes at most one
\* run of the Harness, and none it did not post.
THEOREM AtMostOneRunTheorem == WorkSpec => []AtMostOneRun
<1>1. Delivered => AtMostOneRun
  BY DEF Delivered, OneRunEach, RunsPosted, AtMostOneRun, Posted
<1> QED
  BY <1>1, TypeInit, TypeNext, DeliveredInit, DeliveredNext, PTL DEF WorkSpec

-----------------------------------------------------------------------------
(* What a ready outcome rests on *)

\* The answer to "create" names a run of the work under way, and from then on
\* run_work asks about that run only.
OwnRun ==
  /\ wpc = "create" /\ wire.stage = "answered" /\ wire.ok =>
       runs[wire.run].work = work.no
  /\ wpc \in {"events", "sleep", "review"} => runs[work.run].work = work.no

\* An answer that says terminal is what the run it names still is.
FinalAnswer ==
  wpc \in {"events", "review"} /\ wire.stage = "answered" /\ wire.ok =>
    /\ wire.run \in DOMAIN runs
    /\ wire.status \in Terminal =>
         /\ runs[wire.run].status = wire.status
         /\ runs[wire.run].passed = wire.passed
         /\ runs[wire.run].changed = wire.changed

ReadyInv == OwnRun /\ FinalAnswer /\ ReadyIsReviewed

\* No run goes away, changes its work or leaves a terminal status.
RunsStand ==
  \A r \in DOMAIN runs :
    /\ r \in DOMAIN runs'
    /\ runs'[r].work = runs[r].work
    /\ runs[r].status \in Terminal => runs'[r] = runs[r]

LEMMA RunsStandNext == TypeInv /\ [WorkNext]_workVars => RunsStand
<1> SUFFICES ASSUME TypeInv, [WorkNext]_workVars PROVE RunsStand
  OBVIOUS
<1>0. /\ runs \in Seq(Runs) /\ work.no \in Nat
      /\ \A n \in astray : n \in Nat
  BY DEF TypeInv, WorkTypeOK, Works
<1>1. ASSUME NEW n \in Nat, runs' = Append(runs, NewRun(n))
      PROVE  RunsStand
  <2>1. NewRun(n) \in Runs
    BY DEF NewRun, Runs, Statuses
  <2> QED BY <1>0, <1>1, <2>1, AppendFacts DEF RunsStand
<1>2. ASSUME NEW r \in DOMAIN runs, RunStarts(r)
      PROVE  RunsStand
  <2>1. runs[r] \in Runs
    BY <1>0
  <2>2. /\ DOMAIN runs' = DOMAIN runs
        /\ runs'[r].work = runs[r].work
        /\ runs[r].status \notin Terminal
        /\ \A i \in DOMAIN runs \ {r} : runs'[i] = runs[i]
    BY <1>0, <1>2, <2>1 DEF RunStarts, Runs, Terminal
  <2> QED BY <2>2 DEF RunsStand
<1>3. ASSUME NEW r \in DOMAIN runs, RunEnds(r)
      PROVE  RunsStand
  <2>1. PICK s \in Terminal, p \in BOOLEAN, c \in BOOLEAN :
          runs' = [runs EXCEPT ![r].status = s, ![r].passed = p, ![r].changed = c]
    BY <1>3 DEF RunEnds
  <2>2. runs'[r] = [runs[r] EXCEPT !.status = s, !.passed = p, !.changed = c]
        /\ DOMAIN runs' = DOMAIN runs
    BY <1>0, <2>1
  <2>3. runs[r] \in Runs
    BY <1>0
  <2>4. runs'[r].work = runs[r].work
    BY <2>2, <2>3 DEF Runs
  <2>5. runs[r].status \notin Terminal
    BY <1>3 DEF RunEnds, Terminal
  <2>6. \A i \in DOMAIN runs \ {r} : runs'[i] = runs[i]
    BY <1>0, <2>1
  <2> QED BY <2>2, <2>4, <2>5, <2>6 DEF RunsStand
<1>4. CASE UNCHANGED runs
  BY <1>4 DEF RunsStand
<1>5. CASE AnswerCreate
  BY <1>0, <1>1, <1>4, <1>5 DEF AnswerCreate
<1>6. CASE StrayArrives
  BY <1>0, <1>1, <1>6 DEF StrayArrives
<1>7. CASE StartWork \/ RejectWork \/ Client \/ Fails \/ Dies \/ AnswerLookup \/ AnswerRun
           \/ Tick \/ UNCHANGED workVars
  BY <1>4, <1>7
     DEF StartWork, RejectWork, Client, Fails, Dies, AnswerLookup, AnswerRun, Tick, workVars,
         Send, TooLate, Refused, LookupDone, CreateDone, EventsDone, Wake, ReviewDone
<1> QED
  BY <1>2, <1>3, <1>5, <1>6, <1>7 DEF WorkNext, Harness, Answer

LEMMA ReadyInit == WorkInit => ReadyInv
BY DEF WorkInit, ReadyInv, OwnRun, FinalAnswer, ReadyIsReviewed

\* A run that is not there anymore is all that could spoil a ready outcome.
LEMMA ReadyStays ==
  ASSUME TypeInv, ReadyIsReviewed, RunsStand, work'.no = work.no, outcome' = outcome
  PROVE  ReadyIsReviewed'
BY DEF ReadyIsReviewed, RunsStand, Terminal

LEMMA ReadyNext == TypeInv /\ ReadyInv /\ [WorkNext]_workVars => ReadyInv'
<1> SUFFICES ASSUME TypeInv, ReadyInv, [WorkNext]_workVars PROVE ReadyInv'
  OBVIOUS
<1> USE DEF ReadyInv
<1>0. RunsStand /\ TypeInv' /\ PollsInBudget /\ wire \in Wires /\ work \in Works
  BY RunsStandNext, TypeNext DEF TypeInv, WorkTypeOK
\* The steps after which run_work has no answer in hand.
<1>1. ASSUME wpc' \notin {"events", "sleep", "review"}, wire'.stage = "none"
      PROVE  OwnRun' /\ FinalAnswer'
  BY <1>1 DEF OwnRun, FinalAnswer
\* The steps that leave run_work and the wire alone.
<1>2. ASSUME UNCHANGED <<wpc, wire, work, outcome>>
      PROVE  ReadyInv'
  <2>1. OwnRun' /\ FinalAnswer'
    BY <1>0, <1>2 DEF OwnRun, FinalAnswer, RunsStand, PollsInBudget
  <2>2. ReadyIsReviewed'
    BY <1>0, <1>2, ReadyStays
  <2> QED BY <2>1, <2>2
<1>3. CASE StartWork
  BY <1>3, <1>0, <1>1 DEF StartWork, PollsInBudget, Quiet, ReadyIsReviewed
<1>4. CASE RejectWork
  BY <1>4, <1>0, <1>1 DEF RejectWork, PollsInBudget, Quiet, ReadyIsReviewed
<1>5. ASSUME NEW r \in {"none", "blocked"}, EndWork(r)
      PROVE  ReadyInv'
  BY <1>5, <1>1 DEF EndWork, Quiet, ReadyIsReviewed
<1>6. CASE Send
  <2>1. UNCHANGED <<wpc, work, outcome>> /\ wire'.stage = "sent"
    BY <1>6 DEF Send, Quiet
  <2>2. OwnRun' /\ FinalAnswer'
    BY <1>0, <2>1 DEF OwnRun, FinalAnswer, RunsStand, PollsInBudget
  <2> QED BY <1>0, <2>1, <2>2, ReadyStays
<1>7. CASE LookupDone
  <2>1. wpc' \in {"workspaces", "models", "create"} /\ wire'.stage = "none"
        /\ UNCHANGED <<work, outcome>>
    BY <1>7 DEF LookupDone, Lookups, Next3, Quiet
  <2> QED BY <1>0, <1>1, <2>1, ReadyStays
<1>8. CASE CreateDone
  <2>1. /\ wpc' = "events" /\ wire'.stage = "none" /\ outcome' = outcome
        /\ work'.no = work.no /\ work'.run = wire.run
    BY <1>0, <1>8 DEF CreateDone, Quiet, Works
  <2>2. wire.run \in DOMAIN runs /\ runs[wire.run].work = work.no
    BY <1>8, <1>0 DEF CreateDone, PollsInBudget, OwnRun
  <2>3. OwnRun' /\ FinalAnswer'
    BY <1>0, <2>1, <2>2 DEF OwnRun, FinalAnswer, RunsStand
  <2> QED BY <1>0, <2>1, <2>3, ReadyStays
<1>9. CASE EventsDone
  <2>1. /\ wpc' \in {"sleep", "review"} /\ wire'.stage = "none" /\ outcome' = outcome
        /\ wpc = "events" /\ work'.no = work.no /\ work'.run = work.run
    BY <1>0, <1>9 DEF EventsDone, Quiet, Works
  <2>2. OwnRun' /\ FinalAnswer'
    BY <1>0, <2>1 DEF OwnRun, FinalAnswer, RunsStand, PollsInBudget
  <2> QED BY <1>0, <2>1, <2>2, ReadyStays
<1>10. CASE Wake /\ work.polls < MaxPolls
  <2>1. wpc = "sleep" /\ wpc' = "events" /\ UNCHANGED <<wire, work, outcome>>
        /\ wire.stage = "none"
    BY <1>0, <1>10 DEF Wake, PollsInBudget, Quiet
  <2>2. OwnRun' /\ FinalAnswer'
    BY <1>0, <2>1 DEF OwnRun, FinalAnswer, RunsStand, PollsInBudget
  <2> QED BY <1>0, <2>1, <2>2, ReadyStays
<1>11. CASE ReviewDone
  <2>1. CASE Accepted
    <3>1. /\ wpc' = "idle" /\ wire'.stage = "none" /\ UNCHANGED <<runs, work>>
      BY <1>11 DEF ReviewDone, EndWork, Quiet
    <3>2. /\ work.run \in DOMAIN runs /\ runs[work.run].work = work.no
      BY <1>0, <1>11 DEF ReviewDone, PollsInBudget, OwnRun
    <3>3. /\ runs[work.run].status = "succeeded"
          /\ runs[work.run].passed /\ runs[work.run].changed
      BY <1>11, <2>1 DEF ReviewDone, FinalAnswer, Accepted, Terminal
    <3>4. ReadyIsReviewed'
      BY <3>1, <3>2, <3>3 DEF ReadyIsReviewed
    <3> QED BY <1>1, <3>1, <3>4
  <2>2. CASE ~ Accepted
    BY <1>5, <1>11, <2>2 DEF ReviewDone
  <2> QED BY <2>1, <2>2
<1>12. CASE AnswerLookup
  <2>1. wpc \in Lookups /\ UNCHANGED <<wpc, work, outcome>>
    BY <1>12 DEF AnswerLookup
  <2>2. OwnRun' /\ FinalAnswer'
    BY <2>1 DEF OwnRun, FinalAnswer, Lookups
  <2> QED BY <1>0, <2>1, <2>2, ReadyStays
<1>13. CASE AnswerCreate
  <2>1. /\ wpc = "create" /\ UNCHANGED <<wpc, work, outcome>> /\ ~ wire.ok
    BY <1>0, <1>13 DEF AnswerCreate, PollsInBudget
  <2>2. CASE /\ runs' = Append(runs, NewRun(work.no))
             /\ wire' = [wire EXCEPT !.stage = "answered", !.ok = TRUE, !.run = Len(runs) + 1]
    <3>1. runs \in Seq(Runs) /\ NewRun(work.no) \in Runs /\ NewRun(work.no).work = work.no
      BY DEF TypeInv, WorkTypeOK, NewRun, Runs, Statuses, Works
    <3>2. wire'.run = Len(runs) + 1 /\ runs'[Len(runs) + 1].work = work.no
      BY <1>0, <2>2, <3>1, AppendFacts DEF Wires
    <3> QED BY <1>0, <2>1, <3>2, ReadyStays DEF OwnRun, FinalAnswer
  <2>3. CASE wire' = [wire EXCEPT !.stage = "answered"]
    <3>1. ~ wire'.ok
      BY <1>0, <2>1, <2>3 DEF Wires
    <3> QED BY <1>0, <2>1, <3>1, ReadyStays DEF OwnRun, FinalAnswer
  <2> QED BY <1>13, <2>2, <2>3 DEF AnswerCreate
<1>14. CASE AnswerRun
  <2>1. /\ wpc \in {"events", "review"} /\ UNCHANGED <<runs, wpc, work, outcome>> /\ ~ wire.ok
        /\ work.run \in DOMAIN runs
    BY <1>0, <1>14 DEF AnswerRun, PollsInBudget
  <2>2. OwnRun'
    BY <2>1 DEF OwnRun
  <2>3. FinalAnswer'
    <3>1. ASSUME NEW r \in DOMAIN runs, About(r)
          PROVE  FinalAnswer'
      BY <2>1, <3>1 DEF About, FinalAnswer
    <3>2. CASE wire' = [wire EXCEPT !.stage = "answered"]
      <4>1. ~ wire'.ok
        BY <1>0, <2>1, <3>2 DEF Wires
      <4> QED BY <4>1 DEF FinalAnswer
    <3> QED BY <1>14, <2>1, <3>1, <3>2 DEF AnswerRun
  <2> QED BY <1>0, <2>1, <2>2, <2>3, ReadyStays
<1>15. CASE TooLate \/ Refused \/ Fails \/ Dies
  BY <1>5, <1>15 DEF TooLate, Refused, Fails, Dies
<1>16. CASE Wake /\ ~ (work.polls < MaxPolls)
  BY <1>5, <1>16 DEF Wake
<1>17. CASE StrayArrives \/ (\E r \in DOMAIN runs : RunStarts(r) \/ RunEnds(r)) \/ Tick
            \/ UNCHANGED workVars
  BY <1>2, <1>17 DEF StrayArrives, RunStarts, RunEnds, Tick, workVars
<1> QED
  BY <1>3, <1>4, <1>6, <1>7, <1>8, <1>9, <1>10, <1>11, <1>12, <1>13, <1>14, <1>15, <1>16,
     <1>17 DEF WorkNext, Client, Harness, Answer

\* A ready outcome means that the run this very call created succeeded, was
\* validated and changed something, whatever other runs were answered about.
THEOREM ReadyIsReviewedTheorem == WorkSpec => []ReadyIsReviewed
<1>1. ReadyInv => ReadyIsReviewed
  BY DEF ReadyInv
<1> QED
  BY <1>1, TypeInit, TypeNext, ReadyInit, ReadyNext, PTL DEF WorkSpec

-----------------------------------------------------------------------------
(* The agent: the inductive invariant *)

\* A message is worked on once it was submitted, and then until it ends; no work
\* is under way otherwise.
Submitted ==
  /\ ask.attempted <=> apc = "work"
  /\ apc # "work" => wpc = "idle"
  /\ apc = "work" => work.no # 0 /\ askOf[work.no] = ask.no

\* The message being answered is a new one.
Current ==
  /\ apc # "idle" => ask.no # 0 /\ result.ask < ask.no
  /\ apc = "tools" => ask.round < MaxRounds
  /\ apc # "idle" => \A i \in DOMAIN history : history[i] # ask.no
  /\ apc \in {"round", "tools"} => \A w \in DOMAIN askOf : askOf[w] # ask.no
  /\ result.ask <= ask.no

\* No two works were started for one message.
OneWorkEach == \A v, w \in DOMAIN askOf : askOf[v] = askOf[w] => v = w

\* A result that says nothing was submitted is about a message without a work.
Unsubmitted ==
  ~ result.attempted => \A w \in DOMAIN askOf : askOf[w] # result.ask

AgentInv == AgentTypeOK /\ Submitted /\ Current /\ OneWorkEach /\ Unsubmitted

-----------------------------------------------------------------------------
(* Steps *)

\* The agent moves run_work by its own steps only.
LEMMA AgentDelegates == [AgentNext]_agentVars => [WorkNext]_workVars
BY DEF AgentNext, AgentStep, Outside, Ask, ModelUnusable, ModelFinal, ModelCalls, ToolOther,
       NextRound, ToolWorkRefused, ToolWork, WorkDone, NewSession, AgentDies, agentVars, WorkNext

\* What is submitted is counted by its work.
LEMMA WorkCounts ==
  ASSUME TypeInv, [WorkNext]_workVars
  PROVE  \/ (StartWork \/ RejectWork) /\ work'.no = work.no + 1
         \/ ~ (StartWork \/ RejectWork) /\ work'.no = work.no
<1>1. work \in Works /\ wire \in Wires
  BY DEF TypeInv, WorkTypeOK
<1>2. CASE StartWork \/ RejectWork
  BY <1>1, <1>2 DEF StartWork, RejectWork, NoWork, Works
<1>3. CASE ~ (StartWork \/ RejectWork)
  <2>1. CreateDone \/ EventsDone => work'.no = work.no
    BY <1>1 DEF CreateDone, EventsDone, Works
  <2>2. UNCHANGED work \/ CreateDone \/ EventsDone
    BY <1>3 DEF WorkNext, Client, Harness, Answer, Send, TooLate, Refused, LookupDone, Wake,
                ReviewDone, Fails, Dies, AnswerLookup, AnswerCreate, AnswerRun, StrayArrives,
                RunStarts, RunEnds, Tick, workVars
  <2> QED BY <1>3, <2>1, <2>2
<1> QED BY <1>2, <1>3

LEMMA ElementIn ==
  ASSUME NEW S, NEW s \in Seq(S), NEW i \in DOMAIN s
  PROVE  s[i] \in S
OBVIOUS

LEMMA NoCalls == << >> \in Seq(CallKinds)
OBVIOUS

\* The locals of ask(), field by field.
LEMMA AskMade ==
  ASSUME NEW n \in Nat, NEW r \in BOOLEAN, NEW a \in BOOLEAN, NEW d \in Nat, NEW c \in Nat,
         NEW q \in Seq(CallKinds)
  PROVE  [no |-> n, required |-> r, attempted |-> a, round |-> d, calls |-> c, queue |-> q]
           \in Asks
BY DEF Asks

LEMMA AskNo ==
  ASSUME NEW k \in Asks, NEW v \in Nat
  PROVE  /\ [k EXCEPT !.no = v] \in Asks
         /\ [k EXCEPT !.no = v].no = v
         /\ [k EXCEPT !.no = v].attempted = k.attempted
         /\ [k EXCEPT !.no = v].round = k.round
         /\ [k EXCEPT !.no = v].calls = k.calls
BY DEF Asks

LEMMA AskRequired ==
  ASSUME NEW k \in Asks, NEW v \in BOOLEAN
  PROVE  /\ [k EXCEPT !.required = v] \in Asks
         /\ [k EXCEPT !.required = v].no = k.no
         /\ [k EXCEPT !.required = v].attempted = k.attempted
         /\ [k EXCEPT !.required = v].round = k.round
         /\ [k EXCEPT !.required = v].calls = k.calls
BY DEF Asks

LEMMA AskQueue ==
  ASSUME NEW k \in Asks, NEW v \in Seq(CallKinds)
  PROVE  /\ [k EXCEPT !.queue = v] \in Asks
         /\ [k EXCEPT !.queue = v].no = k.no
         /\ [k EXCEPT !.queue = v].attempted = k.attempted
         /\ [k EXCEPT !.queue = v].round = k.round
         /\ [k EXCEPT !.queue = v].calls = k.calls
BY DEF Asks

LEMMA AskRound ==
  ASSUME NEW k \in Asks, NEW v \in Nat
  PROVE  /\ [k EXCEPT !.round = v] \in Asks
         /\ [k EXCEPT !.round = v].no = k.no
         /\ [k EXCEPT !.round = v].attempted = k.attempted
         /\ [k EXCEPT !.round = v].round = v
         /\ [k EXCEPT !.round = v].calls = k.calls
BY DEF Asks

LEMMA AskCalls ==
  ASSUME NEW k \in Asks, NEW v \in Nat
  PROVE  /\ [k EXCEPT !.calls = v] \in Asks
         /\ [k EXCEPT !.calls = v].no = k.no
         /\ [k EXCEPT !.calls = v].attempted = k.attempted
         /\ [k EXCEPT !.calls = v].round = k.round
         /\ [k EXCEPT !.calls = v].calls = v
BY DEF Asks

LEMMA NoAskType ==
  /\ NoAsk \in Asks /\ NoAsk.no = 0 /\ NoAsk.round = 0 /\ NoAsk.calls = 0
  /\ NoAsk.attempted = FALSE
<1>1. 0 \in Nat /\ FALSE \in BOOLEAN
  OBVIOUS
<1>2. NoAsk \in Asks
  BY <1>1, AskMade, NoCalls, Zenon DEF NoAsk
<1>3. NoAsk.no = 0 /\ NoAsk.round = 0 /\ NoAsk.calls = 0
  BY DEF NoAsk
<1>4. \A x : [no |-> 0, required |-> x, attempted |-> x, round |-> 0, calls |-> 0,
             queue |-> << >>].attempted = x
  OBVIOUS
<1>5. NoAsk.attempted = FALSE
  BY <1>4, Zenon DEF NoAsk
<1> QED BY <1>2, <1>3, <1>5

\* Nothing is asked yet of message n, or only whether it wants work.
LEMMA NewAsk ==
  ASSUME NEW n \in Nat, NEW r \in BOOLEAN, NEW x,
         x \in {[NoAsk EXCEPT !.no = n], [NoAsk EXCEPT !.no = n, !.required = r]}
  PROVE  x \in Asks /\ x.no = n /\ x.attempted = FALSE /\ x.round = 0 /\ x.calls = 0
<1> DEFINE k == [NoAsk EXCEPT !.no = n]
<1>1. k \in Asks /\ k.no = n /\ k.attempted = FALSE /\ k.round = 0 /\ k.calls = 0
  BY NoAskType, AskNo
<1>2. x = k \/ x = [k EXCEPT !.required = r]
  OBVIOUS
<1> HIDE DEF k
<1> QED BY <1>1, <1>2, AskRequired

\* What trimming leaves of the exchanges and the one that is added.
LEMMA Trimmed ==
  ASSUME NEW S, NEW h \in Seq(S), NEW x \in S, NEW k \in 1..Len(Append(h, x))
  PROVE  /\ SubSeq(Append(h, x), k, Len(Append(h, x))) \in Seq(S)
         /\ SubSeq(Append(h, x), k, Len(Append(h, x))) # << >>
<1> DEFINE l == Append(h, x)
<1>1. l \in Seq(S) /\ Len(l) \in Nat /\ k \in 1..Len(l)
  BY AppendFacts
<1> HIDE DEF l
<1>2. SubSeq(l, k, Len(l)) \in Seq(S) /\ Len(SubSeq(l, k, Len(l))) # 0
  BY <1>1
<1>3. ASSUME NEW t, Len(t) # 0 PROVE t # << >>
  BY <1>3
<1> QED BY <1>2, <1>3, Zenon DEF l

\* An end of ask(): the exchange is kept or it is not.
LEMMA AgentEnds ==
  ASSUME AgentInv, NEW o \in {"ready", "blocked"}, Return(o), apc # "idle", wpc = "idle",
         UNCHANGED <<workVars, allow, askOf>>,
         Remember \/ UNCHANGED <<history, answered>>
  PROVE  AgentInv'
<1> USE AgentAssumption DEF AgentInv
<1>0. /\ ask \in Asks /\ ask.no \in Nat /\ ask.no # 0 /\ result \in Results
      /\ history \in Seq(1..ask.no) /\ answered \in Seq(1..ask.no)
      /\ ask.required \in BOOLEAN /\ ask.attempted \in BOOLEAN
  BY DEF AgentTypeOK, Current, Asks
<1>1. /\ ask' \in Asks /\ ask'.no = ask.no /\ ~ ask'.attempted
      /\ ask'.round = 0 /\ ask'.calls = 0
  BY <1>0, NewAsk, Zenon DEF Return
<1>2. /\ result' \in Results /\ result'.ask = ask.no /\ result'.attempted = ask.attempted
  BY <1>0 DEF Return, Results
<1>3. history' \in Seq(1..ask.no) /\ answered' \in Seq(1..ask.no)
  <2>1. CASE Remember
    <3>1. PICK k \in 1..Len(Append(history, ask.no)) :
            history' = SubSeq(Append(history, ask.no), k, Len(Append(history, ask.no)))
      BY <2>1 DEF Remember
    <3>2. ask.no \in 1..ask.no
      BY <1>0
    <3>3. answered' = Append(answered, ask.no)
      BY <2>1 DEF Remember
    <3> QED BY <1>0, <3>1, <3>2, <3>3, Trimmed, AppendFacts
  <2> QED BY <1>0, <2>1
<1>4. AgentTypeOK'
  BY <1>1, <1>2, <1>3 DEF AgentTypeOK, Return, workVars
<1>5. Submitted' /\ Current'
  BY <1>0, <1>1, <1>2 DEF Submitted, Current, Return, workVars
<1>6. Unsubmitted'
  BY <1>2 DEF Unsubmitted, Submitted, Current, AgentTypeOK
<1>7. OneWorkEach'
  BY DEF OneWorkEach
<1> QED BY <1>4, <1>5, <1>6, <1>7

LEMMA AgentInitially == AgentInit => AgentInv
<1> SUFFICES ASSUME AgentInit PROVE AgentInv
  OBVIOUS
<1> USE AgentAssumption DEF AgentInit
<1>1. ask \in Asks /\ ask.no = 0 /\ ask.round = 0 /\ ask.calls = 0 /\ ~ ask.attempted
  BY DEF NoAsk, Asks
<1>2. result \in Results /\ result.ask = 0
  BY DEF NoResult, Results
<1>3. askOf \in Seq(1..ask.no) /\ Len(askOf) = work.no
  BY DEF WorkInit, NoWork
<1>4. AgentTypeOK
  BY <1>1, <1>2, <1>3 DEF AgentTypeOK
<1>5. Submitted /\ Current /\ OneWorkEach /\ Unsubmitted
  BY <1>1, <1>2 DEF WorkInit, Submitted, Current, OneWorkEach, Unsubmitted
<1> QED BY <1>4, <1>5 DEF AgentInv

LEMMA AgentTypeNext == TypeInv /\ AgentInv /\ [AgentNext]_agentVars => AgentInv'
<1> SUFFICES ASSUME TypeInv, AgentInv, [AgentNext]_agentVars PROVE AgentInv'
  OBVIOUS
<1> USE AgentAssumption DEF AgentInv
<1>0. /\ ask \in Asks /\ ask.no \in Nat /\ ask.round \in Nat /\ ask.calls \in Nat
      /\ ask.attempted \in BOOLEAN /\ ask.required \in BOOLEAN
      /\ ask.queue \in Seq(CallKinds) /\ result \in Results /\ result.ask \in Nat
      /\ askOf \in Seq(1..ask.no) /\ Len(askOf) = work.no /\ work.no \in Nat
      /\ history \in Seq(1..ask.no) /\ answered \in Seq(1..ask.no)
  BY DEF AgentTypeOK, Asks, Results, TypeInv, WorkTypeOK, Works
<1>1. CASE Ask
  <2>1. PICK r \in {FALSE, allow} : ask' = [NoAsk EXCEPT !.no = ask.no + 1, !.required = r]
    BY <1>1 DEF Ask
  <2>2. /\ ask' \in Asks /\ ask'.no = ask.no + 1 /\ ask'.round = 0 /\ ask'.calls = 0
        /\ ~ ask'.attempted
    <3>1. r \in BOOLEAN
      BY Zenon DEF AgentTypeOK
    <3>2. ask.no + 1 \in Nat
      BY <1>0
    <3> QED BY <2>1, <3>1, <3>2, NewAsk, Zenon
  <2>3. /\ history \in Seq(1..(ask.no + 1)) /\ answered \in Seq(1..(ask.no + 1))
        /\ askOf \in Seq(1..(ask.no + 1))
    BY <1>0, WiderSeq
  <2>4. UNCHANGED <<workVars, allow, history, result, askOf, answered>> /\ apc' = "round"
        /\ apc = "idle"
    BY <1>1 DEF Ask
  <2>5. AgentTypeOK'
    BY <2>2, <2>3, <2>4 DEF AgentTypeOK, workVars
  <2>6. Submitted'
    BY <2>2, <2>4 DEF Submitted, workVars
  <2>7. /\ \A i \in DOMAIN history : history[i] # ask.no + 1
        /\ \A w \in DOMAIN askOf : askOf[w] # ask.no + 1
    <3>1. ASSUME NEW s \in Seq(1..ask.no), NEW i \in DOMAIN s
          PROVE  s[i] # ask.no + 1
      <4>1. s[i] \in 1..ask.no
        BY ElementIn
      <4> QED BY <1>0, <4>1
    <3> QED BY <1>0, <3>1
  <2>8. Current'
    BY <1>0, <2>2, <2>4, <2>7 DEF Current
  <2>9. OneWorkEach' /\ Unsubmitted'
    BY <2>4 DEF OneWorkEach, Unsubmitted
  <2> QED BY <2>5, <2>6, <2>8, <2>9
<1>2. CASE ModelUnusable \/ ToolWorkRefused
  BY <1>2, AgentEnds DEF ModelUnusable, ToolWorkRefused, Blocked, Submitted
<1>3. CASE ModelFinal
  BY <1>3, AgentEnds DEF ModelFinal, Submitted
<1>4. CASE WorkDone
  BY <1>4, AgentEnds DEF WorkDone, Blocked
<1>5. CASE ModelCalls
  <2>1. PICK n \in 1..MaxPerRound, q \in Seq(CallKinds) :
          /\ ask.calls + n <= MaxTotal
          /\ ask' = [ask EXCEPT !.calls = ask.calls + n, !.queue = q]
    <3>1. PICK n \in 1..MaxPerRound :
            /\ ask.calls + n <= MaxTotal
            /\ \E queue \in [1..n -> CallKinds] :
                 ask' = [ask EXCEPT !.calls = ask.calls + n, !.queue = queue]
      BY <1>5 DEF ModelCalls
    <3>2. PICK queue \in [1..n -> CallKinds] :
            ask' = [ask EXCEPT !.calls = ask.calls + n, !.queue = queue]
      BY <3>1
    <3>3. queue \in Seq(CallKinds)
      BY <3>2
    <3> QED BY <3>1, <3>2, <3>3
  <2>2. /\ ask' \in Asks /\ ask'.no = ask.no /\ ask'.round = ask.round
        /\ ask'.calls = ask.calls + n /\ ask'.attempted = ask.attempted
    <3> DEFINE counted == [ask EXCEPT !.calls = ask.calls + n]
    <3>1. ask.calls + n \in Nat
      BY <1>0
    <3>2. /\ counted \in Asks /\ counted.no = ask.no /\ counted.round = ask.round
          /\ counted.calls = ask.calls + n /\ counted.attempted = ask.attempted
      BY <1>0, <3>1, AskCalls
    <3>3. ask' = [counted EXCEPT !.queue = q]
      BY <2>1
    <3> HIDE DEF counted
    <3> QED BY <3>2, <3>3, AskQueue
  <2>3. /\ UNCHANGED <<workVars, allow, history, result, askOf, answered>> /\ apc' = "tools"
        /\ apc = "round" /\ ask.round < MaxRounds
    BY <1>5 DEF ModelCalls
  <2>4. AgentTypeOK'
    BY <2>1, <2>2, <2>3 DEF AgentTypeOK, workVars
  <2>5. Submitted' /\ Current' /\ OneWorkEach' /\ Unsubmitted'
    BY <2>2, <2>3 DEF Submitted, Current, OneWorkEach, Unsubmitted, workVars
  <2> QED BY <2>4, <2>5
<1>6. CASE ToolOther \/ NextRound
  <2>1. /\ UNCHANGED <<workVars, allow, history, result, askOf, answered>>
        /\ apc = "tools" /\ apc' \in {"tools", "round"}
    BY <1>6 DEF ToolOther, NextRound
  <2>2. /\ ask' \in Asks /\ ask'.no = ask.no /\ ask'.calls = ask.calls
        /\ ask'.attempted = ask.attempted /\ ask'.round <= MaxRounds
        /\ apc' = "tools" => ask'.round < MaxRounds
    <3>1. CASE ToolOther
      <4>1. Tail(ask.queue) \in Seq(CallKinds)
        BY <1>0, <3>1 DEF ToolOther
      <4> QED BY <1>0, <3>1, <4>1 DEF ToolOther, Asks, Current, AgentTypeOK
    <3>2. CASE NextRound
      <4>1. /\ apc = "tools" /\ apc' = "round" /\ ask' = [ask EXCEPT !.round = ask.round + 1]
        BY <3>2 DEF NextRound
      <4>2. ask.round < MaxRounds
        BY <4>1 DEF Current
      <4>3. ask.round + 1 \in Nat
        BY <1>0
      <4>4. ask' \in Asks /\ ask'.no = ask.no /\ ask'.attempted = ask.attempted
            /\ ask'.round = ask.round + 1 /\ ask'.calls = ask.calls
        BY <1>0, <4>1, <4>3, AskRound
      <4> QED BY <1>0, <4>1, <4>2, <4>4
    <3> QED BY <1>6, <3>1, <3>2
  <2>3. AgentTypeOK'
    BY <2>1, <2>2 DEF AgentTypeOK, workVars
  <2>4. Submitted' /\ Current' /\ OneWorkEach' /\ Unsubmitted'
    BY <2>1, <2>2 DEF Submitted, Current, OneWorkEach, Unsubmitted, workVars
  <2> QED BY <2>3, <2>4
<1>7. CASE ToolWork
  <2>1. /\ apc = "tools" /\ apc' = "work" /\ askOf' = Append(askOf, ask.no)
        /\ ask' = [ask EXCEPT !.attempted = TRUE]
        /\ UNCHANGED <<allow, history, result, answered>> /\ (StartWork \/ RejectWork)
    BY <1>7 DEF ToolWork
  <2>2. work'.no = work.no + 1
    BY <2>1, WorkCounts DEF WorkNext, StartWork, RejectWork
  <2>3. /\ ask' \in Asks /\ ask'.no = ask.no /\ ask'.round = ask.round
        /\ ask'.calls = ask.calls /\ ask'.attempted
    <3> DEFINE T(t) == LET a == [ask EXCEPT !.attempted = t]
                       IN a \in Asks /\ a.no = ask.no /\ a.round = ask.round
                          /\ a.calls = ask.calls /\ a.attempted = t
    <3>1. \A t \in BOOLEAN : T(t)
      BY <1>0 DEF Asks
    <3> HIDE DEF T
    <3>2. T(TRUE)
      BY <3>1, Zenon
    <3> QED BY <2>1, <3>2, Zenon DEF T
  <2>4. ask.no \in 1..ask.no /\ \A w \in DOMAIN askOf : askOf[w] # ask.no
    BY <1>0, <2>1 DEF Current
  <2>5. /\ askOf' \in Seq(1..ask.no) /\ Len(askOf') = work'.no
        /\ DOMAIN askOf = 1..work.no /\ DOMAIN askOf' = 1..(work.no + 1)
        /\ \A w \in 1..work.no : askOf'[w] = askOf[w]
        /\ askOf'[work.no + 1] = ask.no
    <3>1. /\ Append(askOf, ask.no) \in Seq(1..ask.no)
          /\ DOMAIN askOf = 1..Len(askOf)
          /\ Len(Append(askOf, ask.no)) = Len(askOf) + 1
          /\ DOMAIN Append(askOf, ask.no) = 1..(Len(askOf) + 1)
          /\ \A w \in 1..Len(askOf) : Append(askOf, ask.no)[w] = askOf[w]
          /\ Append(askOf, ask.no)[Len(askOf) + 1] = ask.no
      BY <1>0, <2>4, AppendFacts
    <3> QED BY <1>0, <2>1, <2>2, <3>1
  <2>6. AgentTypeOK'
    BY <2>1, <2>3, <2>5 DEF AgentTypeOK
  <2>7. Submitted' /\ Current'
    BY <1>0, <2>1, <2>2, <2>3, <2>5 DEF Submitted, Current
  <2>8. OneWorkEach'
    <3> SUFFICES ASSUME NEW v \in 1..(work.no + 1), NEW w \in 1..(work.no + 1),
                        askOf'[v] = askOf'[w]
                 PROVE  v = w
      BY <2>5 DEF OneWorkEach
    <3>1. \A u \in 1..(work.no + 1) : u = work.no + 1 \/ u \in DOMAIN askOf
      BY <1>0, <2>5
    <3> QED BY <2>4, <2>5, <3>1 DEF OneWorkEach
  <2>9. Unsubmitted'
    BY <1>0, <2>1, <2>5 DEF Unsubmitted, Current
  <2> QED BY <2>6, <2>7, <2>8, <2>9
<1>8. CASE NewSession
  <2>1. UNCHANGED <<workVars, allow, apc, ask, result, askOf>> /\ apc = "idle"
        /\ history' = << >> /\ answered' = << >>
    BY <1>8 DEF NewSession
  <2>2. AgentTypeOK'
    BY <2>1 DEF AgentTypeOK, workVars
  <2>3. Submitted' /\ Current' /\ OneWorkEach' /\ Unsubmitted'
    BY <2>1 DEF Submitted, Current, OneWorkEach, Unsubmitted, workVars
  <2> QED BY <2>2, <2>3
<1>9. CASE AgentDies
  <2>1. /\ apc' = "idle" /\ ask' = [NoAsk EXCEPT !.no = ask.no] /\ result' = NoResult
        /\ history' = << >> /\ answered' = << >> /\ UNCHANGED <<allow, askOf>>
        /\ work' = work /\ wpc' = "idle"
    BY <1>9 DEF AgentDies, Dies, EndWork, workVars
  <2>2. /\ ask' \in Asks /\ ask'.no = ask.no /\ ~ ask'.attempted
        /\ ask'.round = 0 /\ ask'.calls = 0
    BY <1>0, <2>1, NewAsk, Zenon
  <2>3. result' \in Results /\ result'.ask = 0
    BY <2>1 DEF NoResult, Results
  <2>4. AgentTypeOK'
    BY <1>0, <2>1, <2>2, <2>3 DEF AgentTypeOK
  <2>5. \A w \in DOMAIN askOf : askOf[w] # 0
    BY <1>0
  <2>6. Submitted' /\ Current' /\ OneWorkEach' /\ Unsubmitted'
    BY <1>0, <2>1, <2>2, <2>3, <2>5 DEF Submitted, Current, OneWorkEach, Unsubmitted
  <2> QED BY <2>4, <2>6
<1>10. CASE Outside \/ UNCHANGED agentVars
  <2>1. UNCHANGED agent /\ work'.no = work.no /\ (wpc = "idle" => wpc' = "idle")
    <3>1. CASE Outside
      <4>1. ~ (StartWork \/ RejectWork) => work'.no = work.no
        BY <3>1, WorkCounts DEF Outside, WorkNext
      <4>2. wpc = "idle" => wpc' = "idle" /\ UNCHANGED work
        BY <3>1 DEF TypeInv, PollsInBudget, Quiet, Outside, Client, Fails, EndWork, Harness, Answer, Send, TooLate, Refused, LookupDone, CreateDone,
                    EventsDone, Wake, ReviewDone, AnswerLookup, AnswerCreate, AnswerRun,
                    StrayArrives, RunStarts, RunEnds, Tick, Requests, Lookups
      <4>3. StartWork \/ RejectWork => wpc = "idle"
        BY DEF StartWork, RejectWork
      <4> QED BY <3>1, <4>1, <4>2, <4>3 DEF Outside
    <3> QED BY <1>10, <3>1 DEF agentVars, workVars
  <2>2. AgentTypeOK'
    BY <1>0, <2>1 DEF AgentTypeOK, agent
  <2>3. Submitted' /\ Current' /\ OneWorkEach' /\ Unsubmitted'
    BY <2>1 DEF Submitted, Current, OneWorkEach, Unsubmitted, agent
  <2> QED BY <2>2, <2>3
<1> QED
  BY <1>1, <1>2, <1>3, <1>4, <1>5, <1>6, <1>7, <1>8, <1>9, <1>10 DEF AgentNext, AgentStep

-----------------------------------------------------------------------------
(* Types, and one run for each message *)

\* An agent keeps every promise run_work makes of its works.
LEMMA WorksOfAnAgent == AgentSpec => [](TypeInv /\ Delivered /\ ReadyInv)
<1>1. AgentInit => WorkInit
  BY DEF AgentInit
<1> QED
  BY <1>1, AgentDelegates, TypeInit, TypeNext, DeliveredInit, DeliveredNext, ReadyInit,
     ReadyNext, PTL DEF AgentSpec

\* Types; the rounds and the calls of a message stay within their budgets,
\* whatever the model answers.
THEOREM AgentTypeCorrect == AgentSpec => []AgentTypeOK
<1>1. AgentInv => AgentTypeOK
  BY DEF AgentInv
<1> QED
  BY <1>1, WorksOfAnAgent, AgentInitially, AgentTypeNext, PTL DEF AgentSpec

LEMMA AgentAlways == AgentSpec => []AgentInv
BY WorksOfAnAgent, AgentInitially, AgentTypeNext, PTL DEF AgentSpec

\* Every run is that of a work some message started.
LEMMA RunsAreAsked ==
  ASSUME TypeInv, Delivered, AgentInv, NEW i \in DOMAIN runs
  PROVE  runs[i].work \in DOMAIN askOf
<1>1. PICK k \in DOMAIN posts : posts[k] = runs[i].work
  BY DEF Delivered, RunsPosted, Posted
<1>2. posts \in Seq(1..work.no)
  BY DEF TypeInv, WorkTypeOK
<1>3. posts[k] \in 1..work.no
  BY <1>2, ElementIn
<1>4. DOMAIN askOf = 1..work.no
  BY DEF AgentInv, AgentTypeOK
<1> QED BY <1>1, <1>3, <1>4

LEMMA OneRun == TypeInv /\ Delivered /\ AgentInv => OneRunPerAsk
<1> SUFFICES ASSUME TypeInv, Delivered, AgentInv, NEW i \in DOMAIN runs, NEW j \in DOMAIN runs,
                    askOf[runs[i].work] = askOf[runs[j].work]
             PROVE  i = j
  BY DEF OneRunPerAsk
<1>1. runs[i].work = runs[j].work
  BY RunsAreAsked DEF AgentInv, OneWorkEach
<1> QED BY <1>1 DEF Delivered, OneRunEach

\* However often and in whatever order the model calls harness_work, whatever
\* fails, dies or arrives late: one message of the user makes at most one run of
\* the Harness.
THEOREM OneRunPerAskTheorem == AgentSpec => []OneRunPerAsk
BY OneRun, WorksOfAnAgent, AgentAlways, PTL

-----------------------------------------------------------------------------
(* Results *)

\* A result that stays is backed by a run that stays.
LEMMA ResultStays ==
  ASSUME TypeInv, Delivered, AgentInv, [AgentNext]_agentVars, WorkIsDoneOrBlocked,
         result' = result
  PROVE  WorkIsDoneOrBlocked'
<1> SUFFICES ASSUME result.required, result.overall = "ready"
             PROVE  \E r \in DOMAIN runs' :
                      /\ askOf'[runs'[r].work] = result.ask
                      /\ runs'[r].status = "succeeded"
                      /\ runs'[r].passed
                      /\ runs'[r].changed
  BY DEF WorkIsDoneOrBlocked
<1>1. PICK r \in DOMAIN runs :
        /\ askOf[runs[r].work] = result.ask
        /\ runs[r].status = "succeeded"
        /\ runs[r].passed
        /\ runs[r].changed
  BY DEF WorkIsDoneOrBlocked
<1>2. r \in DOMAIN runs' /\ runs'[r] = runs[r]
  BY <1>1, AgentDelegates, RunsStandNext DEF RunsStand, Terminal
<1>3. runs[r].work \in DOMAIN askOf
  BY RunsAreAsked
<1>4. \A w \in DOMAIN askOf : askOf'[w] = askOf[w]
  <2>1. CASE ToolWork
    <3>1. askOf' = Append(askOf, ask.no) /\ askOf \in Seq(1..ask.no) /\ ask.no \in 1..ask.no
      BY <2>1 DEF ToolWork, AgentInv, AgentTypeOK, Current, Asks
    <3> QED BY <3>1, AppendFacts
  <2>2. CASE ~ ToolWork
    BY <2>2 DEF AgentNext, AgentStep, Outside, Ask, ModelUnusable, ModelFinal, ModelCalls,
                ToolOther, NextRound, ToolWorkRefused, WorkDone, NewSession, AgentDies,
                agentVars, agent
  <2> QED BY <2>1, <2>2
<1> QED BY <1>1, <1>2, <1>3, <1>4

LEMMA DoneInitially == AgentInit => WorkIsDoneOrBlocked
<1>1. NoResult.overall # "ready"
  BY DEF NoResult
<1> QED BY <1>1 DEF AgentInit, WorkIsDoneOrBlocked

LEMMA DoneNext ==
  TypeInv /\ Delivered /\ ReadyInv /\ AgentInv /\ WorkIsDoneOrBlocked /\ [AgentNext]_agentVars
  => WorkIsDoneOrBlocked'
<1> SUFFICES ASSUME TypeInv, Delivered, ReadyInv, AgentInv, WorkIsDoneOrBlocked,
                    [AgentNext]_agentVars
             PROVE  WorkIsDoneOrBlocked'
  OBVIOUS
<1>0. ask \in Asks /\ ask.attempted \in BOOLEAN /\ ask.required \in BOOLEAN
  BY DEF AgentInv, AgentTypeOK, Asks
<1>1. CASE result' = result
  BY <1>1, ResultStays
<1>2. ASSUME Blocked PROVE WorkIsDoneOrBlocked'
  <2>1. result'.overall = "blocked"
    BY <1>2 DEF Blocked, Return
  <2> QED BY <2>1 DEF WorkIsDoneOrBlocked
<1>3. CASE ModelFinal
  <2>1. ~ ask.attempted
    BY <1>3 DEF ModelFinal, AgentInv, Submitted
  <2>2. ~ ask.required /\ result'.required = ask.required
    BY <1>3, <2>1 DEF ModelFinal, Return
  <2> QED BY <2>2 DEF WorkIsDoneOrBlocked
<1>4. CASE WorkDone /\ WorkReady
  <2>1. /\ outcome = "ready" /\ apc = "work"
        /\ result'.ask = ask.no /\ UNCHANGED <<runs, askOf>>
    BY <1>4 DEF WorkDone, WorkReady, Return, workVars
  <2>2. askOf[work.no] = ask.no
    BY <2>1 DEF AgentInv, Submitted
  <2> QED BY <2>1, <2>2 DEF ReadyInv, ReadyIsReviewed, WorkIsDoneOrBlocked
<1>5. CASE AgentDies
  <2>1. result' = NoResult
    BY <1>5 DEF AgentDies
  <2> QED BY <2>1, Zenon DEF NoResult, WorkIsDoneOrBlocked
<1> QED
  BY <1>1, <1>2, <1>3, <1>4, <1>5
     DEF AgentNext, AgentStep, Outside, Ask, ModelUnusable, ModelCalls, ToolOther, NextRound,
         ToolWorkRefused, ToolWork, WorkDone, NewSession, agentVars, agent

LEMMA Reported == TypeInv /\ Delivered /\ AgentInv => RunsAreReported
BY RunsAreAsked DEF AgentInv, Unsubmitted, RunsAreReported

\* "Ready" answers a request for work only if the run of this very message
\* succeeded, was validated and changed something; a result that says no run was
\* created is right, also when a submission arrives later.
THEOREM ResultsAreHonestTheorem == AgentSpec => []ResultsAreHonest
<1>1. WorkIsDoneOrBlocked /\ RunsAreReported => ResultsAreHonest
  BY DEF ResultsAreHonest
<1> QED
  BY <1>1, Reported, DoneInitially, DoneNext, WorksOfAnAgent, AgentAlways, PTL DEF AgentSpec

-----------------------------------------------------------------------------
(* History *)

LEMMA SameSeq ==
  ASSUME NEW S, NEW s \in Seq(S), NEW t \in Seq(S), Len(s) = Len(t),
         \A i \in 1..Len(s) : s[i] = t[i]
  PROVE  s = t
<1>1. DOMAIN s = 1..Len(s) /\ DOMAIN t = 1..Len(s)
  OBVIOUS
<1>2. s = [i \in 1..Len(s) |-> s[i]] /\ t = [i \in 1..Len(s) |-> t[i]]
  BY <1>1
<1> QED BY <1>2

\* h is what is left of a without its first k elements.
IsEnd(h, a, k) == h = SubSeq(a, k + 1, Len(a))

LEMMA EndOf ==
  ASSUME NEW S, NEW a \in Seq(S), NEW k \in 0..Len(a), NEW h, IsEnd(h, a, k)
  PROVE  /\ h \in Seq(S) /\ Len(h) = Len(a) - k
         /\ \A i \in 1..Len(h) : h[i] = a[k + i]
<1>1. Len(a) \in Nat /\ h \in Seq(S) /\ Len(h) = Len(a) - k
  BY DEF IsEnd
<1>2. \A i \in 1..Len(h) : h[i] = a[k + i]
  BY <1>1 DEF IsEnd
<1> QED BY <1>1, <1>2

\* The end of a sequence, one element added and some dropped, is the end of the
\* longer sequence.
LEMMA EndOfLonger ==
  ASSUME NEW S, NEW a \in Seq(S), NEW x \in S, NEW k \in 0..Len(a),
         NEW h, IsEnd(h, a, k), NEW j \in 1..Len(Append(h, x))
  PROVE  \E m \in 0..Len(Append(a, x)) :
           IsEnd(SubSeq(Append(h, x), j, Len(Append(h, x))), Append(a, x), m)
<1>0. /\ h \in Seq(S) /\ Len(h) = Len(a) - k
      /\ \A i \in 1..Len(h) : h[i] = a[k + i]
  BY EndOf
<1>1. Len(a) \in Nat /\ Len(h) \in Nat
  BY <1>0
<1> DEFINE hx == Append(h, x)
           ax == Append(a, x)
<1>3. /\ hx \in Seq(S) /\ Len(hx) = Len(h) + 1
      /\ ax \in Seq(S) /\ Len(ax) = Len(a) + 1
      /\ \A i \in 1..Len(h) : hx[i] = h[i]
      /\ \A i \in 1..Len(a) : ax[i] = a[i]
      /\ hx[Len(h) + 1] = x /\ ax[Len(a) + 1] = x
  <2>1. /\ hx \in Seq(S) /\ Len(hx) = Len(h) + 1
        /\ \A i \in 1..Len(h) : hx[i] = h[i]
        /\ hx[Len(h) + 1] = x
    BY <1>0, <1>1, AppendFacts
  <2>2. /\ ax \in Seq(S) /\ Len(ax) = Len(a) + 1
        /\ \A i \in 1..Len(a) : ax[i] = a[i]
        /\ ax[Len(a) + 1] = x
    BY AppendFacts
  <2> QED BY <2>1, <2>2
<1> HIDE DEF hx, ax
<1>2. j \in 1..(Len(h) + 1)
  BY <1>3 DEF hx
<1>4. ASSUME NEW i \in 1..(Len(h) + 1) PROVE hx[i] = ax[k + i]
  <2>1. CASE i = Len(h) + 1
    BY <1>0, <1>1, <1>3, <2>1
  <2>2. CASE i \in 1..Len(h)
    <3>1. k + i \in 1..Len(a)
      BY <1>0, <1>1, <2>2
    <3> QED BY <1>0, <1>3, <2>2, <3>1
  <2> QED BY <1>1, <2>1, <2>2
<1> DEFINE l == SubSeq(hx, j, Len(h) + 1)
           r == SubSeq(ax, k + j, Len(a) + 1)
<1>5. /\ l \in Seq(S) /\ Len(l) = Len(h) + 2 - j
      /\ \A i \in 1..(Len(h) + 2 - j) : l[i] = hx[j + i - 1]
  BY <1>0, <1>1, <1>3, <1>2
<1>6. /\ r \in Seq(S) /\ Len(r) = Len(a) + 2 - k - j
      /\ \A i \in 1..(Len(a) + 2 - k - j) : r[i] = ax[k + j + i - 1]
  BY <1>0, <1>1, <1>3, <1>2
<1> HIDE DEF l, r
<1>7. \A i \in 1..Len(l) : l[i] = r[i]
  <2> SUFFICES ASSUME NEW i \in 1..Len(l) PROVE l[i] = r[i]
    OBVIOUS
  <2>1. j + i - 1 \in 1..(Len(h) + 1) /\ k + (j + i - 1) = k + j + i - 1
    BY <1>0, <1>1, <1>5, <1>2
  <2>2. l[i] = hx[j + i - 1] /\ r[i] = ax[k + j + i - 1]
    BY <1>0, <1>1, <1>5, <1>6
  <2> QED BY <1>4, <2>1, <2>2
<1>8. l = r
  <2>1. Len(l) = Len(r)
    BY <1>0, <1>1, <1>5, <1>6
  <2> QED BY <1>5, <1>6, <1>7, <2>1, SameSeq
<1>9. k + j - 1 \in 0..(Len(a) + 1) /\ (k + j - 1) + 1 = k + j
  BY <1>0, <1>1, <1>2
<1>10. SubSeq(hx, j, Len(hx)) = SubSeq(ax, (k + j - 1) + 1, Len(ax))
       /\ k + j - 1 \in 0..Len(ax)
  BY <1>3, <1>8, <1>9 DEF l, r
<1> QED BY <1>10 DEF IsEnd, hx, ax

\* Keeping an exchange keeps the history an end of what was answered.
LEMMA KeepsTheEnd ==
  ASSUME AgentInv, Remember, ask.no # 0,
         \E k \in 0..Len(answered) : IsEnd(history, answered, k)
  PROVE  /\ \E k \in 0..Len(answered') : IsEnd(history', answered', k)
         /\ history' # << >>
<1>0. /\ ask.no \in 1..ask.no /\ answered \in Seq(1..ask.no) /\ history \in Seq(1..ask.no)
  BY DEF AgentInv, AgentTypeOK, Asks
<1>1. PICK k \in 0..Len(answered) : IsEnd(history, answered, k)
  OBVIOUS
<1>2. PICK j \in 1..Len(Append(history, ask.no)) :
        history' = SubSeq(Append(history, ask.no), j, Len(Append(history, ask.no)))
  BY DEF Remember
<1>3. answered' = Append(answered, ask.no)
  BY DEF Remember
<1>4. PICK m \in 0..Len(Append(answered, ask.no)) :
        IsEnd(SubSeq(Append(history, ask.no), j, Len(Append(history, ask.no))),
              Append(answered, ask.no), m)
  BY <1>0, <1>1, EndOfLonger
<1>5. history' # << >>
  BY <1>0, <1>2, Trimmed
<1> QED BY <1>2, <1>3, <1>4, <1>5

LEMMA HistoryInitially == AgentInit => HistoryIsAnswered
<1> SUFFICES ASSUME AgentInit PROVE HistoryIsAnswered
  OBVIOUS
<1>1. history = << >> /\ answered = << >>
  BY DEF AgentInit
<1>2. Len(answered) = 0 /\ 0 \in 0..Len(answered) /\ SubSeq(answered, 0 + 1, 0) = << >>
  BY <1>1
<1> QED BY <1>1, <1>2 DEF HistoryIsAnswered

LEMMA HistoryNext == AgentInv /\ HistoryIsAnswered /\ [AgentNext]_agentVars => HistoryIsAnswered'
<1> SUFFICES ASSUME AgentInv, HistoryIsAnswered, [AgentNext]_agentVars
             PROVE  HistoryIsAnswered'
  OBVIOUS
<1>0. ask \in Asks /\ ask.attempted \in BOOLEAN
  BY DEF AgentInv, AgentTypeOK, Asks
<1>1. CASE UNCHANGED <<history, answered, result>>
  BY <1>1 DEF HistoryIsAnswered
<1>2. ASSUME history' = << >>, answered' = << >> PROVE HistoryIsAnswered'
  <2>1. Len(answered') = 0 /\ 0 \in 0..Len(answered') /\ SubSeq(answered', 0 + 1, 0) = << >>
    BY <1>2
  <2> QED BY <1>2, <2>1 DEF HistoryIsAnswered
<1>3. ASSUME Blocked, apc # "idle" PROVE HistoryIsAnswered'
  <2>1. UNCHANGED <<history, answered>> /\ result'.ask = ask.no
    BY <1>3 DEF Blocked, Return
  <2>2. \A i \in DOMAIN history : history[i] # ask.no
    BY <1>3 DEF AgentInv, Current
  <2> QED BY <2>1, <2>2 DEF HistoryIsAnswered
<1>4. ASSUME Remember, Return("ready"), apc # "idle", ~ ask.attempted \/ WorkReady
      PROVE  HistoryIsAnswered'
  <2>1. result'.overall = "ready"
    BY <1>0, <1>4 DEF Return
  <2>2. ask.no # 0
    BY <1>4 DEF AgentInv, Current
  <2> QED BY <1>4, <2>1, <2>2, KeepsTheEnd DEF HistoryIsAnswered, IsEnd
<1>5. CASE ModelUnusable \/ ToolWorkRefused
  BY <1>3, <1>5 DEF ModelUnusable, ToolWorkRefused
<1>6. CASE ModelFinal
  BY <1>4, <1>6 DEF ModelFinal, AgentInv, Submitted
<1>7. CASE WorkDone
  BY <1>3, <1>4, <1>7 DEF WorkDone
<1>8. CASE NewSession \/ AgentDies
  BY <1>2, <1>8 DEF NewSession, AgentDies
<1> QED
  BY <1>1, <1>5, <1>6, <1>7, <1>8
     DEF AgentNext, AgentStep, Outside, Ask, ModelCalls, ToolOther, NextRound, ToolWork,
         agentVars, agent

\* The history is the most recent of the messages that were answered, in order,
\* and nothing of a blocked one.
THEOREM HistoryIsAnsweredTheorem == AgentSpec => []HistoryIsAnswered
BY AgentAlways, HistoryInitially, HistoryNext, PTL DEF AgentSpec
=============================================================================
