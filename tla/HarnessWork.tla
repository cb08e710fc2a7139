----------------------------- MODULE HarnessWork -----------------------------
(***************************************************************************)
(* Delegating one piece of development work to the Harness                 *)
(* (lai_gateway/harness_work.py, run_work): submit once, poll the events   *)
(* until the run is terminal, then load the review and judge it.           *)
(*                                                                         *)
(* The Harness is another service on the other side of HTTP.  A request    *)
(* can fail before or after the Harness acted on it, a submission that the *)
(* client gave up on can still arrive, and an answer can be about another  *)
(* run.  The contents of event pages, the cursor that numbers them and the *)
(* text of errors are abstracted: a page whose fields do not fit is an     *)
(* answer that is not ok.                                                  *)
(***************************************************************************)
EXTENDS Integers, Sequences, FiniteSets

CONSTANTS
  Timeout,       \* timeout_seconds, in ticks
  MaxPolls,      \* max_polls
  MaxWorks,      \* bound: pieces of work submitted
  MaxClock,      \* bound: ticks of the monotonic clock
  MaxMisrouted   \* bound: answers about another run

ASSUME WorkAssumption ==
  /\ Timeout \in Nat \ {0}
  /\ MaxPolls \in Nat \ {0}
  /\ MaxWorks \in Nat
  /\ MaxClock \in Nat
  /\ MaxMisrouted \in Nat

VARIABLES
  runs,       \* the runs of the Harness, in the order it created them
  astray,     \* works whose submission was given up but may still arrive
  posts,      \* history: the work of every submission put on the wire
  clock,
  wpc,        \* control point of run_work: the request it is about to make
  wire,       \* the request under way and its answer
  work,       \* the locals of run_work
  outcome,    \* what the last run_work returned or raised
  misrouted

workVars == <<runs, astray, posts, clock, wpc, wire, work, outcome, misrouted>>

Terminal == {"succeeded", "failed", "cancelled"}
Statuses == Terminal \cup {"queued", "running"}

Runs == [work : Nat, status : Statuses, passed : BOOLEAN, changed : BOOLEAN]

Lookups == {"contract", "workspaces", "models"}
Requests == Lookups \cup {"create", "events", "review"}

\* stage: nothing under way, sent to the Harness, answered by it.
Wires == [stage : {"none", "sent", "answered"}, ok : BOOLEAN, run : Nat,
          status : Statuses, passed : BOOLEAN, changed : BOOLEAN]

Quiet == [stage |-> "none", ok |-> FALSE, run |-> 0, status |-> "queued",
          passed |-> FALSE, changed |-> FALSE]

Works == [no : Nat, deadline : Nat, run : Nat, polls : Nat, status : Statuses]

NoWork == [no |-> 0, deadline |-> 0, run |-> 0, polls |-> 0, status |-> "queued"]

InTime == clock < work.deadline

\* The whole review judgement of lines 129-144.
Accepted == wire.status = "succeeded" /\ wire.passed /\ wire.changed

-----------------------------------------------------------------------------
(* run_work *)

StartWork ==
  /\ wpc = "idle"
  /\ work.no < MaxWorks
  /\ work' = [NoWork EXCEPT !.no = work.no + 1, !.deadline = clock + Timeout]
  /\ wpc' = "contract"
  /\ outcome' = "none"
  /\ UNCHANGED <<runs, astray, posts, clock, wire, misrouted>>

\* An invalid mode, task or budget: nothing is sent.
RejectWork ==
  /\ wpc = "idle"
  /\ work.no < MaxWorks
  /\ work' = [NoWork EXCEPT !.no = work.no + 1]
  /\ outcome' = "blocked"
  /\ UNCHANGED <<runs, astray, posts, clock, wpc, wire, misrouted>>

EndWork(result) ==
  /\ wpc' = "idle"
  /\ wire' = Quiet
  /\ outcome' = result

Send ==
  /\ wpc \in Requests
  /\ wire.stage = "none"
  /\ InTime
  /\ wire' = [Quiet EXCEPT !.stage = "sent"]
  /\ posts' = IF wpc = "create" THEN Append(posts, work.no) ELSE posts
  /\ UNCHANGED <<runs, astray, clock, wpc, work, outcome, misrouted>>

\* The deadline has passed before the request was sent.
TooLate ==
  /\ wpc \in Requests
  /\ wire.stage = "none"
  /\ ~ InTime
  /\ EndWork("blocked")
  /\ UNCHANGED <<runs, astray, posts, clock, work, misrouted>>

\* An answer that came too late or does not pass its checks ends the work.
Refused ==
  /\ wire.stage = "answered"
  /\ \/ ~ InTime
     \/ ~ wire.ok
     \/ wpc \in {"events", "review"} /\ wire.run # work.run
     \/ wpc = "review" /\ wire.status # work.status
  /\ EndWork("blocked")
  /\ UNCHANGED <<runs, astray, posts, clock, work, misrouted>>

Next3 == [contract |-> "workspaces", workspaces |-> "models", models |-> "create"]

LookupDone ==
  /\ wpc \in Lookups
  /\ wire.stage = "answered"
  /\ InTime
  /\ wire.ok
  /\ wpc' = Next3[wpc]
  /\ wire' = Quiet
  /\ UNCHANGED <<runs, astray, posts, clock, work, outcome, misrouted>>

CreateDone ==
  /\ wpc = "create"
  /\ wire.stage = "answered"
  /\ InTime
  /\ wire.ok
  /\ work' = [work EXCEPT !.run = wire.run]
  /\ wpc' = "events"
  /\ wire' = Quiet
  /\ UNCHANGED <<runs, astray, posts, clock, outcome, misrouted>>

\* Faulty variant: an empty page does not count as a poll.
EventsDoneUncounted ==
  /\ wpc = "events"
  /\ wire.stage = "answered"
  /\ InTime
  /\ wire.ok
  /\ wire.run = work.run
  /\ work' = [work EXCEPT !.status = wire.status]
  /\ wpc' = IF wire.status \in Terminal THEN "review" ELSE "sleep"
  /\ wire' = Quiet
  /\ UNCHANGED <<runs, astray, posts, clock, outcome, misrouted>>

\* Faulty variant: the review is asked for whatever the status.
EventsDoneAnyStatus ==
  /\ wpc = "events"
  /\ wire.stage = "answered"
  /\ InTime
  /\ wire.ok
  /\ wire.run = work.run
  /\ work' = [work EXCEPT !.status = wire.status, !.polls = work.polls + 1]
  /\ wpc' = "review"
  /\ wire' = Quiet
  /\ UNCHANGED <<runs, astray, posts, clock, outcome, misrouted>>

EventsDone ==
  /\ wpc = "events"
  /\ wire.stage = "answered"
  /\ InTime
  /\ wire.ok
  /\ wire.run = work.run
  /\ work' = [work EXCEPT !.status = wire.status, !.polls = work.polls + 1]
  /\ wpc' = IF wire.status \in Terminal THEN "review" ELSE "sleep"
  /\ wire' = Quiet
  /\ UNCHANGED <<runs, astray, posts, clock, outcome, misrouted>>

\* The sleep between two polls; behind the last one the loop gives up.
Wake ==
  /\ wpc = "sleep"
  /\ IF work.polls < MaxPolls
     THEN wpc' = "events" /\ UNCHANGED <<wire, outcome>>
     ELSE EndWork("blocked")
  /\ UNCHANGED <<runs, astray, posts, clock, work, misrouted>>

\* Faulty variant: the review is not compared with the run that was polled.
ReviewAnyRun ==
  /\ wpc = "review"
  /\ wire.stage = "answered"
  /\ InTime
  /\ wire.ok
  /\ EndWork(IF Accepted THEN "ready" ELSE "blocked")
  /\ UNCHANGED <<runs, astray, posts, clock, work, misrouted>>

ReviewDone ==
  /\ wpc = "review"
  /\ wire.stage = "answered"
  /\ InTime
  /\ wire.ok
  /\ wire.run = work.run
  /\ wire.status = work.status
  /\ EndWork(IF Accepted THEN "ready" ELSE "blocked")
  /\ UNCHANGED <<runs, astray, posts, clock, work, misrouted>>

-----------------------------------------------------------------------------
(* The network and the Harness *)

\* A submission that failed without an answer may still be on its way.
GoesAstray ==
  astray' \in IF wpc = "create" /\ wire.stage = "sent"
              THEN {astray, astray \cup {work.no}}
              ELSE {astray}

\* Faulty variant: a failed submission is tried again.
FailsRetrying ==
  /\ wire.stage # "none"
  /\ GoesAstray
  /\ IF wpc = "create"
     THEN wire' = Quiet /\ UNCHANGED <<wpc, outcome>>
     ELSE EndWork("blocked")
  /\ UNCHANGED <<runs, posts, clock, work, misrouted>>

\* GatewayError, OSError, ValueError or TypeError out of the client.
Fails ==
  /\ wire.stage # "none"
  /\ GoesAstray
  /\ EndWork("blocked")
  /\ UNCHANGED <<runs, posts, clock, work, misrouted>>

\* Any other exception (an http.client.HTTPException, an interrupt) leaves
\* run_work and its callers: there is no result.
Dies ==
  /\ wpc # "idle"
  /\ GoesAstray
  /\ EndWork("none")
  /\ UNCHANGED <<runs, posts, clock, work, misrouted>>

NewRun(n) == [work |-> n, status |-> "queued", passed |-> FALSE, changed |-> FALSE]

AnswerLookup ==
  /\ wpc \in Lookups
  /\ wire.stage = "sent"
  /\ \E ok \in BOOLEAN : wire' = [wire EXCEPT !.stage = "answered", !.ok = ok]
  /\ UNCHANGED <<runs, astray, posts, clock, wpc, work, outcome, misrouted>>

AnswerCreate ==
  /\ wpc = "create"
  /\ wire.stage = "sent"
  /\ \/ /\ runs' = Append(runs, NewRun(work.no))
        /\ wire' = [wire EXCEPT !.stage = "answered", !.ok = TRUE, !.run = Len(runs) + 1]
     \/ /\ wire' = [wire EXCEPT !.stage = "answered"]
        /\ UNCHANGED runs
  /\ UNCHANGED <<astray, posts, clock, wpc, work, outcome, misrouted>>

About(r) ==
  wire' = [stage |-> "answered", ok |-> TRUE, run |-> r, status |-> runs[r].status,
           passed |-> runs[r].passed, changed |-> runs[r].changed]

AnswerRun ==
  /\ wpc \in {"events", "review"}
  /\ wire.stage = "sent"
  /\ \/ About(work.run) /\ UNCHANGED misrouted
     \/ \E r \in DOMAIN runs \ {work.run} :
          /\ misrouted < MaxMisrouted
          /\ misrouted' = misrouted + 1
          /\ About(r)
     \/ /\ wire' = [wire EXCEPT !.stage = "answered"]
        /\ UNCHANGED misrouted
  /\ UNCHANGED <<runs, astray, posts, clock, wpc, work, outcome>>

StrayArrives ==
  \E n \in astray :
    /\ runs' = Append(runs, NewRun(n))
    /\ astray' = astray \ {n}
    /\ UNCHANGED <<posts, clock, wpc, wire, work, outcome, misrouted>>

RunStarts(r) ==
  /\ runs[r].status = "queued"
  /\ runs' = [runs EXCEPT ![r].status = "running"]
  /\ UNCHANGED <<astray, posts, clock, wpc, wire, work, outcome, misrouted>>

RunEnds(r) ==
  /\ runs[r].status = "running"
  /\ \E s \in Terminal, passed, changed \in BOOLEAN :
       runs' = [runs EXCEPT ![r].status = s, ![r].passed = passed, ![r].changed = changed]
  /\ UNCHANGED <<astray, posts, clock, wpc, wire, work, outcome, misrouted>>

Tick ==
  /\ clock < MaxClock
  /\ clock' = clock + 1
  /\ UNCHANGED <<runs, astray, posts, wpc, wire, work, outcome, misrouted>>

-----------------------------------------------------------------------------

WorkInit ==
  /\ runs = << >>
  /\ astray = {}
  /\ posts = << >>
  /\ clock = 0
  /\ wpc = "idle"
  /\ wire = Quiet
  /\ work = NoWork
  /\ outcome = "none"
  /\ misrouted = 0

Client ==
  \/ Send \/ TooLate \/ Refused \/ LookupDone \/ CreateDone
  \/ EventsDone \/ Wake \/ ReviewDone

Answer == AnswerLookup \/ AnswerCreate \/ AnswerRun

Harness ==
  \/ Answer
  \/ StrayArrives
  \/ \E r \in DOMAIN runs : RunStarts(r) \/ RunEnds(r)

WorkNext ==
  StartWork \/ RejectWork \/ Client \/ Fails \/ Dies \/ Harness \/ Tick

WorkSpec == WorkInit /\ [][WorkNext]_workVars

-----------------------------------------------------------------------------
(* Properties *)

\* Types; the polls stay within their budget, and only a run seen terminal is
\* reviewed.
WorkTypeOK ==
  /\ runs \in Seq(Runs)
  /\ astray \subseteq 1..work.no
  /\ posts \in Seq(1..work.no)
  /\ clock \in Nat
  /\ wpc \in Requests \cup {"idle", "sleep"}
  /\ wire \in Wires
  /\ work \in Works
  /\ work.polls <= MaxPolls
  /\ wpc = "review" => work.status \in Terminal
  /\ outcome \in {"none", "ready", "blocked"}
  /\ misrouted \in Nat

\* "One work submission per user turn, never retry creation after uncertain
\* delivery" (docs/product/pr_137_harness_work_agent.md:83): whatever is lost,
\* late or misrouted, one call of run_work makes at most one run, and none
\* without having posted it.
AtMostOneRun ==
  /\ \A i, j \in DOMAIN runs : runs[i].work = runs[j].work => i = j
  /\ \A i \in DOMAIN runs : \E k \in DOMAIN posts : posts[k] = runs[i].work

\* "Failed runs may return terminal review but never count as successful work"
\* (pr_137:87): ready means that the run this very call created succeeded, was
\* validated and changed something, not some other run.
ReadyIsReviewed ==
  outcome = "ready" =>
    \E r \in DOMAIN runs :
      /\ runs[r].work = work.no
      /\ runs[r].status = "succeeded"
      /\ runs[r].passed
      /\ runs[r].changed
=============================================================================
