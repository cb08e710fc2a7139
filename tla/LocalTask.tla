------------------------------ MODULE LocalTask ------------------------------
(***************************************************************************)
(* The governed local task pipeline: a task is written to a pair of files  *)
(* (local_task_file_pack.py), reviewed (local_task_review_gate.py),        *)
(* classified (local_task_approval_gate.py) and its commands are run       *)
(* (local_task_green_executor.py), all in one call                         *)
(* (local_operator_runtime.py) or by one command for each stage.           *)
(*                                                                         *)
(* Task ids that give the same slug share their files, and so do all       *)
(* requests of one workbench profile; the model has one such pair of files.*)
(* The calls are threads and processes without any lock.  A task is        *)
(* abstracted to the fields the gates decide by; its digest is a function  *)
(* of these without collisions; which fields a JSON text repeats or spells *)
(* wrongly is abstracted to a text no gate can parse.                      *)
(***************************************************************************)
EXTENDS Naturals, Sequences, FiniteSets, Functions

CONSTANTS
  Calls,         \* threads and processes, each making one call
  Tasks,         \* what a caller may ask for: id, zone and proposed commands
  HandMade,      \* task records somebody may write into the file by hand
  Requests,      \* lists of commands a caller may ask for, <<>> for none
  Commands,      \* the commands that occur anywhere
  Allowed,       \* _ALLOWED_EXACT_COMMANDS
  Unsplit,       \* commands shlex cannot split
  CommandLimit,  \* five in the code
  Missing, Empty, Broken,  \* a file not there, truncated, or mixed up
  None,          \* no record
  MaxFaults,     \* bound: failing writes
  MaxKills,      \* bound: killed calls
  MaxEdits       \* bound: changes by hand

Packed(task) ==
  [id |-> task.id, zone |-> task.zone, commands |-> task.commands,
   human |-> task.zone \in {"yellow", "red"}, required |-> FALSE, claims |-> FALSE]

Contents == {Packed(task) : task \in Tasks} \cup HandMade

Ids == {content.id : content \in Contents}

NoRecords == {Missing, Empty, Broken}

\* What a reader of the task file may find.
Texts == Contents \cup NoRecords

\* The commands of a task are a cleaned list, and the values that stand for a
\* file without a record are no records.
ASSUME LocalTaskAssumption ==
  /\ \A content \in Contents : content.commands \in Seq(Commands)
  /\ Requests \subseteq Seq(Commands)
  /\ <<>> \in Requests
  /\ CommandLimit \in Nat
  /\ NoRecords \cap Contents = {}
  /\ NoRecords \cap Ids = {}
  /\ MaxFaults \in Nat /\ MaxKills \in Nat /\ MaxEdits \in Nat

VARIABLES
  taskFile,    \* the file of the task record
  outboxFile,  \* the file of the outbox record, abstracted to its task id
  reviews,     \* review results kept in files
  approvals,   \* approval results kept in files
  passed,      \* history: contents a review found ready
  pc,          \* where each call is
  job,         \* the locals of each call
  alone,       \* history: nobody else has written the task file since this call
               \* opened it
  ran,         \* history: the commands executed
  faults, kills, edits

files == <<taskFile, outboxFile>>
bounds == <<faults, kills, edits>>
vars == <<files, reviews, approvals, passed, pc, job, alone, ran, bounds>>

Writing == {"openTask", "fillTask", "openOutbox", "fillOutbox"}
Reading == {"readTask", "readOutbox", "load"}

NoJob == [kind |-> "none", task |-> None, seen |-> Missing, approval |-> None,
          asked |-> <<>>, content |-> None, plan |-> <<>>, failed |-> FALSE,
          result |-> "none"]

-----------------------------------------------------------------------------
(* The decisions of the gates, pure functions of the records they are given *)

\* compute_local_task_digest: equal exactly for equal records.
Digest(content) == [sha256 |-> content]

ReviewDecision(content, outbox) ==
  IF content \notin Contents \/ outbox \notin Ids THEN "invalid"
  ELSE IF content.id # outbox THEN "invalid"
  ELSE IF content.zone = "red" \/ content.claims THEN "blocked"
  ELSE "ready"

Review(content, outbox) ==
  IF content \in Contents
  THEN [decision |-> ReviewDecision(content, outbox), id |-> content.id,
        digest |-> Digest(content), zone |-> content.zone,
        required |-> content.required]
  ELSE [decision |-> "invalid", id |-> None, digest |-> None,
        zone |-> "none", required |-> FALSE]

ApprovalDecision(review) ==
  IF \/ review.decision = "invalid"
     \/ review.digest = None
     \/ review.zone \notin {"green", "yellow", "red", "none"}
  THEN "invalid"
  ELSE IF review.decision = "blocked" \/ review.zone = "red" THEN "blocked"
  ELSE IF review.zone # "green" \/ review.required THEN "needs_approval"
  ELSE "ready_without_approval"

Approval(review) ==
  [decision |-> ApprovalDecision(review), id |-> review.id, digest |-> review.digest]

\* The commands to run: those asked for, or else all the task proposes.
Planned(content, asked) == IF asked = <<>> THEN content.commands ELSE asked

\* Faulty variant: no limit on the number of commands.
MayRunAny(content, plan) ==
  Range(plan) \subseteq Range(content.commands) \cap Allowed

MayRun(content, plan) ==
  /\ Len(plan) <= CommandLimit
  /\ Range(plan) \subseteq Range(content.commands) \cap Allowed

\* A declared command that shlex cannot split makes the request invalid.
Unparsed(content, plan) ==
  /\ Len(plan) <= CommandLimit
  /\ Range(plan) \cap Range(content.commands) \cap Unsplit # {}

\* Faulty variant: the executor goes by the task id alone.
SameTaskId(content, approval) == content.id = approval.id

\* The task id and the digest, computed anew, are those that were approved.
SameTask(content, approval) ==
  content.id = approval.id /\ Digest(content) = approval.digest

ExecutorDecision(content, approval, asked) ==
  IF content \notin Contents THEN "invalid"
  ELSE LET plan == Planned(content, asked) IN
    IF \/ ~ SameTask(content, approval)
       \/ plan = <<>>
       \/ Unparsed(content, plan)
    THEN "invalid"
    ELSE IF /\ approval.decision = "ready_without_approval"
            /\ content.zone = "green"
            /\ ~ content.human
            /\ ~ content.claims
            /\ MayRun(content, plan)
         THEN "ready" ELSE "blocked"

-----------------------------------------------------------------------------
(* Beginning and ending a call *)

Ends(c, result) ==
  /\ pc' = [pc EXCEPT ![c] = "done"]
  /\ job' = [job EXCEPT ![c].result = result, ![c].seen = Missing,
                        ![c].approval = None, ![c].plan = <<>>]

\* The whole pipeline, or the command that only writes the files.  A red task,
\* or a zone the dry run does not know, is blocked before anything is written.
Submit(c) ==
  /\ pc[c] = "idle"
  /\ \E kind \in {"operator", "pack"}, task \in Tasks :
       LET red == task.zone = "red" IN
       /\ pc' = [pc EXCEPT ![c] = IF red THEN "done" ELSE "openTask"]
       /\ job' = [job EXCEPT ![c] = [NoJob EXCEPT !.kind = kind, !.task = task,
                    !.result = IF red THEN "blocked" ELSE "none"]]
  /\ UNCHANGED <<files, reviews, approvals, passed, alone, ran, bounds>>

\* The command of the review gate.
StartReview(c) ==
  /\ pc[c] = "idle"
  /\ pc' = [pc EXCEPT ![c] = "readTask"]
  /\ job' = [job EXCEPT ![c] = [NoJob EXCEPT !.kind = "review"]]
  /\ UNCHANGED <<files, reviews, approvals, passed, alone, ran, bounds>>

\* The command of the approval gate: it reads one file and prints its answer.
Approve ==
  /\ \E review \in reviews : approvals' = approvals \cup {Approval(review)}
  /\ UNCHANGED <<files, reviews, passed, pc, job, alone, ran, bounds>>

\* The command of the executor reads the file of an approval.
StartExecute(c) ==
  /\ pc[c] = "idle"
  /\ \E approval \in approvals :
       job' = [job EXCEPT ![c] = [NoJob EXCEPT !.kind = "execute", !.approval = approval]]
  /\ pc' = [pc EXCEPT ![c] = "load"]
  /\ UNCHANGED <<files, reviews, approvals, passed, alone, ran, bounds>>

-----------------------------------------------------------------------------
(* Writing the files: write_text truncates, then writes *)

\* A write into a file that is no longer as it was truncated overlays what
\* another call has written: the longer text keeps its end.
Overlay(file, text) == IF file = Empty THEN {text} ELSE {text, Broken}

\* A step of c writes the task file or not.
Wrote(c, writes) ==
  alone' = IF writes THEN [d \in Calls |-> d = c /\ alone[d]] ELSE alone

\* Faulty variant: a task file that is already there is kept.
OpenTaskKeeping(c) ==
  /\ pc[c] = "openTask"
  /\ taskFile' = IF taskFile \in Contents THEN taskFile ELSE Empty
  /\ alone' = [d \in Calls |-> d = c /\ \A e \in Calls \ {c} : pc[e] # "fillTask"]
  /\ pc' = [pc EXCEPT ![c] = IF taskFile \in Contents THEN "openOutbox" ELSE "fillTask"]
  /\ UNCHANGED <<outboxFile, reviews, approvals, passed, job, ran, bounds>>

OpenTask(c) ==
  /\ pc[c] = "openTask"
  /\ taskFile' = Empty
  /\ alone' = [d \in Calls |-> d = c /\ \A e \in Calls \ {c} : pc[e] # "fillTask"]
  /\ pc' = [pc EXCEPT ![c] = "fillTask"]
  /\ UNCHANGED <<outboxFile, reviews, approvals, passed, job, ran, bounds>>

FillTask(c) ==
  /\ pc[c] = "fillTask"
  /\ taskFile' \in Overlay(taskFile, Packed(job[c].task))
  /\ Wrote(c, TRUE)
  /\ pc' = [pc EXCEPT ![c] = "openOutbox"]
  /\ UNCHANGED <<outboxFile, reviews, approvals, passed, job, ran, bounds>>

OpenOutbox(c) ==
  /\ pc[c] = "openOutbox"
  /\ outboxFile' = Empty
  /\ pc' = [pc EXCEPT ![c] = "fillOutbox"]
  /\ UNCHANGED <<taskFile, reviews, approvals, passed, job, alone, ran, bounds>>

\* The pipeline goes on to the review; the command is done.
FillOutbox(c) ==
  /\ pc[c] = "fillOutbox"
  /\ outboxFile' \in Overlay(outboxFile, job[c].task.id)
  /\ IF job[c].kind = "pack"
     THEN Ends(c, "written")
     ELSE pc' = [pc EXCEPT ![c] = "readTask"] /\ UNCHANGED job
  /\ UNCHANGED <<taskFile, reviews, approvals, passed, alone, ran, bounds>>

\* An OSError of any of these steps; what was being written may be there in part.
WriteFails(c) ==
  /\ pc[c] \in Writing
  /\ faults < MaxFaults
  /\ faults' = faults + 1
  /\ taskFile' \in {taskFile} \cup IF pc[c] = "fillTask" THEN {Broken} ELSE {}
  /\ outboxFile' \in {outboxFile} \cup IF pc[c] = "fillOutbox" THEN {Broken} ELSE {}
  /\ Wrote(c, pc[c] = "fillTask")
  /\ Ends(c, "invalid")
  /\ UNCHANGED <<reviews, approvals, passed, ran, kills, edits>>

-----------------------------------------------------------------------------
(* Reviewing: the task file is read, then the outbox file *)

ReadTask(c) ==
  /\ pc[c] = "readTask"
  /\ job' = [job EXCEPT ![c].seen = taskFile]
  /\ pc' = [pc EXCEPT ![c] = "readOutbox"]
  /\ UNCHANGED <<files, reviews, approvals, passed, alone, ran, bounds>>

\* The review and, in the pipeline, the approval gate on the result in memory.
ReadOutbox(c) ==
  /\ pc[c] = "readOutbox"
  /\ LET review   == Review(job[c].seen, outboxFile)
         approval == Approval(review)
     IN
     /\ passed' = IF review.decision = "ready" THEN passed \cup {job[c].seen} ELSE passed
     /\ \/ /\ job[c].kind = "review"
           /\ reviews' = reviews \cup {review}
           /\ Ends(c, review.decision)
        \/ /\ job[c].kind = "operator"
           /\ review.decision # "ready"
           /\ Ends(c, review.decision)
           /\ UNCHANGED reviews
        \/ /\ job[c].kind = "operator"
           /\ review.decision = "ready"
           /\ approval.decision # "ready_without_approval"
           /\ Ends(c, approval.decision)
           /\ UNCHANGED reviews
        \/ /\ job[c].kind = "operator"
           /\ review.decision = "ready"
           /\ approval.decision = "ready_without_approval"
           /\ pc' = [pc EXCEPT ![c] = "load"]
           /\ job' = [job EXCEPT ![c].seen = Missing, ![c].approval = approval]
           /\ UNCHANGED reviews
  /\ UNCHANGED <<files, approvals, alone, ran, bounds>>

\* Mixed-up bytes that are no UTF-8: an exception the readers do not catch.
ReadRaises(c) ==
  /\ pc[c] \in Reading
  /\ Broken = IF pc[c] = "readOutbox" THEN outboxFile ELSE taskFile
  /\ Ends(c, "error")
  /\ UNCHANGED <<files, reviews, approvals, passed, alone, ran, bounds>>

-----------------------------------------------------------------------------
(* Executing *)

\* The pipeline asks for the commands of its own task unless it is given some.
AskedBy(c) ==
  Requests \cup IF job[c].kind = "operator" THEN {job[c].task.commands} ELSE {}

\* The task file is read again and everything is checked on what was read.
\* What the caller asked for is chosen here, where it first matters.
Load(c) ==
  /\ pc[c] = "load"
  /\ \E asked \in AskedBy(c), execute \in BOOLEAN :
       LET decision == ExecutorDecision(taskFile, job[c].approval, asked) IN
       \/ /\ decision # "ready" \/ ~ execute
          /\ Ends(c, decision)
       \/ /\ decision = "ready" /\ execute
          /\ pc' = [pc EXCEPT ![c] = "run"]
          /\ job' = [job EXCEPT ![c].asked = asked, ![c].content = taskFile,
                                ![c].plan = Planned(taskFile, asked)]
  /\ UNCHANGED <<files, reviews, approvals, passed, alone, ran, bounds>>

Executes(c, ok) ==
  ran' = ran \cup {[call |-> c, command |-> Head(job[c].plan),
                    content |-> job[c].content, ok |-> ok]}

\* Faulty variant: the last command decides whether all succeeded.
RunCommandLastDecides(c) ==
  /\ pc[c] = "run"
  /\ \E ok \in BOOLEAN :
       /\ Executes(c, ok)
       /\ IF Len(job[c].plan) = 1
          THEN Ends(c, IF ok THEN "executed" ELSE "failed")
          ELSE /\ job' = [job EXCEPT ![c].plan = Tail(job[c].plan)]
               /\ UNCHANGED pc
  /\ UNCHANGED <<files, reviews, approvals, passed, alone, bounds>>

\* Every command runs, also after one has failed or timed out.
RunCommand(c) ==
  /\ pc[c] = "run"
  /\ \E ok \in BOOLEAN :
       LET failed == job[c].failed \/ ~ ok IN
       /\ Executes(c, ok)
       /\ IF Len(job[c].plan) = 1
          THEN Ends(c, IF failed THEN "failed" ELSE "executed")
          ELSE /\ job' = [job EXCEPT ![c].plan = Tail(job[c].plan), ![c].failed = failed]
               /\ UNCHANGED pc
  /\ UNCHANGED <<files, reviews, approvals, passed, alone, bounds>>

\* The output of a command cannot be decoded, or is cut off as the bytes that a
\* command left when it timed out: an exception _run_commands does not catch.
RunRaises(c) ==
  /\ pc[c] = "run"
  /\ Executes(c, FALSE)
  /\ Ends(c, "error")
  /\ UNCHANGED <<files, reviews, approvals, passed, alone, bounds>>

-----------------------------------------------------------------------------
(* The surroundings *)

Kill(c) ==
  /\ pc[c] \in Writing \cup Reading \cup {"run"}
  /\ kills < MaxKills
  /\ kills' = kills + 1
  /\ pc' = [pc EXCEPT ![c] = "dead"]
  /\ taskFile' \in {taskFile} \cup IF pc[c] = "fillTask" THEN {Broken} ELSE {}
  /\ outboxFile' \in {outboxFile} \cup IF pc[c] = "fillOutbox" THEN {Broken} ELSE {}
  /\ Wrote(c, pc[c] = "fillTask")
  /\ UNCHANGED <<reviews, approvals, passed, job, ran, faults, edits>>

\* Somebody changes the task file by hand.
Edit ==
  /\ edits < MaxEdits
  /\ edits' = edits + 1
  /\ taskFile' \in HandMade
  /\ alone' = [d \in Calls |-> FALSE]
  /\ UNCHANGED <<outboxFile, reviews, approvals, passed, pc, job, ran, faults, kills>>

\* Earlier calls may have left the files of a task and its review behind.
Init ==
  /\ \/ taskFile = Missing /\ outboxFile = Missing /\ reviews = {} /\ passed = {}
     \/ \E task \in Tasks :
          /\ task.zone # "red"
          /\ taskFile = Packed(task) /\ outboxFile = task.id
          /\ \/ reviews = {} /\ passed = {}
             \/ reviews = {Review(taskFile, outboxFile)} /\ passed = {taskFile}
  /\ approvals = {}
  /\ pc = [c \in Calls |-> "idle"]
  /\ job = [c \in Calls |-> NoJob]
  /\ alone = [c \in Calls |-> FALSE]
  /\ ran = {}
  /\ faults = 0 /\ kills = 0 /\ edits = 0

Next ==
  \/ Approve
  \/ Edit
  \/ \E c \in Calls :
       \/ Submit(c) \/ StartReview(c) \/ StartExecute(c)
       \/ OpenTask(c) \/ FillTask(c) \/ OpenOutbox(c) \/ FillOutbox(c)
       \/ WriteFails(c)
       \/ ReadTask(c) \/ ReadOutbox(c) \/ ReadRaises(c)
       \/ Load(c) \/ RunCommand(c) \/ RunRaises(c)
       \/ Kill(c)

Spec == Init /\ [][Next]_vars

-----------------------------------------------------------------------------
(* Properties *)

Kinds == {"none", "operator", "pack", "review", "execute"}

Places == Writing \cup Reading \cup {"idle", "run", "done", "dead"}

Results == {"none", "written", "invalid", "blocked", "needs_approval", "ready",
            "executed", "failed", "error"}

Reviews == {Review(text, outbox) : text \in Texts, outbox \in Ids \cup NoRecords}

Approvals == {Approval(review) : review \in Reviews}

Jobs == [kind : Kinds, task : Tasks \cup {None}, seen : Texts,
         approval : Approvals \cup {None}, asked : Seq(Commands),
         content : Contents \cup {None}, plan : Seq(Commands),
         failed : BOOLEAN, result : Results]

Runs == [call : Calls, command : Commands, content : Contents, ok : BOOLEAN]

Fits(place, j) ==
  /\ place \in Writing => j.kind \in {"operator", "pack"}
  /\ j.kind \in {"operator", "pack"} => j.task \in Tasks
  /\ place = "load" => j.approval \in Approvals
  /\ place = "run" => j.content \in Contents /\ Len(j.plan) \in 1 .. CommandLimit
  /\ place = "done" => j.result # "none"

\* What each call holds fits the place it is at: a call that writes has a task,
\* one that loads a task has an approval, one that runs commands has a record to
\* run them for, within the limit on their number
\* (local_task_green_executor.py:288), and one that is done has a result.
TypeOK ==
  /\ taskFile \in Texts
  /\ outboxFile \in Ids \cup NoRecords
  /\ reviews \subseteq Reviews
  /\ approvals \subseteq Approvals
  /\ passed \subseteq Contents
  /\ pc \in [Calls -> Places]
  /\ job \in [Calls -> Jobs]
  /\ alone \in [Calls -> BOOLEAN]
  /\ ran \subseteq Runs
  /\ \A c \in Calls : Fits(pc[c], job[c])
  /\ faults \in 0 .. MaxFaults
  /\ kills \in 0 .. MaxKills
  /\ edits \in 0 .. MaxEdits

\* Whatever is written to the files between the stages, and however old the
\* approval is, a command only runs for a record that a review has found ready,
\* that is green and asks for no human approval, and that declares the command
\* (local_task_green_executor.py:230-273: the digest of the record that is read
\* last has to be the approved one).
RunsWereReviewed ==
  \A run \in ran :
    /\ run.content \in passed
    /\ run.content.zone = "green" /\ ~ run.content.human
    /\ run.command \in Range(run.content.commands) \cap Allowed

\* A pipeline during which nobody else writes the task file runs the task it was
\* called for (local_operator_runtime.py:186-273: what is reviewed and executed
\* is read back from the files).
UndisturbedRunsItsTask ==
  \A run \in ran :
    job[run.call].kind = "operator" /\ alone[run.call] =>
      run.content = Packed(job[run.call].task)

\* The result tells what ran (local_task_green_executor.py:319-356, 423-435):
\* "executed" that every command asked for ran and succeeded, "failed" that all ran and one did
\* not succeed, any other result of a gate that none did.
ResultsMatchRuns ==
  \A c \in Calls :
    LET mine == {run \in ran : run.call = c} IN
    pc[c] = "done" =>
      CASE job[c].result \in {"executed", "failed"} ->
             /\ {run.command : run \in mine}
                  = Range(Planned(job[c].content, job[c].asked))
             /\ job[c].result = "executed" <=> \A run \in mine : run.ok
        [] job[c].result = "error" -> TRUE
        [] OTHER -> mine = {}
=============================================================================
