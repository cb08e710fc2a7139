--------------------------- MODULE LocalTaskProofs ---------------------------
(***************************************************************************)
(* Proofs about LocalTask for every number of calls, tasks, requests and   *)
(* commands and every allowlist: type correctness, that commands run only  *)
(* for a record that was reviewed, that results tell what ran, and that an *)
(* undisturbed pipeline runs its own task.                                 *)
(***************************************************************************)
EXTENDS LocalTask, TLAPS

-----------------------------------------------------------------------------
(* The decisions of the gates *)

LEMMA ReviewFacts ==
  ASSUME NEW text \in Texts, NEW outbox \in Ids \cup NoRecords
  PROVE  /\ Review(text, outbox) \in Reviews
         /\ Review(text, outbox).decision \in {"invalid", "blocked", "ready"}
         /\ Review(text, outbox).decision = "ready" =>
              text \in Contents /\ Review(text, outbox).digest = Digest(text)
<1>1. Review(text, outbox) \in Reviews
  BY DEF Reviews
<1>2. ReviewDecision(text, outbox) \in {"invalid", "blocked", "ready"}
  BY DEF ReviewDecision
<1>3. CASE text \in Contents
  BY <1>1, <1>2, <1>3 DEF Review
<1>4. CASE text \notin Contents
  BY <1>1, <1>4 DEF Review
<1> QED
  BY <1>3, <1>4

LEMMA ApprovalFacts ==
  ASSUME NEW review \in Reviews
  PROVE  /\ Approval(review) \in Approvals
         /\ Approval(review).digest = review.digest
         /\ Approval(review).decision \in
              {"invalid", "blocked", "needs_approval", "ready_without_approval"}
         /\ Approval(review).decision = "ready_without_approval" =>
              review.decision = "ready"
<1>1. Approval(review) \in Approvals
  BY DEF Approvals
<1>2. review.decision \in {"invalid", "blocked", "ready"}
  BY ReviewFacts DEF Reviews
<1>3. /\ ApprovalDecision(review) \in
           {"invalid", "blocked", "needs_approval", "ready_without_approval"}
      /\ ApprovalDecision(review) = "ready_without_approval" =>
           review.decision = "ready"
  BY <1>2 DEF ApprovalDecision
<1> QED
  BY <1>1, <1>3 DEF Approval

LEMMA PlannedFacts ==
  ASSUME NEW content \in Contents, NEW asked \in Seq(Commands)
  PROVE  Planned(content, asked) \in Seq(Commands)
BY LocalTaskAssumption DEF Planned

LEMMA ExecutorFacts ==
  ASSUME NEW text \in Texts, NEW approval \in Approvals, NEW asked \in Seq(Commands)
  PROVE  /\ ExecutorDecision(text, approval, asked) \in {"invalid", "blocked", "ready"}
         /\ ExecutorDecision(text, approval, asked) = "ready" =>
              /\ text \in Contents
              /\ approval.decision = "ready_without_approval"
              /\ Digest(text) = approval.digest
              /\ text.zone = "green" /\ ~ text.human
              /\ MayRun(text, Planned(text, asked))
              /\ Planned(text, asked) # <<>>
              /\ Planned(text, asked) \in Seq(Commands)
<1>1. CASE text \notin Contents
  BY <1>1 DEF ExecutorDecision
<1>2. CASE text \in Contents
  BY <1>2, PlannedFacts DEF ExecutorDecision, SameTask
<1> QED
  BY <1>1, <1>2

-----------------------------------------------------------------------------
(* Type correctness *)

LEMMA AskedFacts ==
  ASSUME NEW c \in Calls, job[c].kind = "operator" => job[c].task \in Tasks
  PROVE  AskedBy(c) \subseteq Seq(Commands)
<1>1. CASE job[c].kind = "operator"
  <2>1. Packed(job[c].task) \in Contents
    BY <1>1 DEF Contents
  <2>2. job[c].task.commands \in Seq(Commands)
    BY <2>1, LocalTaskAssumption DEF Packed
  <2> QED
    BY <1>1, <2>2, LocalTaskAssumption DEF AskedBy
<1>2. CASE job[c].kind # "operator"
  BY <1>2, LocalTaskAssumption DEF AskedBy
<1> QED
  BY <1>1, <1>2

LEMMA NoJobType == NoJob \in Jobs
BY DEF NoJob, Jobs, Kinds, Results, Texts, NoRecords

CallsOK ==
  /\ pc \in [Calls -> Places]
  /\ job \in [Calls -> Jobs]
  /\ \A c \in Calls : Fits(pc[c], job[c])

\* A step of one call leaves all calls fitting.
LEMMA StepFits ==
  ASSUME CallsOK, NEW c \in Calls, NEW place \in Places, NEW j \in Jobs, Fits(place, j),
         pc' = [pc EXCEPT ![c] = place], job' = [job EXCEPT ![c] = j]
  PROVE  CallsOK'
<1>1. pc' \in [Calls -> Places] /\ job' \in [Calls -> Jobs]
  BY DEF CallsOK
<1>2. ASSUME NEW d \in Calls PROVE Fits(pc'[d], job'[d])
  BY <1>2 DEF CallsOK
<1> QED
  BY <1>1, <1>2 DEF CallsOK

\* The locals of a call that has ended.
Ended(j, result) ==
  [j EXCEPT !.result = result, !.seen = Missing, !.approval = None, !.plan = <<>>]

LEMMA EndedJob ==
  ASSUME NEW j \in Jobs, NEW result \in Results
  PROVE  /\ Ended(j, result) \in Jobs
         /\ Ended(j, result).kind = j.kind
         /\ Ended(j, result).task = j.task
         /\ Ended(j, result).result = result
<1>1. Missing \in Texts /\ <<>> \in Seq(Commands) /\ None \in Approvals \cup {None}
  BY DEF Texts, NoRecords
<1> QED
  BY <1>1 DEF Jobs, Ended

LEMMA EndsFits ==
  ASSUME CallsOK, NEW c \in Calls, NEW result \in Results \ {"none"}, Ends(c, result)
  PROVE  CallsOK'
<1> DEFINE j == Ended(job[c], result)
<1>1. job[c] \in Jobs /\ Fits(pc[c], job[c])
  BY DEF CallsOK
<1>2. /\ pc' = [pc EXCEPT ![c] = "done"]
      /\ job' = [job EXCEPT ![c] = j]
  BY DEF Ends, Ended
<1>3. j \in Jobs /\ Fits("done", j)
  BY <1>1, EndedJob DEF Fits, Writing
<1>4. "done" \in Places
  BY DEF Places
<1> HIDE DEF j
<1> QED
  BY <1>2, <1>3, <1>4, StepFits

LEMMA TypeInit == Init => TypeOK
<1> SUFFICES ASSUME Init PROVE TypeOK
  OBVIOUS
<1> USE LocalTaskAssumption DEF Init
<1>1. /\ taskFile \in Texts /\ outboxFile \in Ids \cup NoRecords
      /\ reviews \subseteq Reviews /\ passed \subseteq Contents
  <2>1. CASE taskFile = Missing /\ outboxFile = Missing /\ reviews = {} /\ passed = {}
    BY <2>1 DEF Texts, NoRecords
  <2>2. ASSUME NEW task \in Tasks,
               taskFile = Packed(task), outboxFile = task.id,
               \/ reviews = {} /\ passed = {}
               \/ reviews = {Review(taskFile, outboxFile)} /\ passed = {taskFile}
        PROVE  /\ taskFile \in Texts /\ outboxFile \in Ids \cup NoRecords
               /\ reviews \subseteq Reviews /\ passed \subseteq Contents
    <3>1. taskFile \in Contents
      BY <2>2 DEF Contents
    <3>2. outboxFile \in Ids
      BY <2>2, <3>1 DEF Ids, Packed
    <3>3. Review(taskFile, outboxFile) \in Reviews
      BY <3>1, <3>2 DEF Reviews, Texts
    <3> QED
      BY <2>2, <3>1, <3>2, <3>3 DEF Texts
  <2> QED
    BY <2>1, <2>2
<1>2. \A c \in Calls : Fits("idle", NoJob)
  BY DEF Fits, NoJob, Writing
<1> QED
  BY <1>1, <1>2, NoJobType DEF TypeOK, Places

FilesOK ==
  /\ taskFile \in Texts
  /\ outboxFile \in Ids \cup NoRecords
  /\ reviews \subseteq Reviews
  /\ approvals \subseteq Approvals
  /\ passed \subseteq Contents

HistoryOK ==
  /\ alone \in [Calls -> BOOLEAN]
  /\ ran \subseteq Runs
  /\ faults \in 0 .. MaxFaults
  /\ kills \in 0 .. MaxKills
  /\ edits \in 0 .. MaxEdits

LEMMA TypeParts ==
  /\ TypeOK <=> CallsOK /\ FilesOK /\ HistoryOK
  /\ TypeOK' <=> CallsOK' /\ FilesOK' /\ HistoryOK'
BY DEF TypeOK, CallsOK, FilesOK, HistoryOK

\* What the locals of a call become in the steps that do not end it.
LEMMA SeenJob ==
  ASSUME NEW j \in Jobs, NEW text \in Texts
  PROVE  LET k == [j EXCEPT !.seen = text] IN
         k \in Jobs /\ k.kind = j.kind /\ k.task = j.task
BY DEF Jobs

LEMMA ApprovedJob ==
  ASSUME NEW j \in Jobs, NEW approval \in Approvals
  PROVE  LET k == [j EXCEPT !.seen = Missing, !.approval = approval] IN
         k \in Jobs /\ k.kind = j.kind /\ k.task = j.task /\ k.approval = approval
BY DEF Jobs, Texts, NoRecords

LEMMA RunningJob ==
  ASSUME NEW j \in Jobs, NEW plan \in Seq(Commands), NEW failed \in BOOLEAN
  PROVE  LET k == [j EXCEPT !.plan = plan, !.failed = failed] IN
         /\ k \in Jobs /\ k.kind = j.kind /\ k.task = j.task
         /\ k.content = j.content /\ k.plan = plan
BY DEF Jobs

LEMMA SubmitType ==
  ASSUME TypeOK, NEW c \in Calls, Submit(c)
  PROVE  TypeOK'
<1>1. FilesOK' /\ HistoryOK'
  BY TypeParts DEF Submit, FilesOK, HistoryOK, files, bounds
<1>2. PICK kind \in {"operator", "pack"}, task \in Tasks :
        LET red == task.zone = "red" IN
        /\ pc' = [pc EXCEPT ![c] = IF red THEN "done" ELSE "openTask"]
        /\ job' = [job EXCEPT ![c] = [NoJob EXCEPT !.kind = kind, !.task = task,
                     !.result = IF red THEN "blocked" ELSE "none"]]
  BY DEF Submit
<1> DEFINE place == IF task.zone = "red" THEN "done" ELSE "openTask"
           j == [NoJob EXCEPT !.kind = kind, !.task = task,
                   !.result = IF task.zone = "red" THEN "blocked" ELSE "none"]
<1>3. j \in Jobs
  BY NoJobType DEF Jobs, Kinds, Results
<1>4. place \in Places /\ Fits(place, j)
  BY DEF Places, Fits, Writing, NoJob
<1>5. pc' = [pc EXCEPT ![c] = place] /\ job' = [job EXCEPT ![c] = j]
  BY <1>2
<1> HIDE DEF place, j
<1>6. CallsOK'
  BY <1>3, <1>4, <1>5, StepFits, TypeParts
<1> QED
  BY <1>1, <1>6, TypeParts

LEMMA StartReviewType ==
  ASSUME TypeOK, NEW c \in Calls, StartReview(c)
  PROVE  TypeOK'
<1>1. FilesOK' /\ HistoryOK'
  BY TypeParts DEF StartReview, FilesOK, HistoryOK, files, bounds
<1> DEFINE j == [NoJob EXCEPT !.kind = "review"]
<1>2. j \in Jobs
  BY NoJobType DEF Jobs, Kinds
<1>3. "readTask" \in Places /\ Fits("readTask", j)
  BY DEF Places, Reading, Fits, Writing, NoJob
<1>4. pc' = [pc EXCEPT ![c] = "readTask"] /\ job' = [job EXCEPT ![c] = j]
  BY DEF StartReview
<1> HIDE DEF j
<1>5. CallsOK'
  BY <1>2, <1>3, <1>4, StepFits, TypeParts
<1> QED
  BY <1>1, <1>5, TypeParts

LEMMA StartExecuteType ==
  ASSUME TypeOK, NEW c \in Calls, StartExecute(c)
  PROVE  TypeOK'
<1>1. FilesOK' /\ HistoryOK'
  BY TypeParts DEF StartExecute, FilesOK, HistoryOK, files, bounds
<1>2. PICK approval \in approvals :
        job' = [job EXCEPT ![c] = [NoJob EXCEPT !.kind = "execute", !.approval = approval]]
  BY DEF StartExecute
<1> DEFINE j == [NoJob EXCEPT !.kind = "execute", !.approval = approval]
<1>3. approval \in Approvals
  BY TypeParts DEF FilesOK
<1>4. j \in Jobs
  BY <1>3, NoJobType DEF Jobs, Kinds
<1>5. "load" \in Places /\ Fits("load", j)
  BY <1>3 DEF Places, Reading, Fits, Writing, NoJob
<1>6. pc' = [pc EXCEPT ![c] = "load"] /\ job' = [job EXCEPT ![c] = j]
  BY <1>2 DEF StartExecute
<1> HIDE DEF j
<1>7. CallsOK'
  BY <1>4, <1>5, <1>6, StepFits, TypeParts
<1> QED
  BY <1>1, <1>7, TypeParts

LEMMA ApproveType == ASSUME TypeOK, Approve PROVE TypeOK'
<1>1. approvals' \subseteq Approvals
  BY ApprovalFacts, TypeParts DEF Approve, FilesOK
<1> QED
  BY <1>1 DEF TypeOK, Approve, files, bounds

\* A step of a call that only moves it on, in the order of the pipeline.
LEMMA MoveFits ==
  ASSUME CallsOK, NEW c \in Calls, NEW place \in Places \ {"load", "run", "done"},
         place \in Writing => pc[c] \in Writing,
         pc' = [pc EXCEPT ![c] = place], UNCHANGED job
  PROVE  CallsOK'
<1>1. job[c] \in Jobs /\ Fits(pc[c], job[c])
  BY DEF CallsOK
<1>2. Fits(place, job[c])
  BY <1>1 DEF Fits
<1>3. job' = [job EXCEPT ![c] = job[c]]
  BY DEF CallsOK
<1> QED
  BY <1>1, <1>2, <1>3, StepFits

LEMMA WritingType ==
  ASSUME TypeOK, NEW c \in Calls,
         OpenTask(c) \/ FillTask(c) \/ OpenOutbox(c) \/ FillOutbox(c)
  PROVE  TypeOK'
<1> USE TypeParts
<1>1. pc[c] \in Writing
  BY DEF OpenTask, FillTask, OpenOutbox, FillOutbox, Writing
<1>2. job[c].task \in Tasks
  BY <1>1 DEF CallsOK, Fits
<1>3. Packed(job[c].task) \in Contents
  BY <1>2 DEF Contents
<1>4. job[c].task.id \in Ids
  BY <1>3 DEF Ids, Packed
<1>5. HistoryOK'
  BY DEF HistoryOK, OpenTask, FillTask, OpenOutbox, FillOutbox, Wrote, bounds
<1>6. CASE OpenTask(c)
  <2>1. FilesOK'
    BY <1>6 DEF OpenTask, FilesOK, Texts, NoRecords
  <2>2. CallsOK'
    BY <1>1, <1>6, MoveFits DEF OpenTask, Places, Writing
  <2> QED
    BY <1>5, <2>1, <2>2
<1>7. CASE FillTask(c)
  <2>1. FilesOK'
    BY <1>3, <1>7 DEF FillTask, FilesOK, Overlay, Texts, NoRecords
  <2>2. CallsOK'
    BY <1>1, <1>7, MoveFits DEF FillTask, Places, Writing
  <2> QED
    BY <1>5, <2>1, <2>2
<1>8. CASE OpenOutbox(c)
  <2>1. FilesOK'
    BY <1>8 DEF OpenOutbox, FilesOK, NoRecords
  <2>2. CallsOK'
    BY <1>1, <1>8, MoveFits DEF OpenOutbox, Places, Writing
  <2> QED
    BY <1>5, <2>1, <2>2
<1>9. CASE FillOutbox(c)
  <2>1. FilesOK'
    BY <1>4, <1>9 DEF FillOutbox, FilesOK, Overlay, NoRecords
  <2>2. CASE job[c].kind = "pack"
    <3>1. Ends(c, "written") /\ "written" \in Results \ {"none"}
      BY <1>9, <2>2 DEF FillOutbox, Results
    <3> QED
      BY <1>5, <2>1, <3>1, EndsFits
  <2>3. CASE job[c].kind # "pack"
    <3>1. pc' = [pc EXCEPT ![c] = "readTask"] /\ UNCHANGED job
      BY <1>9, <2>3 DEF FillOutbox
    <3>2. "readTask" \in Places \ {"load", "run", "done"} /\ "readTask" \notin Writing
      BY DEF Places, Reading, Writing
    <3> QED
      BY <1>5, <2>1, <3>1, <3>2, MoveFits
  <2> QED
    BY <2>2, <2>3
<1> QED
  BY <1>6, <1>7, <1>8, <1>9

LEMMA WriteFailsType ==
  ASSUME TypeOK, NEW c \in Calls, WriteFails(c)
  PROVE  TypeOK'
<1> USE TypeParts
<1>1. FilesOK'
  BY DEF WriteFails, FilesOK, Texts, NoRecords
<1>2. HistoryOK'
  BY LocalTaskAssumption DEF WriteFails, HistoryOK, Wrote
<1>3. CallsOK'
  BY EndsFits DEF WriteFails, Results
<1> QED
  BY <1>1, <1>2, <1>3

LEMMA KillType ==
  ASSUME TypeOK, NEW c \in Calls, Kill(c)
  PROVE  TypeOK'
<1> USE TypeParts
<1>1. FilesOK'
  BY DEF Kill, FilesOK, Texts, NoRecords
<1>2. HistoryOK'
  BY LocalTaskAssumption DEF Kill, HistoryOK, Wrote
<1>3. CallsOK'
  BY MoveFits DEF Kill, Places, Writing
<1> QED
  BY <1>1, <1>2, <1>3

LEMMA EditType == ASSUME TypeOK, Edit PROVE TypeOK'
<1>1. taskFile' \in Texts
  BY DEF Edit, Texts, Contents
<1>2. edits' \in 0 .. MaxEdits
  BY LocalTaskAssumption DEF Edit, TypeOK
<1> QED
  BY <1>1, <1>2 DEF Edit, TypeOK

LEMMA ReadTaskType ==
  ASSUME TypeOK, NEW c \in Calls, ReadTask(c)
  PROVE  TypeOK'
<1> USE TypeParts
<1>1. FilesOK' /\ HistoryOK'
  BY DEF ReadTask, FilesOK, HistoryOK, files, bounds
<1> DEFINE j == [job[c] EXCEPT !.seen = taskFile]
<1>2. job[c] \in Jobs /\ Fits(pc[c], job[c]) /\ taskFile \in Texts
  BY DEF CallsOK, FilesOK
<1>3. j \in Jobs /\ j.kind = job[c].kind /\ j.task = job[c].task
  BY <1>2, SeenJob
<1>4. "readOutbox" \in Places /\ Fits("readOutbox", j)
  BY <1>2, <1>3 DEF Places, Reading, Fits, Writing
<1>5. pc' = [pc EXCEPT ![c] = "readOutbox"] /\ job' = [job EXCEPT ![c] = j]
  BY DEF ReadTask
<1> HIDE DEF j
<1> QED
  BY <1>1, <1>3, <1>4, <1>5, StepFits

LEMMA ReadOutboxType ==
  ASSUME TypeOK, NEW c \in Calls, ReadOutbox(c)
  PROVE  TypeOK'
<1> USE TypeParts
<1> DEFINE review   == Review(job[c].seen, outboxFile)
           approval == Approval(review)
           j        == [job[c] EXCEPT !.seen = Missing, !.approval = approval]
<1>1. job[c] \in Jobs /\ Fits(pc[c], job[c]) /\ job[c].seen \in Texts
  BY DEF CallsOK, Jobs
<1>2. outboxFile \in Ids \cup NoRecords
  BY DEF FilesOK
<1>3. /\ review \in Reviews
      /\ review.decision \in {"invalid", "blocked", "ready"}
      /\ review.decision = "ready" => job[c].seen \in Contents
  BY <1>1, <1>2, ReviewFacts
<1>4. /\ approval \in Approvals
      /\ approval.decision \in
           {"invalid", "blocked", "needs_approval", "ready_without_approval"}
  BY <1>3, ApprovalFacts
<1>5. /\ passed' \in {passed, passed \cup {job[c].seen}}
      /\ passed' # passed => review.decision = "ready"
      /\ reviews' \in {reviews, reviews \cup {review}}
      /\ UNCHANGED <<files, approvals, alone, ran, bounds>>
  BY DEF ReadOutbox
<1>6. FilesOK' /\ HistoryOK'
  BY <1>3, <1>5 DEF FilesOK, HistoryOK, files, bounds
<1>7. \/ Ends(c, review.decision)
      \/ Ends(c, approval.decision) /\ approval.decision # "ready_without_approval"
      \/ pc' = [pc EXCEPT ![c] = "load"] /\ job' = [job EXCEPT ![c] = j]
  BY DEF ReadOutbox
<1>8. /\ j \in Jobs /\ j.kind = job[c].kind /\ j.task = job[c].task
      /\ j.approval = approval
  BY <1>1, <1>4, ApprovedJob
<1>9. "load" \in Places /\ Fits("load", j)
  BY <1>1, <1>4, <1>8 DEF Places, Reading, Fits, Writing
<1> HIDE DEF review, approval, j
<1>10. CASE Ends(c, review.decision)
  <2>1. review.decision \in Results \ {"none"}
    BY <1>3 DEF Results
  <2> QED
    BY <1>6, <1>10, <2>1, EndsFits
<1>11. CASE Ends(c, approval.decision) /\ approval.decision # "ready_without_approval"
  <2>1. approval.decision \in Results \ {"none"}
    BY <1>4, <1>11 DEF Results
  <2> QED
    BY <1>6, <1>11, <2>1, EndsFits
<1>12. CASE pc' = [pc EXCEPT ![c] = "load"] /\ job' = [job EXCEPT ![c] = j]
  BY <1>6, <1>8, <1>9, <1>12, StepFits
<1> QED
  BY <1>7, <1>10, <1>11, <1>12

LEMMA ReadRaisesType ==
  ASSUME TypeOK, NEW c \in Calls, ReadRaises(c)
  PROVE  TypeOK'
<1> USE TypeParts
<1>1. FilesOK' /\ HistoryOK'
  BY DEF ReadRaises, FilesOK, HistoryOK, files, bounds
<1>2. CallsOK'
  BY EndsFits DEF ReadRaises, Results
<1> QED
  BY <1>1, <1>2

LEMMA LoadType ==
  ASSUME TypeOK, NEW c \in Calls, Load(c)
  PROVE  TypeOK'
<1> USE TypeParts
<1>1. FilesOK' /\ HistoryOK'
  BY DEF Load, FilesOK, HistoryOK, files, bounds
<1>2. /\ job[c] \in Jobs /\ taskFile \in Texts /\ job[c].approval \in Approvals
      /\ job[c].kind \in {"operator", "pack"} => job[c].task \in Tasks
  BY DEF CallsOK, FilesOK, Load, Fits
<1>3. PICK asked \in AskedBy(c), execute \in BOOLEAN :
        LET decision == ExecutorDecision(taskFile, job[c].approval, asked) IN
        \/ Ends(c, decision)
        \/ /\ decision = "ready"
           /\ pc' = [pc EXCEPT ![c] = "run"]
           /\ job' = [job EXCEPT ![c].asked = asked, ![c].content = taskFile,
                                 ![c].plan = Planned(taskFile, asked)]
  BY DEF Load
<1> DEFINE decision == ExecutorDecision(taskFile, job[c].approval, asked)
           plan     == Planned(taskFile, asked)
           j        == [job[c] EXCEPT !.asked = asked, !.content = taskFile, !.plan = plan]
<1>4. asked \in Seq(Commands)
  BY <1>2, AskedFacts
<1>5. decision \in {"invalid", "blocked", "ready"}
  BY <1>2, <1>4, ExecutorFacts
<1>6. CASE Ends(c, decision)
  <2>1. decision \in Results \ {"none"}
    BY <1>5 DEF Results
  <2> QED
    BY <1>1, <1>6, <2>1, EndsFits
<1>7. CASE /\ decision = "ready"
           /\ pc' = [pc EXCEPT ![c] = "run"]
           /\ job' = [job EXCEPT ![c] = j]
  <2>1. /\ taskFile \in Contents /\ plan \in Seq(Commands) /\ plan # <<>>
        /\ Len(plan) <= CommandLimit
    BY <1>2, <1>4, <1>7, ExecutorFacts DEF MayRun
  <2>2. Len(plan) \in 1 .. CommandLimit
    BY <2>1, LocalTaskAssumption
  <2> HIDE DEF plan
  <2>3. /\ j \in Jobs /\ j.kind = job[c].kind /\ j.task = job[c].task
        /\ j.content = taskFile /\ j.plan = plan
    <3>1. /\ job[c] \in Jobs /\ asked \in Seq(Commands)
          /\ taskFile \in Contents /\ plan \in Seq(Commands)
      BY <1>2, <1>4, <2>1
    <3> QED
      BY ONLY <3>1 DEF Jobs
  <2>4. "run" \in Places /\ Fits("run", j)
    BY <1>2, <2>1, <2>2, <2>3 DEF Places, Fits, Writing
  <2> HIDE DEF j
  <2> QED
    BY <1>1, <1>7, <2>3, <2>4, StepFits
<1> QED
  BY <1>3, <1>6, <1>7

\* The first command of a plan and the others.
LEMMA PlanFacts ==
  ASSUME NEW plan \in Seq(Commands), Len(plan) \in 1 .. CommandLimit
  PROVE  /\ Head(plan) \in Commands
         /\ Head(plan) \in Range(plan)
         /\ Len(plan) # 1 =>
              /\ Tail(plan) \in Seq(Commands)
              /\ Len(Tail(plan)) \in 1 .. CommandLimit
              /\ Range(Tail(plan)) \subseteq Range(plan)
<1>1. Len(plan) \in Nat \ {0} /\ CommandLimit \in Nat
  BY LocalTaskAssumption
<1>2. Head(plan) = plan[1] /\ 1 \in DOMAIN plan
  BY <1>1
<1>3. Head(plan) \in Commands /\ Head(plan) \in Range(plan)
  BY <1>2 DEF Range
<1>4. ASSUME Len(plan) # 1
      PROVE  /\ Tail(plan) \in Seq(Commands)
             /\ Len(Tail(plan)) = Len(plan) - 1
             /\ \A i \in DOMAIN Tail(plan) : i + 1 \in DOMAIN plan /\ Tail(plan)[i] = plan[i + 1]
  BY <1>1, <1>4
<1>5. Len(plan) # 1 =>
        /\ Len(Tail(plan)) \in 1 .. CommandLimit
        /\ Range(Tail(plan)) \subseteq Range(plan)
  BY <1>1, <1>4 DEF Range
<1> QED
  BY <1>3, <1>4, <1>5

LEMMA RunCommandType ==
  ASSUME TypeOK, NEW c \in Calls, RunCommand(c)
  PROVE  TypeOK'
<1> USE TypeParts
<1>1. FilesOK'
  BY DEF RunCommand, FilesOK, files
<1>2. PICK ok \in BOOLEAN :
        LET failed == job[c].failed \/ ~ ok IN
        /\ Executes(c, ok)
        /\ IF Len(job[c].plan) = 1
           THEN Ends(c, IF failed THEN "failed" ELSE "executed")
           ELSE /\ job' = [job EXCEPT ![c].plan = Tail(job[c].plan), ![c].failed = failed]
                /\ UNCHANGED pc
  BY DEF RunCommand
<1>3. /\ job[c] \in Jobs /\ pc[c] = "run" /\ Fits("run", job[c])
      /\ job[c].content \in Contents
      /\ job[c].plan \in Seq(Commands) /\ Len(job[c].plan) \in 1 .. CommandLimit
      /\ job[c].failed \in BOOLEAN
  BY DEF CallsOK, RunCommand, Fits, Jobs
<1>4. Head(job[c].plan) \in Commands
  BY <1>3, PlanFacts
<1>5. HistoryOK'
  BY <1>2, <1>3, <1>4 DEF RunCommand, HistoryOK, Executes, Runs, bounds
<1>6. CASE Len(job[c].plan) = 1
  <2>1. PICK result \in {"failed", "executed"} : Ends(c, result)
    BY <1>2, <1>6
  <2>2. result \in Results \ {"none"}
    BY DEF Results
  <2> QED
    BY <1>1, <1>5, <2>1, <2>2, EndsFits
<1>7. CASE Len(job[c].plan) # 1
  <2> DEFINE failed == job[c].failed \/ ~ ok
             j == [job[c] EXCEPT !.plan = Tail(job[c].plan), !.failed = failed]
  <2>1. Tail(job[c].plan) \in Seq(Commands) /\ Len(Tail(job[c].plan)) \in 1 .. CommandLimit
    BY <1>3, <1>7, PlanFacts
  <2>2. failed \in BOOLEAN
    OBVIOUS
  <2> HIDE DEF failed
  <2>3. /\ j \in Jobs /\ j.kind = job[c].kind /\ j.task = job[c].task
        /\ j.content = job[c].content /\ j.plan = Tail(job[c].plan)
    BY <1>3, <2>1, <2>2, RunningJob
  <2>4. "run" \in Places /\ Fits("run", j)
    BY <1>3, <2>1, <2>3 DEF Places, Fits, Writing
  <2>5. job' = [job EXCEPT ![c] = j]
    BY <1>2, <1>7 DEF failed
  <2>6. pc' = [pc EXCEPT ![c] = "run"]
    BY <1>2, <1>3, <1>7 DEF CallsOK
  <2> HIDE DEF j
  <2> QED
    BY <1>1, <1>5, <2>3, <2>4, <2>5, <2>6, StepFits
<1> QED
  BY <1>6, <1>7

LEMMA RunRaisesType ==
  ASSUME TypeOK, NEW c \in Calls, RunRaises(c)
  PROVE  TypeOK'
<1> USE TypeParts
<1>1. FilesOK'
  BY DEF RunRaises, FilesOK, files
<1>2. Head(job[c].plan) \in Commands /\ job[c].content \in Contents
  BY PlanFacts DEF RunRaises, CallsOK, Fits, Jobs
<1>3. ran' \subseteq Runs
  <2> DEFINE run == [call |-> c, command |-> Head(job[c].plan),
                     content |-> job[c].content, ok |-> FALSE]
  <2>1. run \in Runs
    BY <1>2 DEF Runs
  <2>2. ran' = ran \cup {run}
    BY DEF RunRaises, Executes
  <2> QED
    BY <2>1, <2>2 DEF HistoryOK
<1>4. HistoryOK'
  BY <1>3 DEF RunRaises, HistoryOK, bounds
<1>5. CallsOK'
  BY EndsFits DEF RunRaises, Results
<1> QED
  BY <1>1, <1>4, <1>5

LEMMA TypeNext == TypeOK /\ [Next]_vars => TypeOK'
<1> SUFFICES ASSUME TypeOK, [Next]_vars PROVE TypeOK'
  OBVIOUS
<1>1. CASE Approve
  BY <1>1, ApproveType
<1>2. CASE Edit
  BY <1>2, EditType
<1>3. ASSUME NEW c \in Calls,
             \/ Submit(c) \/ StartReview(c) \/ StartExecute(c)
             \/ OpenTask(c) \/ FillTask(c) \/ OpenOutbox(c) \/ FillOutbox(c)
             \/ WriteFails(c)
             \/ ReadTask(c) \/ ReadOutbox(c) \/ ReadRaises(c)
             \/ Load(c) \/ RunCommand(c) \/ RunRaises(c)
             \/ Kill(c)
      PROVE  TypeOK'
  BY <1>3, SubmitType, StartReviewType, StartExecuteType, WritingType, WriteFailsType,
     ReadTaskType, ReadOutboxType, ReadRaisesType, LoadType, RunCommandType,
     RunRaisesType, KillType
<1>4. CASE UNCHANGED vars
  BY <1>4 DEF vars, files, bounds, TypeOK
<1> QED
  BY <1>1, <1>2, <1>3, <1>4 DEF Next

\* The types of the pipeline, with every call fitting the place it is at
\* (lai_gateway/local_operator_runtime.py:186-281), for any number of calls.
THEOREM TypeCorrect == Spec => []TypeOK
<1>1. Init => TypeOK
  BY TypeInit
<1>2. TypeOK /\ [Next]_vars => TypeOK'
  BY TypeNext
<1> QED
  BY <1>1, <1>2, PTL DEF Spec

-----------------------------------------------------------------------------
(* Commands run only for a record that was reviewed *)

\* A digest of a record that a review found ready.
Known(digest) == \E content \in passed : digest = Digest(content)

ReviewsKnown == \A review \in reviews : review.decision = "ready" => Known(review.digest)

ApprovalsKnown ==
  \A approval \in approvals :
    approval.decision = "ready_without_approval" => Known(approval.digest)

\* The approval a call is about to load a task with.
LoadsKnown ==
  \A c \in Calls :
    pc[c] = "load" /\ job[c].approval.decision = "ready_without_approval" =>
      Known(job[c].approval.digest)

Runnable(content, commands) ==
  /\ content \in passed
  /\ content.zone = "green" /\ ~ content.human
  /\ commands \subseteq Range(content.commands) \cap Allowed

\* What a call is about to run.
PlansRunnable ==
  \A c \in Calls : pc[c] = "run" => Runnable(job[c].content, Range(job[c].plan))

ReviewInv ==
  /\ ReviewsKnown
  /\ ApprovalsKnown
  /\ LoadsKnown
  /\ PlansRunnable
  /\ RunsWereReviewed

LEMMA ReviewInvInit == Init => ReviewInv
<1> SUFFICES ASSUME Init PROVE ReviewInv
  OBVIOUS
<1> USE DEF Init
<1>1. ReviewsKnown
  <2>1. CASE reviews = {}
    BY <2>1 DEF ReviewsKnown
  <2>2. ASSUME NEW task \in Tasks, taskFile = Packed(task), outboxFile = task.id,
               reviews = {Review(taskFile, outboxFile)}, passed = {taskFile}
        PROVE  ReviewsKnown
    <3>1. taskFile \in Contents
      BY <2>2 DEF Contents
    <3>2. outboxFile \in Ids
      BY <2>2, <3>1 DEF Ids, Packed
    <3> QED
      BY <2>2, <3>1, <3>2, ReviewFacts DEF ReviewsKnown, Known, Texts
  <2> QED
    BY <2>1, <2>2
<1> QED
  BY <1>1 DEF ReviewInv, ApprovalsKnown, LoadsKnown, PlansRunnable, RunsWereReviewed

\* A record found ready stays so.
LEMMA PassedGrows ==
  ASSUME ReviewInv, passed \subseteq passed'
  PROVE  /\ reviews' \subseteq reviews => ReviewsKnown'
         /\ approvals' \subseteq approvals => ApprovalsKnown'
         /\ ran' \subseteq ran => RunsWereReviewed'
BY DEF ReviewInv, ReviewsKnown, ApprovalsKnown, RunsWereReviewed, Known

\* A step of c that does not leave it about to load or to run.
LEMMA CallsKnown ==
  ASSUME TypeOK, ReviewInv, passed \subseteq passed', NEW c \in Calls,
         \A d \in Calls \ {c} : pc'[d] = pc[d] /\ job'[d] = job[d],
         pc'[c] \notin {"load", "run"}
  PROVE  LoadsKnown' /\ PlansRunnable'
BY DEF ReviewInv, LoadsKnown, PlansRunnable, Known, Runnable

LEMMA EndsKnown ==
  ASSUME TypeOK, ReviewInv, passed \subseteq passed', NEW c \in Calls, NEW result,
         Ends(c, result)
  PROVE  LoadsKnown' /\ PlansRunnable'
BY CallsKnown DEF Ends, TypeOK

\* The steps that move a call on without touching reviews, approvals or runs.
LEMMA QuietSteps ==
  ASSUME TypeOK, ReviewInv, NEW c \in Calls,
         \/ Submit(c) \/ StartReview(c)
         \/ OpenTask(c) \/ FillTask(c) \/ OpenOutbox(c) \/ FillOutbox(c)
         \/ WriteFails(c) \/ ReadTask(c) \/ ReadRaises(c) \/ Kill(c)
  PROVE  ReviewInv'
<1>1. UNCHANGED <<reviews, approvals, passed, ran>>
  BY DEF Submit, StartReview, OpenTask, FillTask, OpenOutbox, FillOutbox, WriteFails,
         ReadTask, ReadRaises, Kill
<1>2. ReviewsKnown' /\ ApprovalsKnown' /\ RunsWereReviewed'
  BY <1>1, PassedGrows
<1>3. LoadsKnown' /\ PlansRunnable'
  <2>1. \A d \in Calls \ {c} : pc'[d] = pc[d] /\ job'[d] = job[d]
    BY DEF TypeOK, Submit, StartReview, OpenTask, FillTask, OpenOutbox, FillOutbox,
           WriteFails, ReadTask, ReadRaises, Kill, Ends
  <2>2. pc'[c] \notin {"load", "run"}
    BY DEF TypeOK, Submit, StartReview, OpenTask, FillTask, OpenOutbox, FillOutbox,
           WriteFails, ReadTask, ReadRaises, Kill, Ends
  <2> QED
    BY <1>1, <2>1, <2>2, CallsKnown
<1> QED
  BY <1>2, <1>3 DEF ReviewInv

LEMMA ApproveKnown == ASSUME TypeOK, ReviewInv, Approve PROVE ReviewInv'
<1>1. UNCHANGED <<reviews, passed, pc, job, ran>>
  BY DEF Approve
<1>2. ReviewsKnown' /\ RunsWereReviewed'
  BY <1>1, PassedGrows
<1>3. ApprovalsKnown'
  <2>1. PICK review \in reviews : approvals' = approvals \cup {Approval(review)}
    BY DEF Approve
  <2>2. /\ Approval(review).digest = review.digest
        /\ Approval(review).decision = "ready_without_approval" =>
             review.decision = "ready"
    BY ApprovalFacts DEF TypeOK
  <2> QED
    BY <1>1, <2>1, <2>2 DEF ReviewInv, ReviewsKnown, ApprovalsKnown, Known
<1>4. LoadsKnown' /\ PlansRunnable'
  BY <1>1 DEF ReviewInv, LoadsKnown, PlansRunnable, Known, Runnable
<1> QED
  BY <1>2, <1>3, <1>4 DEF ReviewInv

LEMMA EditKnown == ASSUME TypeOK, ReviewInv, Edit PROVE ReviewInv'
<1>1. UNCHANGED <<reviews, approvals, passed, pc, job, ran>>
  BY DEF Edit
<1>2. ReviewsKnown' /\ ApprovalsKnown' /\ RunsWereReviewed'
  BY <1>1, PassedGrows
<1>3. LoadsKnown' /\ PlansRunnable'
  BY <1>1 DEF ReviewInv, LoadsKnown, PlansRunnable, Known, Runnable
<1> QED
  BY <1>2, <1>3 DEF ReviewInv

LEMMA StartExecuteKnown ==
  ASSUME TypeOK, ReviewInv, NEW c \in Calls, StartExecute(c)
  PROVE  ReviewInv'
<1>1. UNCHANGED <<reviews, approvals, passed, ran>>
  BY DEF StartExecute
<1>2. ReviewsKnown' /\ ApprovalsKnown' /\ RunsWereReviewed'
  BY <1>1, PassedGrows
<1>3. PICK approval \in approvals :
        job' = [job EXCEPT ![c] = [NoJob EXCEPT !.kind = "execute", !.approval = approval]]
  BY DEF StartExecute
<1>4. job'[c].approval = approval
  BY <1>3 DEF NoJob, TypeOK
<1>5. pc' = [pc EXCEPT ![c] = "load"]
  BY DEF StartExecute
<1>6. LoadsKnown'
  BY <1>1, <1>3, <1>4, <1>5 DEF ReviewInv, ApprovalsKnown, LoadsKnown, Known, TypeOK
<1>7. PlansRunnable'
  BY <1>1, <1>3, <1>5 DEF ReviewInv, PlansRunnable, Runnable, TypeOK
<1> QED
  BY <1>2, <1>6, <1>7 DEF ReviewInv

\* The review of a record makes its digest known before anything rests on it.
LEMMA ReadOutboxKnown ==
  ASSUME TypeOK, ReviewInv, NEW c \in Calls, ReadOutbox(c)
  PROVE  ReviewInv'
<1> DEFINE review   == Review(job[c].seen, outboxFile)
           approval == Approval(review)
           j        == [job[c] EXCEPT !.seen = Missing, !.approval = approval]
<1>1. job[c] \in Jobs /\ job[c].seen \in Texts /\ outboxFile \in Ids \cup NoRecords
  BY DEF TypeOK, Jobs
<1>2. /\ review \in Reviews
      /\ review.decision = "ready" => review.digest = Digest(job[c].seen)
  BY <1>1, ReviewFacts
<1>3. /\ approval \in Approvals
      /\ approval.digest = review.digest
      /\ approval.decision = "ready_without_approval" => review.decision = "ready"
  BY <1>2, ApprovalFacts
<1>4. /\ passed' = IF review.decision = "ready" THEN passed \cup {job[c].seen} ELSE passed
      /\ reviews' \in {reviews, reviews \cup {review}}
      /\ UNCHANGED <<approvals, ran>>
  BY DEF ReadOutbox
<1>5. \/ Ends(c, review.decision)
      \/ Ends(c, approval.decision)
      \/ pc' = [pc EXCEPT ![c] = "load"] /\ job' = [job EXCEPT ![c] = j]
  BY DEF ReadOutbox
<1>6. j.approval = approval
  BY <1>1, <1>3, ApprovedJob
<1> HIDE DEF review, approval, j
<1>7. passed \subseteq passed'
  BY <1>4
<1>8. ApprovalsKnown' /\ RunsWereReviewed'
  BY <1>4, <1>7, PassedGrows
<1>9. review.decision = "ready" => \E content \in passed' : review.digest = Digest(content)
  BY <1>2, <1>4
<1>10. ReviewsKnown'
  <2> SUFFICES ASSUME NEW r \in reviews', r.decision = "ready"
               PROVE  \E content \in passed' : r.digest = Digest(content)
    BY DEF ReviewsKnown, Known
  <2>1. CASE r = review
    BY <2>1, <1>9
  <2>2. CASE r \in reviews
    <3>1. \E content \in passed : r.digest = Digest(content)
      BY <2>2 DEF ReviewInv, ReviewsKnown, Known
    <3> QED
      BY <3>1, <1>7
  <2> QED
    BY <1>4, <2>1, <2>2
<1>11. LoadsKnown' /\ PlansRunnable'
  <2>1. CASE Ends(c, review.decision) \/ Ends(c, approval.decision)
    BY <1>7, <2>1, EndsKnown
  <2>2. CASE pc' = [pc EXCEPT ![c] = "load"] /\ job' = [job EXCEPT ![c] = j]
    <3>1. \A d \in Calls :
            /\ pc'[d] = IF d = c THEN "load" ELSE pc[d]
            /\ job'[d] = IF d = c THEN j ELSE job[d]
      BY <2>2 DEF TypeOK
    <3>2. LoadsKnown'
      <4> SUFFICES ASSUME NEW d \in Calls, pc'[d] = "load",
                          job'[d].approval.decision = "ready_without_approval"
                   PROVE  \E content \in passed' : job'[d].approval.digest = Digest(content)
        BY DEF LoadsKnown, Known
      <4>1. CASE d = c
        BY <1>3, <1>6, <1>9, <3>1, <4>1
      <4>2. CASE d # c
        <5>1. \E content \in passed : job[d].approval.digest = Digest(content)
          BY <3>1, <4>2 DEF ReviewInv, LoadsKnown, Known
        <5> QED
          BY <1>7, <3>1, <4>2, <5>1
      <4> QED
        BY <4>1, <4>2
    <3>3. PlansRunnable'
      BY <1>7, <3>1 DEF ReviewInv, PlansRunnable, Runnable
    <3> QED
      BY <3>2, <3>3
  <2> QED
    BY <1>5, <2>1, <2>2
<1> QED
  BY <1>8, <1>10, <1>11 DEF ReviewInv

\* What is loaded has the digest of a record that was found ready, so it is one.
LEMMA LoadKnown ==
  ASSUME TypeOK, ReviewInv, NEW c \in Calls, Load(c)
  PROVE  ReviewInv'
<1>1. UNCHANGED <<reviews, approvals, passed, ran>> /\ pc[c] = "load"
  BY DEF Load
<1>2. ReviewsKnown' /\ ApprovalsKnown' /\ RunsWereReviewed'
  BY <1>1, PassedGrows
<1>3. /\ job[c] \in Jobs /\ taskFile \in Texts /\ job[c].approval \in Approvals
      /\ job[c].kind \in {"operator", "pack"} => job[c].task \in Tasks
  BY <1>1 DEF TypeOK, Fits
<1>4. PICK asked \in AskedBy(c), execute \in BOOLEAN :
        LET decision == ExecutorDecision(taskFile, job[c].approval, asked) IN
        \/ Ends(c, decision)
        \/ /\ decision = "ready"
           /\ pc' = [pc EXCEPT ![c] = "run"]
           /\ job' = [job EXCEPT ![c].asked = asked, ![c].content = taskFile,
                                 ![c].plan = Planned(taskFile, asked)]
  BY DEF Load
<1>5. asked \in Seq(Commands)
  BY <1>3, AskedFacts
<1> DEFINE decision == ExecutorDecision(taskFile, job[c].approval, asked)
           plan     == Planned(taskFile, asked)
<1>6. CASE Ends(c, decision)
  BY <1>1, <1>2, <1>6, EndsKnown DEF ReviewInv
<1>7. CASE /\ decision = "ready"
           /\ pc' = [pc EXCEPT ![c] = "run"]
           /\ job' = [job EXCEPT ![c] = [job[c] EXCEPT !.asked = asked,
                        !.content = taskFile, !.plan = plan]]
  <2>1. /\ job[c].approval.decision = "ready_without_approval"
        /\ Digest(taskFile) = job[c].approval.digest
        /\ taskFile.zone = "green" /\ ~ taskFile.human
        /\ Range(plan) \subseteq Range(taskFile.commands) \cap Allowed
    BY <1>3, <1>5, <1>7, ExecutorFacts DEF MayRun
  <2>2. PICK content \in passed : Digest(taskFile) = Digest(content)
    BY <1>1, <2>1 DEF ReviewInv, LoadsKnown, Known
  <2>3. taskFile = content
    BY <2>2 DEF Digest
  <2> HIDE DEF plan
  <2>4. Runnable(taskFile, Range(plan))
    BY <2>1, <2>3 DEF Runnable
  <2>5. job'[c].content = taskFile /\ job'[c].plan = plan
    <3>1. job'[c] = [job[c] EXCEPT !.asked = asked, !.content = taskFile, !.plan = plan]
      BY <1>7 DEF TypeOK
    <3> QED
      BY ONLY <1>3, <3>1 DEF Jobs
  <2>6. \A d \in Calls \ {c} : pc'[d] = pc[d] /\ job'[d] = job[d]
    BY <1>7 DEF TypeOK
  <2>7. pc'[c] = "run"
    BY <1>7 DEF TypeOK
  <2>8. PlansRunnable'
    <3> SUFFICES ASSUME NEW d \in Calls, pc'[d] = "run"
                 PROVE  Runnable(job[d].content, Range(job[d].plan))'
      BY DEF PlansRunnable
    <3>1. CASE d = c
      BY <1>1, <2>4, <2>5, <3>1 DEF Runnable
    <3>2. CASE d # c
      BY <1>1, <2>6, <3>2 DEF ReviewInv, PlansRunnable, Runnable
    <3> QED
      BY <3>1, <3>2
  <2>9. LoadsKnown'
    BY <1>1, <2>6, <2>7 DEF ReviewInv, LoadsKnown, Known
  <2> QED
    BY <1>2, <2>8, <2>9 DEF ReviewInv
<1> QED
  BY <1>4, <1>6, <1>7

LEMMA RunsKnown ==
  ASSUME TypeOK, ReviewInv, NEW c \in Calls, pc[c] = "run", NEW ok \in BOOLEAN,
         Executes(c, ok), UNCHANGED passed
  PROVE  RunsWereReviewed'
<1> DEFINE run == [call |-> c, command |-> Head(job[c].plan),
                   content |-> job[c].content, ok |-> ok]
<1>1. Head(job[c].plan) \in Range(job[c].plan)
  BY PlanFacts DEF TypeOK, Jobs, Fits
<1>2. Runnable(job[c].content, Range(job[c].plan))
  BY DEF ReviewInv, PlansRunnable
<1>3. ran' = ran \cup {run}
  BY DEF Executes
<1> QED
  BY <1>1, <1>2, <1>3 DEF ReviewInv, RunsWereReviewed, Runnable

LEMMA RunningKnown ==
  ASSUME TypeOK, ReviewInv, NEW c \in Calls, RunCommand(c) \/ RunRaises(c)
  PROVE  ReviewInv'
<1>1. UNCHANGED <<reviews, approvals, passed>> /\ pc[c] = "run"
  BY DEF RunCommand, RunRaises
<1>2. ReviewsKnown' /\ ApprovalsKnown'
  BY <1>1, PassedGrows
<1>3. RunsWereReviewed'
  BY <1>1, RunsKnown DEF RunCommand, RunRaises
<1>4. CASE \E result : Ends(c, result)
  BY <1>1, <1>2, <1>3, <1>4, EndsKnown DEF ReviewInv
<1>5. CASE /\ Len(job[c].plan) # 1 /\ UNCHANGED pc
           /\ \E failed \in BOOLEAN :
                job' = [job EXCEPT ![c].plan = Tail(job[c].plan), ![c].failed = failed]
  <2>1. /\ job[c] \in Jobs /\ job[c].plan \in Seq(Commands)
        /\ Len(job[c].plan) \in 1 .. CommandLimit
    BY <1>1 DEF TypeOK, Jobs, Fits
  <2>2. /\ Tail(job[c].plan) \in Seq(Commands)
        /\ Range(Tail(job[c].plan)) \subseteq Range(job[c].plan)
    BY <1>5, <2>1, PlanFacts
  <2>3. PICK failed \in BOOLEAN :
          job' = [job EXCEPT ![c] = [job[c] EXCEPT !.plan = Tail(job[c].plan), !.failed = failed]]
    BY <1>5
  <2>4. job'[c].content = job[c].content /\ job'[c].plan = Tail(job[c].plan)
    <3>1. job'[c] = [job[c] EXCEPT !.plan = Tail(job[c].plan), !.failed = failed]
      BY <2>3 DEF TypeOK
    <3> QED
      BY ONLY <2>1, <3>1 DEF Jobs
  <2>5. \A d \in Calls \ {c} : job'[d] = job[d]
    BY <2>3 DEF TypeOK
  <2>6. PlansRunnable'
    <3> SUFFICES ASSUME NEW d \in Calls, pc'[d] = "run"
                 PROVE  Runnable(job[d].content, Range(job[d].plan))'
      BY DEF PlansRunnable
    <3>1. Runnable(job[d].content, Range(job[d].plan))
      BY <1>5 DEF ReviewInv, PlansRunnable
    <3>2. CASE d = c
      BY <1>1, <2>2, <2>4, <3>1, <3>2 DEF Runnable
    <3>3. CASE d # c
      BY <1>1, <2>5, <3>1, <3>3 DEF Runnable
    <3> QED
      BY <3>2, <3>3
  <2>7. LoadsKnown'
    BY <1>1, <1>5, <2>5 DEF ReviewInv, LoadsKnown, Known
  <2> QED
    BY <1>2, <1>3, <2>6, <2>7 DEF ReviewInv
<1> QED
  BY <1>4, <1>5 DEF RunCommand, RunRaises

LEMMA ReviewInvNext == TypeOK /\ ReviewInv /\ [Next]_vars => ReviewInv'
<1> SUFFICES ASSUME TypeOK, ReviewInv, [Next]_vars PROVE ReviewInv'
  OBVIOUS
<1>1. CASE Approve
  BY <1>1, ApproveKnown
<1>2. CASE Edit
  BY <1>2, EditKnown
<1>3. ASSUME NEW c \in Calls,
             \/ Submit(c) \/ StartReview(c) \/ StartExecute(c)
             \/ OpenTask(c) \/ FillTask(c) \/ OpenOutbox(c) \/ FillOutbox(c)
             \/ WriteFails(c)
             \/ ReadTask(c) \/ ReadOutbox(c) \/ ReadRaises(c)
             \/ Load(c) \/ RunCommand(c) \/ RunRaises(c)
             \/ Kill(c)
      PROVE  ReviewInv'
  BY <1>3, QuietSteps, StartExecuteKnown, ReadOutboxKnown, LoadKnown, RunningKnown
<1>4. CASE UNCHANGED vars
  BY <1>4 DEF vars, ReviewInv, ReviewsKnown, ApprovalsKnown, LoadsKnown, PlansRunnable,
     RunsWereReviewed, Known, Runnable
<1> QED
  BY <1>1, <1>2, <1>3, <1>4 DEF Next

\* A command only runs for a green record that a review found ready and that
\* declares it, whoever rewrites the files between the stages and however often an
\* old approval is used (lai_gateway/local_task_green_executor.py:230-273), for
\* any number of calls, tasks and commands.
THEOREM RunsWereReviewedTheorem == Spec => []RunsWereReviewed
<1>1. Init => ReviewInv
  BY ReviewInvInit
<1>2. TypeOK /\ ReviewInv /\ [Next]_vars => ReviewInv'
  BY ReviewInvNext
<1>3. ReviewInv => RunsWereReviewed
  BY DEF ReviewInv
<1> QED
  BY <1>1, <1>2, <1>3, TypeCorrect, PTL DEF Spec

-----------------------------------------------------------------------------
(* The steps of one call, seen from the others and from what it is doing *)

CallStep(c) ==
  \/ Submit(c) \/ StartReview(c) \/ StartExecute(c)
  \/ OpenTask(c) \/ FillTask(c) \/ OpenOutbox(c) \/ FillOutbox(c)
  \/ WriteFails(c)
  \/ ReadTask(c) \/ ReadOutbox(c) \/ ReadRaises(c)
  \/ Load(c) \/ RunCommand(c) \/ RunRaises(c)
  \/ Kill(c)

\* A call that has ended takes no step, only one at "run" executes anything, and
\* whoever changes the task file is the only one that may still be alone with it.
LEMMA CallStepFacts ==
  ASSUME TypeOK, NEW c \in Calls, CallStep(c)
  PROVE  /\ pc[c] \notin {"done", "dead"}
         /\ pc[c] # "run" => ran' = ran
         /\ \A d \in Calls \ {c} :
              /\ pc'[d] = pc[d] /\ job'[d] = job[d]
              /\ alone'[d] => alone[d] /\ taskFile' = taskFile
         /\ pc[c] # "openTask" => alone'[c] = alone[c]
         /\ pc[c] \notin {"openTask", "fillTask"} => taskFile' = taskFile
<1> USE DEF TypeOK, Writing, Reading
<1>1. CASE Submit(c) \/ StartReview(c) \/ StartExecute(c)
  BY <1>1 DEF Submit, StartReview, StartExecute, files
<1>2. CASE OpenTask(c) \/ FillTask(c) \/ OpenOutbox(c) \/ FillOutbox(c)
  BY <1>2 DEF OpenTask, FillTask, OpenOutbox, FillOutbox, Wrote, Ends
<1>3. CASE WriteFails(c) \/ Kill(c)
  BY <1>3 DEF WriteFails, Kill, Wrote, Ends
<1>4. CASE ReadTask(c) \/ ReadOutbox(c) \/ ReadRaises(c) \/ Load(c)
  BY <1>4 DEF ReadTask, ReadOutbox, ReadRaises, Load, Ends, files
<1>5. CASE RunCommand(c) \/ RunRaises(c)
  BY <1>5 DEF RunCommand, RunRaises, Ends, files
<1> QED
  BY <1>1, <1>2, <1>3, <1>4, <1>5 DEF CallStep

\* What ends a call changes none of what it was asked to do.
LEMMA EndsKeeps ==
  ASSUME TypeOK, NEW c \in Calls, NEW result, Ends(c, result)
  PROVE  /\ pc'[c] = "done" /\ job'[c].result = result
         /\ job'[c].kind = job[c].kind /\ job'[c].task = job[c].task
         /\ job'[c].content = job[c].content /\ job'[c].asked = job[c].asked
         /\ job'[c].failed = job[c].failed
<1>1. job[c] \in Jobs /\ job \in [Calls -> Jobs] /\ pc \in [Calls -> Places]
  BY DEF TypeOK
<1>2. job'[c] = [job[c] EXCEPT !.result = result, !.seen = Missing, !.approval = None,
                               !.plan = <<>>]
  BY <1>1 DEF Ends
<1>3. pc'[c] = "done"
  BY <1>1 DEF Ends
<1> QED
  BY <1>1, <1>2, <1>3 DEF Jobs

\* The steps before a command can run.
LEMMA EarlySteps ==
  ASSUME TypeOK, NEW c \in Calls, CallStep(c), pc[c] # "run"
  PROVE  \/ /\ pc[c] = "idle"
            /\ job'[c].failed = FALSE
            /\ \/ pc'[c] = "openTask"
               \/ pc'[c] = "readTask" /\ job'[c].kind = "review"
               \/ pc'[c] = "load" /\ job'[c].kind = "execute"
               \/ pc'[c] = "done" /\ job'[c].result = "blocked"
         \/ /\ pc[c] # "idle"
            /\ pc'[c] \in Places \ {"idle", "run", "done"}
            /\ job'[c].failed = job[c].failed
         \/ \E result \in Results \ {"none", "executed", "failed"} : Ends(c, result)
         \/ pc[c] = "load" /\ pc'[c] = "run"
<1>0. pc[c] \in Places /\ job[c] \in Jobs
  BY DEF TypeOK
<1>1. CASE Submit(c) \/ StartReview(c) \/ StartExecute(c)
  <2>1. pc[c] = "idle"
    BY <1>1 DEF Submit, StartReview, StartExecute
  <2>2. ASSUME Submit(c)
        PROVE  /\ job'[c].failed = FALSE
               /\ pc'[c] = "openTask" \/ (pc'[c] = "done" /\ job'[c].result = "blocked")
    <3>1. PICK kind \in {"operator", "pack"}, task \in Tasks :
            LET red == task.zone = "red" IN
            /\ pc' = [pc EXCEPT ![c] = IF red THEN "done" ELSE "openTask"]
            /\ job' = [job EXCEPT ![c] = [NoJob EXCEPT !.kind = kind, !.task = task,
                         !.result = IF red THEN "blocked" ELSE "none"]]
      BY <2>2 DEF Submit
    <3> QED BY <3>1 DEF NoJob, TypeOK
  <2>3. StartReview(c) => job'[c].failed = FALSE /\ job'[c].kind = "review"
                              /\ pc'[c] = "readTask"
    BY DEF StartReview, NoJob, TypeOK
  <2>4. ASSUME StartExecute(c)
        PROVE  job'[c].failed = FALSE /\ job'[c].kind = "execute" /\ pc'[c] = "load"
    <3>1. PICK approval \in approvals :
            job' = [job EXCEPT ![c] = [NoJob EXCEPT !.kind = "execute", !.approval = approval]]
      BY <2>4 DEF StartExecute
    <3> QED BY <2>4, <3>1 DEF StartExecute, NoJob, TypeOK
  <2> QED BY <1>1, <2>1, <2>2, <2>3, <2>4
<1>2. CASE OpenTask(c) \/ FillTask(c) \/ OpenOutbox(c) \/ Kill(c)
           \/ (FillOutbox(c) /\ job[c].kind # "pack")
  BY <1>0, <1>2 DEF OpenTask, FillTask, OpenOutbox, FillOutbox, Kill, Places, Writing, Reading, TypeOK
<1>3. CASE FillOutbox(c) /\ job[c].kind = "pack"
  BY <1>3 DEF FillOutbox, Results
<1>4. CASE WriteFails(c)
  BY <1>4 DEF WriteFails, Results
<1>5. CASE ReadTask(c)
  <2>1. job'[c] = [job[c] EXCEPT !.seen = taskFile] /\ pc'[c] = "readOutbox"
    BY <1>5 DEF ReadTask, TypeOK
  <2> QED BY <1>0, <1>5, <2>1 DEF ReadTask, Places, Reading, Jobs
<1>6. CASE ReadOutbox(c)
  <2> DEFINE review   == Review(job[c].seen, outboxFile)
             approval == Approval(review)
  <2>1. /\ review \in Reviews
        /\ review.decision \in {"invalid", "blocked", "ready"}
        /\ approval.decision \in
             {"invalid", "blocked", "needs_approval", "ready_without_approval"}
    BY <1>0, ReviewFacts, ApprovalFacts DEF TypeOK, Jobs
  <2>2. \/ Ends(c, review.decision)
        \/ Ends(c, approval.decision) /\ approval.decision # "ready_without_approval"
        \/ /\ pc' = [pc EXCEPT ![c] = "load"]
           /\ job' = [job EXCEPT ![c].seen = Missing, ![c].approval = approval]
    BY <1>6 DEF ReadOutbox
  <2> HIDE DEF review, approval
  <2>3. CASE /\ pc' = [pc EXCEPT ![c] = "load"]
             /\ job' = [job EXCEPT ![c].seen = Missing, ![c].approval = approval]
    <3>1. job'[c] = [job[c] EXCEPT !.seen = Missing, !.approval = approval] /\ pc'[c] = "load"
      BY <2>3 DEF TypeOK
    <3> QED BY <1>0, <1>6, <3>1 DEF ReadOutbox, Places, Reading, Jobs
  <2> QED BY <2>1, <2>2, <2>3 DEF Results
<1>7. CASE ReadRaises(c)
  BY <1>7 DEF ReadRaises, Results
<1>8. CASE Load(c)
  <2>1. /\ job[c].approval \in Approvals
        /\ job[c].kind \in {"operator", "pack"} => job[c].task \in Tasks
    BY <1>8 DEF Load, TypeOK, Fits
  <2>2. PICK asked \in AskedBy(c), execute \in BOOLEAN :
          \/ Ends(c, ExecutorDecision(taskFile, job[c].approval, asked))
          \/ pc' = [pc EXCEPT ![c] = "run"]
    BY <1>8 DEF Load
  <2>3. asked \in Seq(Commands)
    BY <2>1, AskedFacts
  <2>4. ExecutorDecision(taskFile, job[c].approval, asked) \in {"invalid", "blocked", "ready"}
    BY <2>1, <2>3, ExecutorFacts DEF TypeOK
  <2> QED BY <1>8, <2>2, <2>4 DEF Load, Results, TypeOK
<1> QED
  BY <1>1, <1>2, <1>3, <1>4, <1>5, <1>6, <1>7, <1>8 DEF CallStep, RunCommand, RunRaises

\* The step from the checks to the commands: what is run is what was asked for,
\* of the record as it is read then.
LEMMA LoadRuns ==
  ASSUME TypeOK, NEW c \in Calls, CallStep(c), pc[c] = "load", pc'[c] = "run"
  PROVE  /\ job'[c].content = taskFile
         /\ job'[c].plan = Planned(job'[c].content, job'[c].asked)
         /\ job'[c].kind = job[c].kind /\ job'[c].task = job[c].task
         /\ job'[c].failed = job[c].failed
<1>1. Load(c)
  BY DEF CallStep, Submit, StartReview, StartExecute, OpenTask, FillTask, OpenOutbox, FillOutbox,
         WriteFails, ReadTask, ReadOutbox, ReadRaises, RunCommand, RunRaises, Kill,
         Writing, Ends, TypeOK
<1>2. job[c] \in Jobs
  BY DEF TypeOK
<1>3. PICK asked \in AskedBy(c) :
        job' = [job EXCEPT ![c] = [job[c] EXCEPT !.asked = asked, !.content = taskFile,
                                                 !.plan = Planned(taskFile, asked)]]
  BY <1>1 DEF Load, Ends, TypeOK
<1>4. job'[c] = [job[c] EXCEPT !.asked = asked, !.content = taskFile,
                               !.plan = Planned(taskFile, asked)]
  BY <1>3 DEF TypeOK
<1> QED
  BY <1>2, <1>4 DEF Jobs

\* A command that has run is one more of this call, and the rest of the plan is
\* what is left to run.
LEMMA RunSteps ==
  ASSUME TypeOK, NEW c \in Calls, CallStep(c), pc[c] = "run"
  PROVE  /\ job'[c].kind = job[c].kind /\ job'[c].task = job[c].task
         /\ job'[c].content = job[c].content /\ job'[c].asked = job[c].asked
         /\ \/ pc'[c] = "dead" /\ ran' = ran
            \/ \E ok \in BOOLEAN :
                 /\ ran' = ran \cup {[call |-> c, command |-> Head(job[c].plan),
                                      content |-> job[c].content, ok |-> ok]}
                 /\ \/ pc'[c] = "done" /\ job'[c].result = "error"
                    \/ /\ pc'[c] = "done" /\ Len(job[c].plan) = 1
                       /\ job'[c].result = IF job[c].failed \/ ~ ok THEN "failed" ELSE "executed"
                    \/ /\ pc'[c] = "run" /\ Len(job[c].plan) # 1
                       /\ job'[c].plan = Tail(job[c].plan)
                       /\ job'[c].failed = (job[c].failed \/ ~ ok)
<1>0. job[c] \in Jobs
  BY DEF TypeOK
<1>1. Kill(c) \/ RunRaises(c) \/ RunCommand(c)
  BY DEF CallStep, Submit, StartReview, StartExecute, OpenTask, FillTask, OpenOutbox, FillOutbox,
         WriteFails, ReadTask, ReadOutbox, ReadRaises, Load, Writing, Reading
<1>2. CASE Kill(c)
  BY <1>2 DEF Kill, TypeOK
<1>3. CASE RunRaises(c)
  BY <1>3, EndsKeeps DEF RunRaises, Executes
<1>4. CASE RunCommand(c)
  <2>1. PICK ok \in BOOLEAN :
          LET failed == job[c].failed \/ ~ ok IN
          /\ Executes(c, ok)
          /\ IF Len(job[c].plan) = 1
             THEN Ends(c, IF failed THEN "failed" ELSE "executed")
             ELSE /\ job' = [job EXCEPT ![c].plan = Tail(job[c].plan), ![c].failed = failed]
                  /\ UNCHANGED pc
    BY <1>4 DEF RunCommand
  <2>2. CASE Len(job[c].plan) = 1
    BY <2>1, <2>2, EndsKeeps DEF Executes
  <2>3. CASE Len(job[c].plan) # 1
    <3>1. job'[c] = [job[c] EXCEPT !.plan = Tail(job[c].plan),
                                   !.failed = (job[c].failed \/ ~ ok)]
      BY <2>1, <2>3 DEF TypeOK
    <3>2. /\ job'[c].kind = job[c].kind /\ job'[c].task = job[c].task
          /\ job'[c].content = job[c].content /\ job'[c].asked = job[c].asked
          /\ job'[c].plan = Tail(job[c].plan)
          /\ job'[c].failed = (job[c].failed \/ ~ ok)
      BY <1>0, <3>1 DEF Jobs
    <3> QED BY <2>1, <2>3, <3>2 DEF Executes
  <2> QED BY <2>2, <2>3
<1> QED
  BY <1>1, <1>2, <1>3, <1>4

-----------------------------------------------------------------------------
(* Results match runs *)

Mine(c) == {run \in ran : run.call = c}

CommandsOf(some) == {run.command : run \in some}

\* Nothing has run before the commands; while they run, what has run and what is
\* left of the plan are the commands asked for, and "failed" remembers a failure.
Outcome(place, j, mine) ==
  /\ place \notin {"run", "done", "dead"} => mine = {} /\ ~ j.failed
  /\ place = "run" =>
       /\ CommandsOf(mine) \cup Range(j.plan) = Range(Planned(j.content, j.asked))
       /\ j.failed <=> \E run \in mine : ~ run.ok
  /\ place = "done" =>
       /\ j.result \in {"executed", "failed"} =>
            /\ CommandsOf(mine) = Range(Planned(j.content, j.asked))
            /\ j.result = "executed" <=> \A run \in mine : run.ok
       /\ j.result \notin {"executed", "failed", "error"} => mine = {}

OutcomeInv == \A c \in Calls : Outcome(pc[c], job[c], Mine(c))

\* What a plan of one command holds, and what its tail leaves out.
LEMMA PlanRange ==
  ASSUME NEW plan \in Seq(Commands), Len(plan) \in 1 .. CommandLimit
  PROVE  /\ Len(plan) = 1 => Range(plan) = {Head(plan)}
         /\ Len(plan) # 1 => Range(plan) = {Head(plan)} \cup Range(Tail(plan))
<1>1. Len(plan) \in Nat \ {0} /\ CommandLimit \in Nat
  BY LocalTaskAssumption
<1>2. Head(plan) = plan[1] /\ 1 \in DOMAIN plan /\ DOMAIN plan = 1 .. Len(plan)
  BY <1>1
<1>3. Len(plan) = 1 => Range(plan) = {Head(plan)}
  BY <1>2 DEF Range
<1>4. ASSUME Len(plan) # 1
      PROVE  Range(plan) = {Head(plan)} \cup Range(Tail(plan))
  <2>1. /\ DOMAIN Tail(plan) = 1 .. (Len(plan) - 1)
        /\ \A i \in DOMAIN Tail(plan) : Tail(plan)[i] = plan[i + 1]
    BY <1>1, <1>4
  <2>2. \A i \in DOMAIN plan : i = 1 \/ (i - 1 \in DOMAIN Tail(plan) /\ Tail(plan)[i - 1] = plan[i])
    BY <1>1, <1>2, <2>1
  <2>3. \A i \in DOMAIN Tail(plan) : i + 1 \in DOMAIN plan
    BY <1>1, <1>2, <2>1
  <2>4. ASSUME NEW x \in Range(plan) PROVE x = Head(plan) \/ x \in Range(Tail(plan))
    <3>1. PICK i \in DOMAIN plan : x = plan[i]
      BY DEF Range
    <3> QED BY <1>2, <2>2, <3>1 DEF Range
  <2>5. ASSUME NEW x \in Range(Tail(plan)) PROVE x \in Range(plan)
    <3>1. PICK i \in DOMAIN Tail(plan) : x = Tail(plan)[i]
      BY DEF Range
    <3> QED BY <2>1, <2>3, <3>1 DEF Range
  <2>6. Head(plan) \in Range(plan)
    BY <1>2 DEF Range
  <2> QED BY <2>4, <2>5, <2>6
<1> QED
  BY <1>3, <1>4

LEMMA OutcomeInit == Init => OutcomeInv
BY DEF Init, OutcomeInv, Outcome, Mine, NoJob

LEMMA OutcomeNext == TypeOK /\ OutcomeInv /\ [Next]_vars => OutcomeInv'
<1> SUFFICES ASSUME TypeOK, OutcomeInv, [Next]_vars PROVE OutcomeInv'
  OBVIOUS
<1>1. CASE Approve \/ Edit \/ UNCHANGED vars
  BY <1>1 DEF Approve, Edit, vars, OutcomeInv, Mine
<1>2. ASSUME NEW c \in Calls, CallStep(c)
      PROVE  OutcomeInv'
  <2>1. /\ pc[c] \notin {"done", "dead"}
        /\ pc[c] # "run" => ran' = ran
        /\ \A d \in Calls \ {c} : pc'[d] = pc[d] /\ job'[d] = job[d]
    BY <1>2, CallStepFacts
  <2>2. Outcome(pc[c], job[c], Mine(c))
    BY DEF OutcomeInv
  \* It is enough to look at the call that moved.
  <2>3. ASSUME \A d \in Calls \ {c} : Mine(d)' = Mine(d),
               Outcome(pc'[c], job'[c], Mine(c)')
        PROVE  OutcomeInv'
    BY <2>1, <2>3 DEF OutcomeInv
  <2>4. CASE pc[c] # "run"
    <3>1. \A d \in Calls : Mine(d)' = Mine(d)
      BY <2>1, <2>4 DEF Mine
    <3>2. Mine(c) = {} /\ ~ job[c].failed
      BY <2>1, <2>2, <2>4 DEF Outcome
    <3>3. CASE pc[c] = "load" /\ pc'[c] = "run"
      <4>1. Outcome("run", job'[c], {})
        BY <1>2, <3>2, <3>3, LoadRuns DEF Outcome, CommandsOf
      <4> QED BY <2>3, <3>1, <3>2, <3>3, <4>1
    <3>4. CASE \E result \in Results \ {"none", "executed", "failed"} : Ends(c, result)
      <4>1. /\ pc'[c] = "done" /\ job'[c].result \notin {"executed", "failed"}
        BY <3>4, EndsKeeps
      <4>2. Outcome(pc'[c], job'[c], {})
        BY <4>1 DEF Outcome
      <4> QED BY <2>3, <3>1, <3>2, <4>2
    <3>5. CASE \/ pc[c] = "idle" /\ job'[c].failed = FALSE
                  /\ \/ pc'[c] = "openTask"
                     \/ pc'[c] = "readTask" /\ job'[c].kind = "review"
                     \/ pc'[c] = "load" /\ job'[c].kind = "execute"
                     \/ pc'[c] = "done" /\ job'[c].result = "blocked"
               \/ /\ pc'[c] \in Places \ {"idle", "run", "done"}
                  /\ job'[c].failed = job[c].failed
      <4>1. Outcome(pc'[c], job'[c], {})
        BY <3>2, <3>5 DEF Outcome
      <4> QED BY <2>3, <3>1, <3>2, <4>1
    <3> QED BY <1>2, <2>4, <3>3, <3>4, <3>5, EarlySteps
  <2>5. CASE pc[c] = "run"
    <3>1. /\ job[c] \in Jobs /\ job[c].plan \in Seq(Commands)
          /\ Len(job[c].plan) \in 1 .. CommandLimit /\ job[c].failed \in BOOLEAN
      BY <2>5 DEF TypeOK, Fits, Jobs
    <3>2. /\ CommandsOf(Mine(c)) \cup Range(job[c].plan)
               = Range(Planned(job[c].content, job[c].asked))
          /\ job[c].failed <=> \E run \in Mine(c) : ~ run.ok
      BY <2>2, <2>5 DEF Outcome
    <3>3. /\ job'[c].content = job[c].content /\ job'[c].asked = job[c].asked
      BY <1>2, <2>5, RunSteps
    <3>4. CASE pc'[c] = "dead" /\ ran' = ran
      BY <2>3, <3>4 DEF Mine, Outcome
    <3>5. ASSUME NEW ok \in BOOLEAN,
                 ran' = ran \cup {[call |-> c, command |-> Head(job[c].plan),
                                   content |-> job[c].content, ok |-> ok]},
                 \/ pc'[c] = "done" /\ job'[c].result = "error"
                 \/ /\ pc'[c] = "done" /\ Len(job[c].plan) = 1
                    /\ job'[c].result = IF job[c].failed \/ ~ ok THEN "failed" ELSE "executed"
                 \/ /\ pc'[c] = "run" /\ Len(job[c].plan) # 1
                    /\ job'[c].plan = Tail(job[c].plan)
                    /\ job'[c].failed = (job[c].failed \/ ~ ok)
          PROVE  OutcomeInv'
      <4> DEFINE run == [call |-> c, command |-> Head(job[c].plan),
                         content |-> job[c].content, ok |-> ok]
      <4>1. /\ Mine(c)' = Mine(c) \cup {run}
            /\ \A d \in Calls \ {c} : Mine(d)' = Mine(d)
        BY <3>5 DEF Mine
      <4>0. run.command = Head(job[c].plan) /\ run.ok = ok
        OBVIOUS
      <4> HIDE DEF run
      <4>2. CommandsOf(Mine(c)') = CommandsOf(Mine(c)) \cup {Head(job[c].plan)}
        BY <4>0, <4>1 DEF CommandsOf
      <4>3. (\E r \in Mine(c)' : ~ r.ok) <=> job[c].failed \/ ~ ok
        BY <3>2, <4>0, <4>1
      <4>4. CASE pc'[c] = "done" /\ job'[c].result = "error"
        BY <2>3, <4>1, <4>4 DEF Outcome
      <4>5. CASE /\ pc'[c] = "done" /\ Len(job[c].plan) = 1
                 /\ job'[c].result = IF job[c].failed \/ ~ ok THEN "failed" ELSE "executed"
        <5>1. CommandsOf(Mine(c)') = Range(Planned(job'[c].content, job'[c].asked))
          BY <3>1, <3>2, <3>3, <4>2, <4>5, PlanRange
        <5>2. Outcome(pc'[c], job'[c], Mine(c)')
          BY <4>3, <4>5, <5>1 DEF Outcome
        <5> QED BY <2>3, <4>1, <5>2
      <4>6. CASE /\ pc'[c] = "run" /\ Len(job[c].plan) # 1
                 /\ job'[c].plan = Tail(job[c].plan)
                 /\ job'[c].failed = (job[c].failed \/ ~ ok)
        <5>1. CommandsOf(Mine(c)') \cup Range(job'[c].plan)
                = Range(Planned(job'[c].content, job'[c].asked))
          BY <3>1, <3>2, <3>3, <4>2, <4>6, PlanRange
        <5>2. Outcome(pc'[c], job'[c], Mine(c)')
          BY <4>3, <4>6, <5>1 DEF Outcome
        <5> QED BY <2>3, <4>1, <5>2
      <4> QED BY <3>5, <4>4, <4>5, <4>6
    <3> QED BY <1>2, <2>5, <3>4, <3>5, RunSteps
  <2> QED BY <2>4, <2>5
<1> QED
  BY <1>1, <1>2 DEF Next, CallStep

\* What the caller is told is what happened: "executed" and "failed" only after
\* every command asked for has run, and no other answer of a gate after any has
\* (lai_gateway/local_task_green_executor.py:319-356), for any number of commands.
THEOREM ResultsMatchRunsTheorem == Spec => []ResultsMatchRuns
<1>1. OutcomeInv => ResultsMatchRuns
  BY DEF OutcomeInv, Outcome, ResultsMatchRuns, Mine, CommandsOf
<1> QED
  BY <1>1, OutcomeInit, OutcomeNext, TypeCorrect, PTL DEF Spec

-----------------------------------------------------------------------------
(* Undisturbed, a pipeline runs its own task *)

\* As long as nobody else has written the task file, it holds what the call has
\* written, up to the moment it is read for the last time.
Own(place, j, mine, undisturbed, file) ==
  j.kind = "operator" /\ undisturbed =>
    /\ place = "fillTask" => file = Empty
    /\ place \in {"openOutbox", "fillOutbox", "readTask", "readOutbox", "load"} =>
         file = Packed(j.task)
    /\ place = "run" => j.content = Packed(j.task)
    /\ \A run \in mine : run.content = Packed(j.task)

OwnInv == \A c \in Calls : Own(pc[c], job[c], Mine(c), alone[c], taskFile)

LEMMA OwnInit == Init => OwnInv
BY DEF Init, OwnInv, Own, NoJob

\* What the steps before the last reading keep of a call that goes on: its task
\* and, as far as it is alone, the file it has written.
LEMMA OwnFile ==
  ASSUME TypeOK, NEW c \in Calls, CallStep(c), pc[c] \notin {"idle", "run"},
         pc'[c] \in Places \ {"idle", "run", "done", "dead"},
         Own(pc[c], job[c], {}, alone[c], taskFile)
  PROVE  Own(pc'[c], job'[c], {}, alone'[c], taskFile')
<1>0. job[c] \in Jobs /\ job \in [Calls -> Jobs] /\ pc \in [Calls -> Places]
  BY DEF TypeOK
<1>1. CASE OpenTask(c)
  BY <1>0, <1>1 DEF OpenTask, Own
<1>2. CASE FillTask(c)
  <2>1. /\ pc[c] = "fillTask" /\ pc'[c] = "openOutbox" /\ job' = job
        /\ taskFile' \in Overlay(taskFile, Packed(job[c].task))
        /\ alone'[c] = alone[c]
    BY <1>0, <1>2 DEF FillTask, Wrote, TypeOK
  <2> QED BY <2>1 DEF Own, Overlay
<1>3. CASE OpenOutbox(c) \/ FillOutbox(c)
  BY <1>0, <1>3 DEF OpenOutbox, FillOutbox, Own, Ends
<1>4. CASE ReadTask(c)
  <2>1. job'[c] = [job[c] EXCEPT !.seen = taskFile]
    BY <1>0, <1>4 DEF ReadTask
  <2> QED BY <1>0, <1>4, <2>1 DEF ReadTask, files, Own, Jobs
<1>5. CASE ReadOutbox(c)
  <2>1. \E approval : job'[c] = [job[c] EXCEPT !.seen = Missing, !.approval = approval]
    BY <1>0, <1>5 DEF ReadOutbox, Ends
  <2>2. job'[c].kind = job[c].kind /\ job'[c].task = job[c].task
    BY <1>0, <2>1 DEF Jobs
  <2>3. pc[c] = "readOutbox" /\ pc'[c] = "load" /\ UNCHANGED <<taskFile, alone>>
    BY <1>0, <1>5 DEF ReadOutbox, files, Ends
  <2> QED BY <2>2, <2>3 DEF Own
<1>6. CASE WriteFails(c) \/ ReadRaises(c) \/ Load(c) \/ Kill(c)
  BY <1>0, <1>6 DEF WriteFails, ReadRaises, Load, Kill, Ends
<1> QED
  BY <1>1, <1>2, <1>3, <1>4, <1>5, <1>6
     DEF CallStep, Submit, StartReview, StartExecute, RunCommand, RunRaises

LEMMA OwnNext == TypeOK /\ OutcomeInv /\ OwnInv /\ [Next]_vars => OwnInv'
<1> SUFFICES ASSUME TypeOK, OutcomeInv, OwnInv, [Next]_vars PROVE OwnInv'
  OBVIOUS
<1>1. CASE Approve \/ UNCHANGED vars
  BY <1>1 DEF Approve, vars, files, OwnInv, Mine
<1>2. CASE Edit
  BY <1>2 DEF Edit, OwnInv, Own
<1>3. ASSUME NEW c \in Calls, CallStep(c)
      PROVE  OwnInv'
  <2>1. /\ pc[c] \notin {"done", "dead"}
        /\ pc[c] # "run" => ran' = ran
        /\ \A d \in Calls \ {c} :
             /\ pc'[d] = pc[d] /\ job'[d] = job[d]
             /\ alone'[d] => alone[d] /\ taskFile' = taskFile
        /\ pc[c] # "openTask" => alone'[c] = alone[c]
        /\ pc[c] \notin {"openTask", "fillTask"} => taskFile' = taskFile
    BY <1>3, CallStepFacts
  <2>2. /\ Own(pc[c], job[c], Mine(c), alone[c], taskFile)
        /\ pc[c] # "run" => Mine(c) = {}
    BY <2>1 DEF OwnInv, OutcomeInv, Outcome
  <2>3. ASSUME \A d \in Calls \ {c} : Mine(d)' = Mine(d),
               Own(pc'[c], job'[c], Mine(c)', alone'[c], taskFile')
        PROVE  OwnInv'
    BY <2>1, <2>3 DEF OwnInv, Own
  <2>4. CASE pc[c] # "run"
    <3>1. \A d \in Calls : Mine(d)' = Mine(d)
      BY <2>1, <2>4 DEF Mine
    <3>2. Own(pc'[c], job'[c], {}, alone'[c], taskFile')
      <4>1. CASE pc[c] = "idle"
        <5>1. pc'[c] \in {"openTask", "done"} \/ job'[c].kind \in {"review", "execute"}
          BY <1>3, <4>1, EarlySteps, EndsKeeps
        <5> QED BY <5>1 DEF Own
      <4>2. CASE pc[c] = "load" /\ pc'[c] = "run"
        BY <1>3, <2>1, <2>2, <4>2, LoadRuns DEF Own
      <4>3. CASE pc'[c] \in {"done", "dead"}
        BY <4>3 DEF Own
      <4>4. CASE pc[c] # "idle" /\ pc'[c] \in Places \ {"idle", "run", "done", "dead"}
        BY <1>3, <2>2, <2>4, <4>4, OwnFile
      <4> QED BY <1>3, <2>4, <4>1, <4>2, <4>3, <4>4, EarlySteps, EndsKeeps
    <3> QED BY <2>2, <2>3, <2>4, <3>1, <3>2
  <2>5. CASE pc[c] = "run"
    <3>1. /\ job'[c].kind = job[c].kind /\ job'[c].task = job[c].task
          /\ job'[c].content = job[c].content
      BY <1>3, <2>5, RunSteps
    <3>2. pc'[c] \in {"run", "done", "dead"}
      BY <1>3, <2>5, RunSteps
    <3>3. /\ \A d \in Calls \ {c} : Mine(d)' = Mine(d)
          /\ \A run \in Mine(c)' : run \in Mine(c) \/ run.content = job[c].content
      <4>1. CASE ran' = ran
        BY <4>1 DEF Mine
      <4>2. ASSUME NEW ok \in BOOLEAN,
                   ran' = ran \cup {[call |-> c, command |-> Head(job[c].plan),
                                     content |-> job[c].content, ok |-> ok]}
            PROVE  /\ \A d \in Calls \ {c} : Mine(d)' = Mine(d)
                   /\ \A run \in Mine(c)' : run \in Mine(c) \/ run.content = job[c].content
        BY <4>2 DEF Mine
      <4> QED BY <1>3, <2>5, <4>1, <4>2, RunSteps
    <3>4. Own(pc'[c], job'[c], Mine(c)', alone'[c], taskFile')
      BY <2>1, <2>2, <2>5, <3>1, <3>2, <3>3 DEF Own
    <3> QED BY <2>3, <3>3, <3>4
  <2> QED BY <2>4, <2>5
<1> QED
  BY <1>1, <1>2, <1>3 DEF Next, CallStep

\* A pipeline during which nobody else writes the task file runs the task it was
\* called for, although everything it reviews and runs is read back from the file
\* (lai_gateway/local_operator_runtime.py:186-273), whatever fails, is killed or
\* is edited by hand elsewhere.
THEOREM UndisturbedTheorem == Spec => []UndisturbedRunsItsTask
<1>1. TypeOK /\ OwnInv => UndisturbedRunsItsTask
  BY DEF TypeOK, Runs, OwnInv, Own, Mine, UndisturbedRunsItsTask
<1> QED
  BY <1>1, OutcomeInit, OutcomeNext, OwnInit, OwnNext, TypeCorrect, PTL DEF Spec
=============================================================================
