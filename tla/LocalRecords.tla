----------------------------- MODULE LocalRecords -----------------------------
(***************************************************************************)
(* The append-only files of a workspace and the calls that use them:       *)
(* memory_context.py (one file per project), approval_inbox.py (with       *)
(* action_proposal.py, from which an entry is made), the audit log of      *)
(* persisted_audit_log.py, the log of model runs (model.py), and the       *)
(* readers objective_state.py, context_pack.py and dev_loop_fixture.py.    *)
(*                                                                         *)
(* The calls come from handler threads and from commands, in processes of  *)
(* their own, and take no lock.  A file is the sequence of the writes that *)
(* reached it, each of one record: the whole line, or, when the disk ran   *)
(* full, a part of it ("torn"), or all of it but the line feed             *)
(* ("unended").  What follows a part is on the same line.  Texts are short *)
(* and hold no secret, save for the notes and documents said to be bad.    *)
(*                                                                         *)
(* The digests of proposals and entries join free texts with "|".  A text  *)
(* is the sequence of its words, the parts between the "|" in it, so that  *)
(* texts joined with "|" are the concatenation of their words: "a|b" and   *)
(* "c" give what "a" and "b|c" give.                                       *)
(***************************************************************************)
EXTENDS Integers, Sequences, FiniteSets, SequencesExt

CONSTANTS
  Threads,
  Projects,       \* labels memory takes as a project id
  OddProject,     \* a project id that memory refuses
  Label(_),       \* _safe_label: a name in lower case, its blanks turned to hyphens
  Words,          \* the words of texts
  LineBreaks,     \* those with a character at which str.splitlines splits (U+2028)
  Objectives,     \* what the objective state file may hold
  NoState,        \* the file is missing
  BadState,       \* it is too large, not JSON, of another schema, or holds a secret
  Explicits,      \* the fields a caller gives for a proposal
  MaxEntries,     \* _MAX_ENTRIES
  MaxWrites,      \* _MAX_INBOX_FILE_BYTES, in records
  Menus,          \* bound: the operations that meet in one behaviour, how many calls are made,
                  \* which proposals, and whether the objective state file is there and edited
  MaxEdits,       \* bound: edits of the objective state file
  MaxFaults,      \* bound: writes that fail and calls that are killed
  MaxSeconds      \* bound: the clock, in seconds

\* The files of the projects and the other three lie in directories of their own: the
\* names these have here are none of the projects'.
ASSUME RecordsAssumption ==
  /\ OddProject \notin Projects
  /\ Projects \cap {"inbox", "audit", "runs"} = {}
  /\ "default" \in Projects
  /\ {"", "low"} \subseteq Words
  /\ {NoState, BadState} \subseteq Objectives
  /\ {MaxEntries, MaxWrites, MaxEdits, MaxFaults, MaxSeconds} \subseteq Nat

Texts == Seq(Words) \ {<< >>}
NoText == <<"">>

ASSUME TextsAssumption ==
  /\ Explicits \subseteq [action : Texts, target : Texts, data : Texts, effect : Texts]
  /\ \A state \in Objectives \ {NoState, BadState} :
       state.tasks \in Seq([id : Texts, status : STRING, title : Texts, target : Texts])

VARIABLES
  files,      \* file -> the writes that reached it
  objective,  \* what the objective state file holds
  second,     \* the clock
  job,        \* thread -> its call
  told,       \* history: the ids answered as written, forgotten and queued
  used        \* history: ids made, calls, edits, faults; the menu of the behaviour

vars == <<files, objective, second, job, told, used>>

Inbox == "inbox"
AuditLog == "audit"
RunLog == "runs"
Files == Projects \cup {Inbox, AuditLog, RunLog}

NoId == <<>>
Idle == [op |-> "none", stage |-> "done", project |-> "", id |-> NoId, bad |-> FALSE,
         explicit |-> "", since |-> [written |-> {}, forgotten |-> {}, queued |-> {}],
         draft |-> NoId, objective |-> NoState, status |-> "none", entries |-> << >>]

Init ==
  /\ files = [f \in Files |-> << >>]
  /\ second = 0
  /\ job = [t \in Threads |-> Idle]
  /\ told = [written |-> {}, forgotten |-> {}, queued |-> {}]
  /\ \E menu \in Menus :
       /\ objective \in IF menu.edits THEN Objectives ELSE {NoState}
       /\ used = [menu |-> menu, ids |-> 0, calls |-> 0, edits |-> 0, faults |-> 0]

-----------------------------------------------------------------------------
(* Reading a file *)

\* Write i is a line of its own that parses.
Readable(file, i) ==
  /\ i > 1 => file[i - 1].cut = "whole"
  /\ file[i].cut = "whole" \/ (file[i].cut = "unended" /\ i = Len(file))

\* The elements of a sequence at some places, in order.
Kept(s, places) ==
  LET upto[i \in 0..Len(s)] ==
        IF i = 0 THEN << >>
        ELSE IF i \in places THEN Append(upto[i - 1], s[i]) ELSE upto[i - 1]
  IN  upto[Len(s)]

RecordsAt(file, places) == Kept([i \in DOMAIN file |-> file[i].record], places)

\* Faulty variant: reading stops at the first line that does not parse.
ReadEventsUntilBad(file) ==
  RecordsAt(file, {i \in DOMAIN file : \A j \in 1..i : Readable(file, j)})

\* Memory skips the lines that do not parse.
ReadEvents(file) == RecordsAt(file, {i \in DOMAIN file : Readable(file, i)})

\* The notes remembered and not forgotten.
ActiveEntries(events) ==
  Kept(events, {i \in DOMAIN events :
                  /\ events[i].type = "remembered"
                  /\ [type |-> "forgotten", id |-> events[i].id] \notin ToSet(events)})

Active(file) == ActiveEntries(ReadEvents(file))

LastEntries(all) ==
  IF Len(all) > MaxEntries THEN SubSeq(all, Len(all) - MaxEntries + 1, Len(all)) ELSE all

\* Faulty variant: the inbox skips the lines that do not parse, as memory does.
LoadEntriesSkipping(file) ==
  [ok |-> Len(file) <= MaxWrites,
   entries |-> IF Len(file) > MaxWrites THEN << >> ELSE LastEntries(ReadEvents(file))]

\* A record that is written as one line and read as two, neither of which parses: the
\* writer escapes no character the reader splits at.
Splits(record) ==
  LET p == record.proposal
  IN  ToSet(p.action \o p.target \o p.data \o p.effect) \cap LineBreaks # {}

\* The inbox is refused whole when one line does not parse or it is too large.
LoadEntries(file) ==
  IF \/ Len(file) > MaxWrites
     \/ \E i \in DOMAIN file : ~ Readable(file, i) \/ Splits(file[i].record)
  THEN [ok |-> FALSE, entries |-> << >>]
  ELSE [ok |-> TRUE, entries |-> LastEntries(ReadEvents(file))]

-----------------------------------------------------------------------------
(* Proposals *)

Blocked(state) == state = BadState

Tasks(state) == IF state \in {NoState, BadState} THEN << >> ELSE state.tasks

NoTask == [id |-> NoText, status |-> "unknown", title |-> NoText, target |-> NoText]

\* _first_useful_task without a task id: the first task that is open, else the first.
UsefulTask(tasks) ==
  LET open == {i \in DOMAIN tasks : tasks[i].status \notin {"done", "blocked"}}
  IN  IF tasks = << >> THEN NoTask
      ELSE IF open = {} THEN tasks[1]
      ELSE tasks[CHOOSE i \in open : \A j \in open : i <= j]

\* What a proposal says comes from the caller, or from the task of the objective
\* state; the data it touches and its effect only from the caller.  The labels (actor,
\* domain and so on) and the risk are the same in all.
ActionProposal(explicit, state) ==
  LET task   == UsefulTask(Tasks(state))
      action == IF explicit.action # NoText THEN explicit.action ELSE task.title
      target == IF explicit.target # NoText THEN explicit.target ELSE task.target
      ready  == {action, target, explicit.data, explicit.effect}
                  \cap {NoText, <<"none">>, <<"unknown">>} = {}
  IN  [status |-> IF Blocked(state) THEN "blocked" ELSE IF ready THEN "ready" ELSE "needs_input",
       action |-> action, target |-> target, data |-> explicit.data,
       effect |-> explicit.effect, task |-> task.id]

\* proposal_id: the digest of the status and the texts, joined; the risk stands between
\* the effect and the task.
ProposalId(p) ==
  <<p.status, p.action \o p.target \o p.data \o p.effect \o <<"low">> \o p.task>>

\* Faulty variant: the id of an entry leaves the proposal's own id out.
EntryWithoutProposal(proposal, count) ==
  [type |-> "entry", id |-> <<count, second, proposal.action \o proposal.target>>,
   proposal |-> proposal]

\* _entry_from_proposal: the id is the digest of the proposal's, of the number of
\* entries that were read before, of the second, and of two texts, joined.
Entry(proposal, count) ==
  [type |-> "entry",
   id |-> <<ProposalId(proposal), count, second, proposal.action \o proposal.target>>,
   proposal |-> proposal]

-----------------------------------------------------------------------------
(* Starting and ending a call *)

Begin(t, call) ==
  /\ job[t].stage = "done"
  /\ call.op \in used.menu.ops
  /\ used.calls < used.menu.calls
  /\ used' = [used EXCEPT !.calls = @ + 1]
  /\ job' = [job EXCEPT ![t] = [call EXCEPT !.since = told]]
  /\ UNCHANGED <<files, objective, second, told>>

Finish(t, status, entries) ==
  job' = [job EXCEPT ![t].stage = "done", ![t].status = status, ![t].entries = entries]

Continue(t, stage) == job' = [job EXCEPT ![t].stage = stage]

\* A thread asks memory: a project id that is no label is refused at once.
CallMemory(t) ==
  \E op \in {"show", "remember"}, project \in Projects \cup {OddProject}, bad \in BOOLEAN :
    /\ op = "show" => ~ bad
    /\ Begin(t, IF project \in Projects
                THEN [Idle EXCEPT !.op = op, !.stage = "read", !.project = project, !.bad = bad]
                ELSE [Idle EXCEPT !.op = op, !.status = "blocked"])

\* To forget, a caller names an id it was told, in whatever project.
CallForget(t) ==
  \E id \in told.written, project \in Projects :
    Begin(t, [Idle EXCEPT !.op = "forget", !.stage = "read", !.project = project, !.id = id])

CallInbox(t) ==
  \/ Begin(t, [Idle EXCEPT !.op = "inbox", !.stage = "read"])
  \/ \E explicit \in Explicits \cap used.menu.says :
       Begin(t, [Idle EXCEPT !.op = "enqueue", !.stage = "read", !.explicit = explicit])

\* The development loop is told an entry that some call has shown, or none.
CallLoop(t) ==
  \E shown \in {NoId} \cup UNION {IF job[u].op = "inbox" THEN ToSet(job[u].entries) ELSE {} :
                                   u \in Threads} :
    Begin(t, [Idle EXCEPT !.op = "loop", !.stage = "read", !.draft = shown])

CallPack(t) ==
  \E project \in {"", "default"} :
    Begin(t, [Idle EXCEPT !.op = "pack", !.stage = "objective", !.project = project,
                          !.explicit = project])

CallAudit(t) == Begin(t, [Idle EXCEPT !.op = "audit", !.stage = "build"])

\* A smoke test or a task of the model is recorded when it is over; anyone may ask
\* for the last runs.
CallRuns(t) ==
  \/ Begin(t, [Idle EXCEPT !.op = "record", !.stage = "build"])
  \/ Begin(t, [Idle EXCEPT !.op = "runs", !.stage = "read"])

-----------------------------------------------------------------------------
(* Memory *)

At(t, ops, stage) == job[t].op \in ops /\ job[t].stage = stage

FreshId(t) == <<job[t].project, used.ids>>

ShowMemory(t) ==
  /\ At(t, {"show"}, "read")
  /\ LET entries == Active(files[job[t].project])
     IN  Finish(t, IF entries = << >> THEN "empty" ELSE "ready", entries)
  /\ UNCHANGED <<files, objective, second, told, used>>

\* The note is validated and gets an id, which holds a random part.
Remember(t) ==
  /\ At(t, {"remember"}, "read")
  /\ IF job[t].bad
     THEN /\ Finish(t, "blocked", << >>)
          /\ UNCHANGED used
     ELSE /\ job' = [job EXCEPT ![t].stage = "append", ![t].id = FreshId(t),
                                ![t].draft = [type |-> "remembered", id |-> FreshId(t)]]
          /\ used' = [used EXCEPT !.ids = @ + 1]
  /\ UNCHANGED <<files, objective, second, told>>

\* Faulty variant: the call goes on to its answer without a tombstone.
ForgetWithoutTombstone(t) ==
  /\ At(t, {"forget"}, "read")
  /\ LET entries == Active(files[job[t].project])
     IN  IF \E e \in ToSet(entries) : e.id = job[t].id
         THEN job' = [job EXCEPT ![t].stage = "reread"]
         ELSE Finish(t, "missing", entries)
  /\ UNCHANGED <<files, objective, second, told, used>>

Forget(t) ==
  /\ At(t, {"forget"}, "read")
  /\ LET entries == Active(files[job[t].project])
     IN  IF \E e \in ToSet(entries) : e.id = job[t].id
         THEN job' = [job EXCEPT ![t].stage = "append",
                                 ![t].draft = [type |-> "forgotten", id |-> job[t].id]]
         ELSE Finish(t, "missing", entries)
  /\ UNCHANGED <<files, objective, second, told, used>>

\* After the append the file is read again, and the call is told it succeeded,
\* whatever the file holds.
Reread(t) ==
  /\ At(t, {"remember", "forget"}, "reread")
  /\ LET status == IF job[t].op = "remember" THEN "written" ELSE "forgotten"
     IN  /\ Finish(t, status, Active(files[job[t].project]))
         /\ told' = [told EXCEPT ![status] = @ \cup {job[t].id}]
  /\ UNCHANGED <<files, objective, second, used>>

-----------------------------------------------------------------------------
(* Inbox and development loop *)

ShowInbox(t) ==
  /\ At(t, {"inbox"}, "read")
  /\ LET load == LoadEntries(files[Inbox])
     IN  Finish(t, IF ~ load.ok THEN "blocked"
                   ELSE IF load.entries = << >> THEN "empty" ELSE "ready", load.entries)
  /\ UNCHANGED <<files, objective, second, told, used>>

\* The entries are counted before the proposal is made.
Count(t) ==
  /\ At(t, {"enqueue"}, "read")
  /\ LET load == LoadEntries(files[Inbox])
     IN  IF load.ok
         THEN job' = [job EXCEPT ![t].stage = "propose", ![t].entries = load.entries]
         ELSE Finish(t, "blocked", << >>)
  /\ UNCHANGED <<files, objective, second, told, used>>

Propose(t) ==
  /\ At(t, {"enqueue"}, "propose")
  /\ LET proposal == ActionProposal(job[t].explicit, objective)
         entry    == Entry(proposal, Len(job[t].entries))
     IN  IF proposal.status = "ready"
         THEN job' = [job EXCEPT ![t].stage = "append", ![t].id = entry.id, ![t].draft = entry]
         ELSE Finish(t, "needs_proposal", job[t].entries)
  /\ UNCHANGED <<files, objective, second, told, used>>

\* The reload after the append refuses the call when it refuses the file, though
\* the entry is in it.
Reload(t) ==
  /\ At(t, {"enqueue"}, "reread")
  /\ LET load == LoadEntries(files[Inbox])
     IN  /\ Finish(t, IF load.ok THEN "ready" ELSE "blocked", load.entries)
         /\ told' = IF load.ok THEN [told EXCEPT !.queued = @ \cup {job[t].id}] ELSE told
  /\ UNCHANGED <<files, objective, second, used>>

\* _select_entry: the first entry of that id, or the first entry of all, as they
\* are all pending.
SelectEntry(entries, id) ==
  LET those == {i \in DOMAIN entries : id = NoId \/ entries[i].id = id}
  IN  IF those = {} THEN << >>
      ELSE <<entries[CHOOSE i \in those : \A j \in those : i <= j]>>

\* An entry whose text names an external effect is refused; none here does.
Loop(t) ==
  /\ At(t, {"loop"}, "read")
  /\ LET load  == LoadEntries(files[Inbox])
         entry == SelectEntry(load.entries,
                              IF job[t].draft = NoId THEN NoId ELSE job[t].draft.id)
     IN  Finish(t, IF ~ load.ok THEN "blocked"
                   ELSE IF entry = << >> THEN "needs_approval" ELSE "ready", entry)
  /\ UNCHANGED <<files, objective, second, told, used>>

-----------------------------------------------------------------------------
(* Context pack *)

PackProject(project, state) ==
  Label(IF project # "" THEN project
        ELSE IF state \in {NoState, BadState} THEN "default" ELSE state.project)

\* The objective state is read first: it may name the project.
PackObjective(t) ==
  /\ At(t, {"pack"}, "objective")
  /\ job' = [job EXCEPT ![t].stage = "memory", ![t].objective = objective,
                        ![t].project = PackProject(@, objective)]
  /\ UNCHANGED <<files, objective, second, told, used>>

PackMemory(t) ==
  /\ At(t, {"pack"}, "memory")
  /\ job' = [job EXCEPT ![t].stage = "documents",
                        ![t].entries = IF job[t].project \in Projects
                                       THEN Active(files[job[t].project]) ELSE << >>]
  /\ UNCHANGED <<files, objective, second, told, used>>

\* A document that was selected may be refused.  A blocked source blocks the pack,
\* and the sources that were read stay listed.
PackDocuments(t) ==
  /\ At(t, {"pack"}, "documents")
  /\ \E refused \in BOOLEAN :
       Finish(t, IF Blocked(job[t].objective) \/ job[t].project \notin Projects \/ refused
                 THEN "blocked" ELSE "ready", job[t].entries)
  /\ UNCHANGED <<files, objective, second, told, used>>

-----------------------------------------------------------------------------
(* Audit log, log of model runs, and the appends of all *)

FileOf(t) ==
  CASE job[t].op = "enqueue" -> Inbox
    [] job[t].op = "audit"   -> AuditLog
    [] job[t].op = "record"  -> RunLog
    [] OTHER                 -> job[t].project

\* The record is made of the effective authorization (AuthorizationPolicy), or of
\* the result of the run.
BuildRecord(t) ==
  /\ At(t, {"audit", "record"}, "build")
  /\ LET id == <<FileOf(t), used.ids>>
     IN  job' = [job EXCEPT ![t].stage = "append", ![t].id = id,
                            ![t].draft = [type |-> job[t].op, id |-> id]]
  /\ used' = [used EXCEPT !.ids = @ + 1]
  /\ UNCHANGED <<files, objective, second, told>>

\* The log of runs is read as memory is, and its last lines are shown.
ShowRuns(t) ==
  /\ At(t, {"runs"}, "read")
  /\ Finish(t, IF files[RunLog] = << >> THEN "empty" ELSE "ready",
            LastEntries(ReadEvents(files[RunLog])))
  /\ UNCHANGED <<files, objective, second, told, used>>

\* These two logs are not read again.
Appended(t) ==
  IF job[t].op \in {"audit", "record"}
  THEN /\ Finish(t, "written", << >>)
       /\ told' = [told EXCEPT !.written = @ \cup {job[t].id}]
  ELSE /\ Continue(t, "reread")
       /\ UNCHANGED told

Write(t, cut) ==
  files' = [files EXCEPT ![FileOf(t)] = Append(@, [record |-> job[t].draft, cut |-> cut])]

AppendLine(t) ==
  /\ job[t].stage = "append"
  /\ Write(t, "whole")
  /\ Appended(t)
  /\ UNCHANGED <<objective, second, used>>

\* A buffered file: a short write is completed, or raises an exception.
Buffered(t) == job[t].op \in {"enqueue", "record"}

\* One os.write whose count nobody checks: the call goes on.
AppendShort(t) ==
  /\ job[t].stage = "append"
  /\ ~ Buffered(t)
  /\ used.faults < MaxFaults
  /\ used' = [used EXCEPT !.faults = @ + 1]
  /\ \E cut \in {"torn", "unended"} : Write(t, cut)
  /\ Appended(t)
  /\ UNCHANGED <<objective, second>>

\* The write fails: before anything is written, or, for a buffered file, after a
\* part.  The exception ends the recording of a run; the others answer "blocked".
AppendFails(t) ==
  /\ job[t].stage = "append"
  /\ used.faults < MaxFaults
  /\ used' = [used EXCEPT !.faults = @ + 1]
  /\ \/ UNCHANGED files
     \/ Buffered(t) /\ \E cut \in {"torn", "unended"} : Write(t, cut)
  /\ Finish(t, IF job[t].op = "record" THEN "error" ELSE "blocked", << >>)
  /\ UNCHANGED <<objective, second, told>>

\* A process is killed between two steps of its call: nobody gets an answer.
Kill(t) ==
  /\ job[t].stage # "done"
  /\ used.faults < MaxFaults
  /\ used' = [used EXCEPT !.faults = @ + 1]
  /\ job' = [job EXCEPT ![t] = Idle]
  /\ UNCHANGED <<files, objective, second, told>>

\* The user edits the objective state file.
EditObjective ==
  /\ objective' \in Objectives \ {objective}
  /\ used.menu.edits
  /\ used.edits < MaxEdits
  /\ used' = [used EXCEPT !.edits = @ + 1]
  /\ UNCHANGED <<files, second, job, told>>

Tick ==
  /\ "enqueue" \in used.menu.ops
  /\ second < MaxSeconds
  /\ second' = second + 1
  /\ UNCHANGED <<files, objective, job, told, used>>

Next ==
  \/ \E t \in Threads :
       \/ CallMemory(t) \/ CallForget(t) \/ CallInbox(t) \/ CallLoop(t) \/ CallPack(t)
       \/ CallAudit(t) \/ CallRuns(t) \/ ShowRuns(t)
       \/ ShowMemory(t) \/ Remember(t) \/ Forget(t) \/ Reread(t)
       \/ ShowInbox(t) \/ Count(t) \/ Propose(t) \/ Reload(t) \/ Loop(t)
       \/ PackObjective(t) \/ PackMemory(t) \/ PackDocuments(t)
       \/ BuildRecord(t) \/ AppendLine(t) \/ AppendShort(t) \/ AppendFails(t) \/ Kill(t)
  \/ EditObjective
  \/ Tick

Spec == Init /\ [][Next]_vars

-----------------------------------------------------------------------------
(* Properties *)

\* Write i of a file was cut, or shares the line of one that was.
Spoiled(file, i) == file[i].cut # "whole" \/ (i > 1 /\ file[i - 1].cut # "whole")

PlacesOf(file, record) == {i \in DOMAIN file : file[i].record = record}

\* A torn append costs at most the record itself and the next one: every other
\* note that was written is still read, until it is forgotten, and so is every
\* other model run.
TornAppendIsContained ==
  \A f \in Projects \cup {RunLog} : \A i \in DOMAIN files[f] :
    LET record == files[f][i].record
    IN  /\ record.type \in {"remembered", "record"}
        /\ ~ Spoiled(files[f], i)
        /\ PlacesOf(files[f], [record EXCEPT !.type = "forgotten"]) = {}
        => record \in ToSet(IF f = RunLog THEN ReadEvents(files[f]) ELSE Active(files[f]))

\* No call that began after a note was reported forgotten shows it, in a list or
\* in a context pack, unless a tombstone of the note was cut or swallowed.
ForgetHolds ==
  \A t \in Threads : job[t].stage = "done" /\ job[t].op \in {"show", "remember", "forget", "pack"} =>
    \A e \in ToSet(job[t].entries) : e.id \in job[t].since.forgotten =>
      LET file   == files[e.id[1]]
          tombs == PlacesOf(file, [type |-> "forgotten", id |-> e.id])
      IN  \E i \in tombs : Spoiled(file, i)

\* The inbox is shown whole or not at all: an answer that is not blocked has every
\* entry that was reported queued before the call, or is full.
InboxAllOrNothing ==
  \A t \in Threads :
    job[t].op = "inbox" /\ job[t].stage = "done" /\ job[t].status # "blocked" =>
      \/ Len(job[t].entries) = MaxEntries
      \/ job[t].since.queued \subseteq {e.id : e \in ToSet(job[t].entries)}

\* No text of the proposal holds a "|".
Plain(p) == \A text \in {p.action, p.target, p.data, p.effect, p.task} : Len(text) = 1

\* Calls that overlap, or meet a full inbox, queue entries of one id from one count in
\* one second.  A caller that names the entry it was shown still gets that proposal,
\* if no text of it holds a "|"; otherwise it may get another whose texts, joined,
\* read the same.
LoopActsOnWhatWasShown ==
  \A t \in Threads :
    job[t].op = "loop" /\ job[t].status = "ready" /\ job[t].draft # NoId =>
      LET shown == job[t].draft.proposal
          acted == job[t].entries[1].proposal
      IN  /\ ProposalId(acted) = ProposalId(shown)
          /\ Plain(shown) => acted = shown
=============================================================================
