------------------------------- MODULE HostSetup -------------------------------
(***************************************************************************)
(* What prepares a host for the gateway: the two configuration files that  *)
(* are written beside and renamed (daily_config.py, and the runtime        *)
(* configuration of model.py), the key files of the model (model.py), the  *)
(* report on the runtime, and the start of the local stack (stack.py),     *)
(* which gives the harness the sandbox of the daily configuration.         *)
(*                                                                         *)
(* The calls come from commands, each a process, and from handler threads; *)
(* none takes a lock.  Every step below is one system call or request.     *)
(* The harness, the gateway process and the environment are external.      *)
(***************************************************************************)
EXTENDS Integers, Sequences, FiniteSets

CONSTANTS
  Callers,
  DailyDocuments,   \* what "daily-config set" may be given: [size, image]
  ModelDocuments,   \* what "model-runtime configure" may be given: [size, key]
  KeyFiles,
  NoImage,          \* no sandbox image
  Environments,     \* LAI_REMOTE_SANDBOX_IMAGE, as the command inherits it
  None,             \* no file, process or document
  Menus,            \* bound: the operations that meet in one behaviour, and how many calls
  MaxFaults         \* bound: writes that fail, calls that are killed, processes that stop

\* A document is one write; two that differ in size differ by more than a line feed.
ASSUME HostAssumption ==
  /\ \A d \in DailyDocuments \cup ModelDocuments : d.size \in Nat \ {0}
  /\ \A d \in ModelDocuments : d.key \in KeyFiles
  /\ None \notin DailyDocuments \cup ModelDocuments
  /\ None \notin KeyFiles
  /\ None \notin Int
  /\ None \notin [secret : Int, private : BOOLEAN]
  /\ \A menu \in Menus : menu.files \subseteq {"daily", "model"}
  /\ MaxFaults \in Nat

VARIABLES
  names,      \* path -> the file it names
  inodes,     \* the files made: what each holds, and whether its mode is 0600
  keys,       \* key file -> None, or its key and whether its mode is 0600
  harness,    \* the process on the harness's port
  gateway,    \* the process on the gateway's port: "down", "booting", "up"
  job,        \* caller -> its call
  told,       \* history: what was reported and still has to hold
  used        \* history: keys made, calls, faults; the menu of the behaviour

vars == <<names, inodes, keys, harness, gateway, job, told, used>>

Configs == {"daily", "model"}
Temporary(f) == CASE f = "daily" -> ".daily.tmp" [] f = "model" -> ".model.tmp"
Paths == Configs \cup {Temporary(f) : f \in Configs}

EmptyText == [doc |-> None, length |-> 0]
NoKey == 0

Idle == [op |-> "none", stage |-> "done", file |-> "daily", doc |-> None, key |-> None,
         force |-> FALSE, secret |-> NoKey, inode |-> 0, configured |-> FALSE, seen |-> None,
         probe |-> "none", waiting |-> FALSE, image |-> NoImage, promise |-> None,
         alone |-> TRUE, status |-> "none"]

\* A key the user has put there, readable for others.
UserKey == [secret |-> -1, private |-> FALSE]

\* A harness the user has started.
UserHarness == [image |-> NoImage, needs |-> TRUE, up |-> TRUE, promise |-> None]

Init ==
  /\ names = [p \in Paths |-> None]
  /\ inodes = << >>
  /\ gateway = "down"
  /\ job = [c \in Callers |-> Idle]
  /\ told = [standing |-> [f \in Configs |-> {None}], promise |-> None,
             key |-> [k \in KeyFiles |-> NoKey]]
  /\ \E menu \in Menus :
       /\ used = [menu |-> menu, keys |-> 0, calls |-> 0, faults |-> 0]
       /\ keys \in [KeyFiles -> IF "create" \in menu.ops THEN {None, UserKey} ELSE {None}]
       /\ harness \in IF "stack" \in menu.ops THEN {None, UserHarness} ELSE {None}

-----------------------------------------------------------------------------
(* Files *)

Larger(a, b) == IF a >= b THEN a ELSE b

\* A document written at the start of a file that may hold another's text.
Overwrite(text, doc) == [doc |-> doc, length |-> Larger(text.length, doc.size)]

Whole(text) == text.doc # None /\ text.length = text.doc.size

\* read_model_runtime_config: the document, or None when the call is refused.
ReadModelConfig ==
  IF names["model"] = None THEN None
  ELSE LET file == inodes[names["model"]] IN IF Whole(file.text) THEN file.text.doc ELSE None

\* read_daily_config tests the mode as well.
ReadDailyConfig ==
  IF names["daily"] = None THEN None
  ELSE LET file == inodes[names["daily"]]
       IN  IF Whole(file.text) /\ file.private THEN file.text.doc ELSE None

\* check_model_api_key_file: the key, or NoKey when it is missing, empty or open to others.
ReadKey(k) == IF keys[k] # None /\ keys[k].private THEN keys[k].secret ELSE NoKey

Writers(f) == {c \in Callers : job[c].op = "write" /\ job[c].file = f /\ job[c].stage # "done"}

Creators(k) == {c \in Callers : job[c].op = "create" /\ job[c].key = k /\ job[c].stage # "done"}

-----------------------------------------------------------------------------
(* Calls *)

Begin(c, call) ==
  /\ job[c].stage = "done"
  /\ call.op \in used.menu.ops
  /\ used.calls < used.menu.calls
  /\ used' = [used EXCEPT !.calls = @ + 1]
  /\ UNCHANGED <<names, inodes, keys, harness, gateway>>

Goto(c, stage) == job' = [job EXCEPT ![c].stage = stage]
Finish(c, status) == job' = [job EXCEPT ![c].stage = "done", ![c].status = status]
At(c, op, stage) == job[c].op = op /\ job[c].stage = stage

\* A write that begins takes back, in the history, what concerns the same file.
Disturb(jobs, f) ==
  [d \in Callers |-> IF jobs[d].op = "stack" /\ f = "daily" THEN [jobs[d] EXCEPT !.promise = None]
                     ELSE IF jobs[d].doc # None /\ jobs[d].file = f /\ jobs[d].stage # "done"
                     THEN [jobs[d] EXCEPT !.alone = FALSE]
                     ELSE jobs[d]]

CallWrite(c) ==
  \E f \in used.menu.files, doc \in DailyDocuments \cup ModelDocuments :
    /\ doc \in IF f = "daily" THEN DailyDocuments ELSE ModelDocuments
    /\ Begin(c, [Idle EXCEPT !.op = "write"])
    /\ job' = [Disturb(job, f) EXCEPT ![c] =
                 [Idle EXCEPT !.op = "write", !.file = f, !.doc = doc, !.stage = "open",
                              !.key = IF f = "model" THEN doc.key ELSE None,
                              !.alone = Writers(f) = {}]]
    /\ told' = [told EXCEPT
                 !.standing[f] = IF @ = {} \/ Writers(f) # {} THEN {} ELSE @ \cup {doc},
                 !.promise = IF f = "daily" THEN None ELSE @]

\* "daily-config set" refuses a bad document; "configure" reports on the file as
\* it is instead.
CallWriteBad(c) ==
  \E f \in used.menu.files :
    /\ Begin(c, [Idle EXCEPT !.op = "write"])
    /\ job' = [job EXCEPT ![c] =
                 IF f = "daily" THEN [Idle EXCEPT !.op = "write", !.status = "error"]
                 ELSE [Idle EXCEPT !.op = "show", !.stage = "status", !.force = TRUE]]
    /\ UNCHANGED told

\* The report may be asked about a key file of the caller's choice.
CallShow(c) ==
  \E key \in KeyFiles \cup {None} :
    LET call == [Idle EXCEPT !.op = "show", !.stage = "configured", !.key = key]
    IN  /\ Begin(c, call)
        /\ job' = [job EXCEPT ![c] = call]
        /\ UNCHANGED told

\* A forced creation takes back, in the history, what was said of the key file.
CallCreate(c) ==
  \E key \in KeyFiles, force \in BOOLEAN :
    /\ Begin(c, [Idle EXCEPT !.op = "create"])
    /\ job' = [d \in Callers |->
                 IF d = c THEN [Idle EXCEPT !.op = "create", !.stage = "exists", !.key = key,
                                            !.force = force,
                                            !.alone = \A e \in Creators(key) : ~ job[e].force]
                 ELSE IF force /\ d \in Creators(key) THEN [job[d] EXCEPT !.alone = FALSE]
                 ELSE job[d]]
    /\ told' = IF force THEN [told EXCEPT !.key[key] = NoKey] ELSE told

CallStack(c) ==
  \E check \in BOOLEAN, image \in Environments :
    LET call == [Idle EXCEPT !.op = "stack", !.stage = "collect", !.force = check,
                             !.image = image, !.promise = told.promise]
    IN  /\ Begin(c, call)
        /\ job' = [job EXCEPT ![c] = call]
        /\ UNCHANGED told

-----------------------------------------------------------------------------
(* Writing a configuration beside the target and renaming it *)

\* Faulty variant: the target itself is opened.
OpenTarget(c) ==
  /\ At(c, "write", "open")
  /\ LET f == job[c].file IN
       IF names[f] = None
       THEN /\ inodes' = Append(inodes, [text |-> EmptyText, private |-> FALSE])
            /\ names' = [names EXCEPT ![f] = Len(inodes) + 1, ![Temporary(f)] = Len(inodes) + 1]
            /\ job' = [job EXCEPT ![c].stage = "write", ![c].inode = Len(inodes) + 1]
       ELSE /\ inodes' = [inodes EXCEPT ![names[f]].text = EmptyText]
            /\ names' = [names EXCEPT ![Temporary(f)] = names[f]]
            /\ job' = [job EXCEPT ![c].stage = "write", ![c].inode = names[f]]
  /\ UNCHANGED <<keys, harness, gateway, told, used>>

\* The name of the temporary file is the same for every call: open("w") makes it,
\* or empties the one that is there, another call's included.
OpenTemporary(c) ==
  /\ At(c, "write", "open")
  /\ LET tmp == Temporary(job[c].file) IN
       IF names[tmp] = None
       THEN /\ inodes' = Append(inodes, [text |-> EmptyText, private |-> FALSE])
            /\ names' = [names EXCEPT ![tmp] = Len(inodes) + 1]
            /\ job' = [job EXCEPT ![c].stage = "write", ![c].inode = Len(inodes) + 1]
       ELSE /\ inodes' = [inodes EXCEPT ![names[tmp]].text = EmptyText]
            /\ UNCHANGED names
            /\ job' = [job EXCEPT ![c].stage = "write", ![c].inode = names[tmp]]
  /\ UNCHANGED <<keys, harness, gateway, told, used>>

\* The buffer is written when the file is closed, into the file that was opened,
\* whatever its name is by then.
WriteTemporary(c) ==
  /\ At(c, "write", "write")
  /\ inodes' = [inodes EXCEPT ![job[c].inode].text = Overwrite(@, job[c].doc)]
  /\ Goto(c, "chmod")
  /\ UNCHANGED <<names, keys, harness, gateway, told, used>>

\* The disk is full: a part is written and the exception ends the call.
WriteFails(c) ==
  /\ At(c, "write", "write")
  /\ used.faults < MaxFaults
  /\ used' = [used EXCEPT !.faults = @ + 1]
  /\ inodes' = [inodes EXCEPT ![job[c].inode].text = [doc |-> None, length |-> Larger(@.length, 1)]]
  /\ Finish(c, "error")
  /\ UNCHANGED <<names, keys, harness, gateway, told>>

\* A temporary file that another call renamed away ends the call with an OSError,
\* though what it wrote may be the configuration now.
ChmodTemporary(c) ==
  /\ At(c, "write", "chmod")
  /\ LET tmp == Temporary(job[c].file) IN
       IF names[tmp] = None
       THEN Finish(c, "error") /\ UNCHANGED inodes
       ELSE Goto(c, "replace") /\ inodes' = [inodes EXCEPT ![names[tmp]].private = TRUE]
  /\ UNCHANGED <<names, keys, harness, gateway, told, used>>

Replace(c) ==
  /\ At(c, "write", "replace")
  /\ LET f   == job[c].file
         tmp == Temporary(f)
     IN  IF names[tmp] = None
         THEN Finish(c, "error") /\ UNCHANGED names
         ELSE Goto(c, "protect") /\ names' = [names EXCEPT ![f] = names[tmp], ![tmp] = None]
  /\ UNCHANGED <<inodes, keys, harness, gateway, told, used>>

Protect(c) ==
  /\ At(c, "write", "protect")
  /\ inodes' = [inodes EXCEPT ![names[job[c].file]].private = TRUE]
  /\ Goto(c, "reread")
  /\ UNCHANGED <<names, keys, harness, gateway, told, used>>

\* "daily-config set" answers with the file it reads again.
RereadDaily(c) ==
  /\ At(c, "write", "reread") /\ job[c].file = "daily"
  /\ Finish(c, IF ReadDailyConfig # None THEN "ready" ELSE "needs_config")
  /\ told' = IF job[c].alone
             THEN [told EXCEPT !.promise = job[c].doc,
                               !.standing["daily"] = IF @ = {} THEN {} ELSE {job[c].doc}]
             ELSE told
  /\ UNCHANGED <<names, inodes, keys, harness, gateway, used>>

\* "configure" goes on to the report.
Configured(c) ==
  /\ At(c, "write", "reread") /\ job[c].file = "model"
  /\ job' = [job EXCEPT ![c].op = "show", ![c].stage = "status", ![c].configured = TRUE]
  /\ told' = IF job[c].alone
             THEN [told EXCEPT !.standing["model"] = IF @ = {} THEN {} ELSE {job[c].doc}]
             ELSE told
  /\ UNCHANGED <<names, inodes, keys, harness, gateway, used>>

-----------------------------------------------------------------------------
(* The report on the runtime of the model *)

\* The file is read once to see whether it is there, and again for the status.
ReadConfigured(c) ==
  /\ At(c, "show", "configured")
  /\ job' = [job EXCEPT ![c].stage = "status", ![c].configured = ReadModelConfig # None]
  /\ UNCHANGED <<names, inodes, keys, harness, gateway, told, used>>

\* The status holds the answer of the runtime, when it is asked for and there is
\* an address.
ReadStatus(c) ==
  /\ At(c, "show", "status")
  /\ \E probe \in {"none", "failed"} \cup IF ReadModelConfig # None THEN {"ready"} ELSE {} :
       job' = [job EXCEPT ![c].stage = "key", ![c].seen = ReadModelConfig, ![c].probe = probe]
  /\ UNCHANGED <<names, inodes, keys, harness, gateway, told, used>>

\* Faulty variant: a key file that is missing or refused is none of the conditions.
CheckKeyOfNobody(c) ==
  /\ At(c, "show", "key")
  /\ LET path == IF job[c].key # None \/ job[c].seen = None THEN job[c].key ELSE job[c].seen.key
         key  == IF path = None THEN NoKey ELSE ReadKey(path)
     IN  job' = [job EXCEPT ![c].stage = "done", ![c].key = path, ![c].secret = key,
                   ![c].status = IF job[c].configured THEN "chat" ELSE "needs_config"]
  /\ UNCHANGED <<names, inodes, keys, harness, gateway, told, used>>

\* The key file of the arguments, else of the status, is checked last.
CheckKey(c) ==
  /\ At(c, "show", "key")
  /\ LET path == IF job[c].key # None \/ job[c].seen = None THEN job[c].key ELSE job[c].seen.key
         key  == IF path = None THEN NoKey ELSE ReadKey(path)
         chat == /\ job[c].configured /\ job[c].seen # None
                 /\ key # NoKey
                 /\ job[c].probe # "failed"
     IN  job' = [job EXCEPT ![c].stage = "done", ![c].key = path, ![c].secret = key,
                   ![c].status = IF chat THEN "chat"
                                 ELSE IF job[c].configured \/ job[c].force THEN "warn"
                                 ELSE "needs_config"]
  /\ UNCHANGED <<names, inodes, keys, harness, gateway, told, used>>

-----------------------------------------------------------------------------
(* The key files *)

CreateKey(c) ==
  /\ At(c, "create", "exists")
  /\ IF keys[job[c].key] # None /\ ~ job[c].force THEN Finish(c, "error") ELSE Goto(c, "open")
  /\ UNCHANGED <<names, inodes, keys, harness, gateway, told, used>>

\* Faulty variant: the file is opened without O_EXCL.
OpenKeyAnyway(c) ==
  /\ At(c, "create", "open")
  /\ keys' = [keys EXCEPT ![job[c].key] =
               IF @ = None THEN [secret |-> NoKey, private |-> TRUE]
               ELSE [@ EXCEPT !.secret = NoKey]]
  /\ Goto(c, "write")
  /\ UNCHANGED <<names, inodes, harness, gateway, told, used>>

\* O_EXCL decides between two that found no file; with force the file that is
\* there is emptied, and keeps its mode for now.
OpenKey(c) ==
  /\ At(c, "create", "open")
  /\ LET key == job[c].key IN
       IF keys[key] = None
       THEN /\ keys' = [keys EXCEPT ![key] = [secret |-> NoKey, private |-> TRUE]]
            /\ Goto(c, "write")
       ELSE IF job[c].force
       THEN /\ keys' = [keys EXCEPT ![key].secret = NoKey]
            /\ Goto(c, "write")
       ELSE /\ Finish(c, "error")
            /\ UNCHANGED keys
  /\ UNCHANGED <<names, inodes, harness, gateway, told, used>>

\* Keys are of one length: the last that is written is the whole file.
WriteKey(c) ==
  /\ At(c, "create", "write")
  /\ used' = [used EXCEPT !.keys = @ + 1]
  /\ keys' = [keys EXCEPT ![job[c].key].secret = used.keys + 1]
  /\ job' = [job EXCEPT ![c].stage = "chmod", ![c].secret = used.keys + 1]
  /\ UNCHANGED <<names, inodes, harness, gateway, told>>

ProtectKey(c) ==
  /\ At(c, "create", "chmod")
  /\ keys' = [keys EXCEPT ![job[c].key].private = TRUE]
  /\ Finish(c, "created")
  /\ told' = IF job[c].force \/ ~ job[c].alone THEN told
             ELSE [told EXCEPT !.key[job[c].key] = job[c].secret]
  /\ UNCHANGED <<names, inodes, harness, gateway, used>>

-----------------------------------------------------------------------------
(* Starting the stack *)

HarnessUp == harness # None /\ harness.up
Verified(h) == h.needs => h.image # NoImage

\* collect_local_stack_status probes both first; --check-only answers with that
\* and starts nothing.  A reset or timed out connection to a gateway that boots is
\* no URLError and ends the call, here and below.
CollectStatus(c) ==
  /\ At(c, "stack", "collect")
  /\ \/ gateway = "booting" /\ Finish(c, "error")
     \/ job[c].force
        /\ Finish(c, IF HarnessUp /\ Verified(harness) /\ gateway = "up" THEN "ready" ELSE "planned")
     \/ ~ job[c].force /\ Goto(c, "status")
  /\ UNCHANGED <<names, inodes, keys, harness, gateway, told, used>>

\* _probe_harness asks for the status and then for the readiness; a process may
\* have taken the place of another in between.
AskStatus(c) ==
  /\ At(c, "stack", "status")
  /\ job' = [job EXCEPT ![c].stage = "readiness", ![c].seen = IF HarnessUp THEN harness ELSE None]
  /\ UNCHANGED <<names, inodes, keys, harness, gateway, told, used>>

ProbeReady(seen) == seen # None /\ HarnessUp /\ Verified(seen)

\* The first probe decides whether a harness is started; then they are repeated
\* until one is ready.
AskReadiness(c) ==
  /\ At(c, "stack", "readiness")
  /\ IF ProbeReady(job[c].seen) THEN Goto(c, "gateway")
     ELSE Goto(c, IF job[c].waiting THEN "status" ELSE "environment")
  /\ UNCHANGED <<names, inodes, keys, harness, gateway, told, used>>

\* The deadline ends the waiting with the last answer, which was not ready.
HarnessDeadline(c) ==
  /\ At(c, "stack", "status") /\ job[c].waiting
  /\ job' = [job EXCEPT ![c].stage = "gateway", ![c].seen = None]
  /\ UNCHANGED <<names, inodes, keys, harness, gateway, told, used>>

\* Faulty variant: the daily configuration is not consulted.
HarnessStartEnvAsIs(c) ==
  /\ At(c, "stack", "environment")
  /\ Goto(c, "spawn")
  /\ UNCHANGED <<names, inodes, keys, harness, gateway, told, used>>

\* _harness_start_env: an image of the environment stays; a daily configuration
\* that cannot be read is passed over in silence.
HarnessStartEnv(c) ==
  /\ At(c, "stack", "environment")
  /\ job' = [job EXCEPT ![c].stage = "spawn",
               ![c].image = IF @ # NoImage \/ ReadDailyConfig = None THEN @
                            ELSE ReadDailyConfig.image]
  /\ UNCHANGED <<names, inodes, keys, harness, gateway, told, used>>

\* A harness that finds the port taken exits at once; without the command or the
\* repository none is started.
StartHarness(c) ==
  /\ At(c, "stack", "spawn")
  /\ job' = [job EXCEPT ![c].stage = "status", ![c].waiting = TRUE, ![c].seen = None]
  /\ \/ UNCHANGED harness
     \/ /\ harness = None
        /\ \E needs \in BOOLEAN :
             harness' = [image |-> job[c].image, needs |-> needs, up |-> FALSE,
                         promise |-> job[c].promise]
  /\ UNCHANGED <<names, inodes, keys, gateway, told, used>>

ProbeGateway(c) ==
  /\ At(c, "stack", "gateway")
  /\ \/ gateway = "up" /\ Finish(c, IF job[c].seen # None THEN "ready" ELSE "blocked")
     \/ gateway # "up" /\ Goto(c, "spawnGateway")
     \/ gateway = "booting" /\ Finish(c, "error")
  /\ UNCHANGED <<names, inodes, keys, harness, gateway, told, used>>

StartGateway(c) ==
  /\ At(c, "stack", "spawnGateway")
  /\ gateway' = IF gateway = "down" THEN "booting" ELSE gateway
  /\ Goto(c, "waitGateway")
  /\ UNCHANGED <<names, inodes, keys, harness, told, used>>

WaitForGateway(c) ==
  /\ At(c, "stack", "waitGateway")
  /\ \/ gateway = "up" /\ Finish(c, IF job[c].seen # None THEN "ready" ELSE "blocked")
     \/ gateway # "up" /\ Finish(c, "blocked")
     \/ gateway = "booting" /\ Finish(c, "error")
  /\ UNCHANGED <<names, inodes, keys, harness, gateway, told, used>>

-----------------------------------------------------------------------------
(* Processes and faults *)

HarnessBoots ==
  /\ harness # None /\ ~ harness.up
  /\ harness' = [harness EXCEPT !.up = TRUE]
  /\ UNCHANGED <<names, inodes, keys, gateway, job, told, used>>

GatewayBoots ==
  /\ gateway = "booting"
  /\ gateway' = "up"
  /\ UNCHANGED <<names, inodes, keys, harness, job, told, used>>

ProcessStops ==
  /\ used.faults < MaxFaults
  /\ used' = [used EXCEPT !.faults = @ + 1]
  /\ \/ harness # None /\ harness' = None /\ UNCHANGED gateway
     \/ gateway # "down" /\ gateway' = "down" /\ UNCHANGED harness
  /\ UNCHANGED <<names, inodes, keys, job, told>>

Kill(c) ==
  /\ job[c].stage # "done"
  /\ used.faults < MaxFaults
  /\ used' = [used EXCEPT !.faults = @ + 1]
  /\ Finish(c, "killed")
  /\ UNCHANGED <<names, inodes, keys, harness, gateway, told>>

Next ==
  \/ \E c \in Callers :
       \/ CallWrite(c) \/ CallWriteBad(c) \/ CallShow(c) \/ CallCreate(c) \/ CallStack(c)
       \/ OpenTemporary(c) \/ WriteTemporary(c) \/ WriteFails(c) \/ ChmodTemporary(c)
       \/ Replace(c) \/ Protect(c) \/ RereadDaily(c) \/ Configured(c)
       \/ ReadConfigured(c) \/ ReadStatus(c) \/ CheckKey(c)
       \/ CreateKey(c) \/ OpenKey(c) \/ WriteKey(c) \/ ProtectKey(c)
       \/ CollectStatus(c) \/ AskStatus(c) \/ AskReadiness(c) \/ HarnessDeadline(c)
       \/ HarnessStartEnv(c) \/ StartHarness(c) \/ ProbeGateway(c) \/ StartGateway(c)
       \/ WaitForGateway(c) \/ Kill(c)
  \/ HarnessBoots \/ GatewayBoots \/ ProcessStops

Spec == Init /\ [][Next]_vars

-----------------------------------------------------------------------------
(* Properties *)

\* While no two writers of a configuration have overlapped, the file is, at every
\* moment, a whole document with mode 0600: the one of the last call that reported
\* success or of one that has not reported yet, or has failed or been killed
\* since.  Before the first success there may be no file.
ConfigIsOldOrNew ==
  \A f \in Configs : told.standing[f] # {} =>
    IF names[f] = None THEN None \in told.standing[f]
    ELSE /\ Whole(inodes[names[f]].text) /\ inodes[names[f]].private
         /\ inodes[names[f]].text.doc \in told.standing[f]

\* A key that was reported created, by a call that no forced one met, is the key of
\* the file until a forced creation begins, whoever else tries to create it.
KeyIsKept ==
  \A k \in KeyFiles : told.key[k] # NoKey =>
    keys[k] = [secret |-> told.key[k], private |-> TRUE]

\* A harness that stack-start has started, after a daily configuration was reported
\* set and while no other write of it began, has the image of that configuration or
\* the one the command inherited: no torn read of the file takes the sandbox away,
\* which no later start could repair, as the port is taken.
SandboxIsRestored ==
  harness # None /\ harness.promise # None =>
    harness.image \in {harness.promise.image} \cup (Environments \ {NoImage})

\* A report that says "ready for chat" has read a whole document, and the key that
\* was found good is the one that document names, unless the caller named another
\* or another configuration was written meanwhile: then the two may not belong
\* together.
ReportIsBacked ==
  \A c \in Callers : job[c].op = "show" /\ job[c].status = "chat" =>
    /\ job[c].seen # None /\ job[c].secret # NoKey
    /\ job[c].doc # None /\ job[c].alone => job[c].seen = job[c].doc /\ job[c].key = job[c].seen.key
=============================================================================
