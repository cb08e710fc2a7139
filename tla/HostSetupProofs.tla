--------------------------- MODULE HostSetupProofs ---------------------------
(***************************************************************************)
(* Proofs about HostSetup for every set of callers, documents and key      *)
(* files: keys that are kept, configurations that are whole, the sandbox   *)
(* of the harness and the report on the model.                             *)
(***************************************************************************)
EXTENDS HostSetup, TLAPS

-----------------------------------------------------------------------------
(* Types *)

Documents == DailyDocuments \cup ModelDocuments

Of(f) == IF f = "daily" THEN DailyDocuments ELSE ModelDocuments

Images == Environments \cup {NoImage} \cup {d.image : d \in Documents}

NamedKeys == KeyFiles \cup {None}

Texts == [doc : Documents \cup {None}, length : Nat]

Files == [text : Texts, private : BOOLEAN]

Keys == [secret : Int, private : BOOLEAN]

Harnesses == [image : Images, needs : BOOLEAN, up : BOOLEAN, promise : Documents \cup {None}]

Ops == {"none", "write", "show", "create", "stack"}

Probes == {"none", "failed", "ready"}

Stages ==
  {"done", "open", "write", "chmod", "replace", "protect", "reread", "configured", "status",
   "key", "exists", "collect", "readiness", "environment", "spawn", "gateway", "spawnGateway",
   "waitGateway"}

Statuses ==
  {"none", "error", "killed", "created", "ready", "needs_config", "chat", "warn", "planned",
   "blocked"}

Calls ==
  [op : Ops, stage : Stages, file : Configs,
   doc : Documents \cup {None}, key : NamedKeys, force : BOOLEAN, secret : Int,
   inode : Nat, configured : BOOLEAN, seen : {None} \cup Harnesses \cup Documents,
   probe : Probes, waiting : BOOLEAN, image : Images, promise : Documents \cup {None},
   alone : BOOLEAN, status : Statuses]

Typed ==
  /\ names \in [Paths -> {None} \cup Nat]
  /\ inodes \in Seq(Files)
  /\ \A p \in Paths : names[p] # None => names[p] \in DOMAIN inodes
  /\ \A p, q \in Paths : names[p] = names[q] /\ names[p] # None => p = q
  /\ keys \in [KeyFiles -> {None} \cup Keys]
  /\ harness \in {None} \cup Harnesses
  /\ job \in [Callers -> Calls]
  /\ told \in [standing : [Configs -> SUBSET (Documents \cup {None})],
               promise : Documents \cup {None}, key : [KeyFiles -> Int]]
  /\ used.keys \in Nat /\ used.menu \in Menus
  /\ used = [menu |-> used.menu, keys |-> used.keys, calls |-> used.calls,
              faults |-> used.faults]

\* What a call is given, it is given when it begins, and its answer when it ends.
GivenTo(c) ==
  /\ job[c].stage # "done" => job[c].status = "none"
  /\ job[c].op = "write" /\ job[c].stage # "done" =>
       /\ job[c].doc \in Of(job[c].file)
       /\ job[c].file = "model" => job[c].key = job[c].doc.key
       /\ job[c].stage \in {"open", "write", "chmod", "replace", "protect", "reread"}
       /\ job[c].stage = "write" => job[c].inode \in DOMAIN inodes
       /\ job[c].stage \in {"protect", "reread"} => names[job[c].file] # None
  /\ job[c].op = "show" /\ job[c].doc # None =>
       /\ job[c].file = "model" /\ job[c].doc \in ModelDocuments
       /\ job[c].stage # "done" => job[c].key = job[c].doc.key /\ job[c].stage # "configured"
  /\ job[c].op = "write" => job[c].seen = None
  /\ job[c].op = "show" => job[c].seen \in ModelDocuments \cup {None}
  /\ job[c].op = "create" =>
       /\ job[c].doc = None /\ job[c].key \in KeyFiles
       /\ job[c].stage \in {"write", "chmod"} => keys[job[c].key] # None

Given == \A c \in Callers : GivenTo(c)

Writing(c, f) == job[c].op = "write" /\ job[c].stage # "done" /\ job[c].file = f

\* The files of one configuration are never those of the other.
DocsApart ==
  \A f \in Configs : \A p \in {f, Temporary(f)} :
    names[p] # None => inodes[names[p]].text.doc \in Of(f) \cup {None}

WritersApart ==
  \A c \in Callers, f \in Configs : Writing(c, f) /\ job[c].stage = "write" =>
    \A g \in Configs : \A p \in {g, Temporary(g)} : g # f => job[c].inode # names[p]

Apart == DocsApart /\ WritersApart

-----------------------------------------------------------------------------
(* The key files *)

Creating(c) == job[c].op = "create" /\ job[c].stage # "done"

\* A creation that has opened the file, and will write to it or has.
Holding(c) == Creating(c) /\ job[c].stage \in {"write", "chmod"}

ForcedMet ==
  \A c, d \in Callers :
    Creating(c) /\ Creating(d) /\ c # d /\ job[c].key = job[d].key /\ job[d].force
      => ~ job[c].alone

OneHolds ==
  \A c, d \in Callers :
    /\ Holding(c) /\ Holding(d) /\ job[c].key = job[d].key
    /\ ~ job[c].force /\ ~ job[d].force
    => c = d

HeldKey ==
  \A c \in Callers :
    Holding(c) /\ ~ job[c].force /\ job[c].alone =>
      keys[job[c].key] = [secret |-> IF job[c].stage = "write" THEN NoKey ELSE job[c].secret,
                          private |-> TRUE]

ToldKey ==
  \A k \in KeyFiles : told.key[k] # NoKey =>
    /\ keys[k] = [secret |-> told.key[k], private |-> TRUE]
    /\ \A c \in Callers : Creating(c) /\ job[c].key = k => ~ job[c].force /\ ~ Holding(c)

KeyInv == ForcedMet /\ OneHolds /\ HeldKey /\ ToldKey

-----------------------------------------------------------------------------
(* The configuration files *)

\* The report "configure" goes on to, about the document it has written.
Reporting(c, f) == job[c].op = "show" /\ job[c].stage # "done" /\ job[c].doc # None
                   /\ job[c].file = f

\* The file at a path holds a document, whole.
Holds(p, doc) ==
  /\ doc \in Documents /\ names[p] # None
  /\ inodes[names[p]].text = [doc |-> doc, length |-> doc.size]

Config(f, doc) == Holds(f, doc) /\ inodes[names[f]].private

\* How far a call has come that no other writer of the file has met.
Progress(c, f) ==
  LET tmp   == Temporary(f)
      doc   == job[c].doc
      stage == job[c].stage
  IN  /\ job[c].op = "show" =>
           /\ stage = "status" => Config(f, doc)
           /\ stage = "key" => job[c].seen = doc
      /\ job[c].op = "write" =>
           /\ stage = "write" =>
                /\ names[tmp] # None /\ names[tmp] = job[c].inode
                /\ inodes[names[tmp]].text = EmptyText
           /\ stage = "chmod" => Holds(tmp, doc)
           /\ stage = "replace" => Config(tmp, doc)
           /\ stage \in {"protect", "reread"} => Config(f, doc)

Undisturbed(f) ==
  \A c \in Callers : (Writing(c, f) \/ Reporting(c, f)) /\ job[c].alone =>
    /\ \A d \in Callers : Writing(d, f) => d = c
    /\ Progress(c, f)

Standing(f) ==
  told.standing[f] # {} =>
    /\ names[f] = None => None \in told.standing[f]
    /\ names[f] # None => \E doc \in told.standing[f] : Config(f, doc)
    /\ \A c \in Callers : Writing(c, f) => job[c].alone /\ job[c].doc \in told.standing[f]

Promised ==
  told.promise # None =>
    /\ Config("daily", told.promise)
    /\ \A c \in Callers : ~ Writing(c, "daily")

FileInv == (\A f \in Configs : Undisturbed(f) /\ Standing(f)) /\ Promised

-----------------------------------------------------------------------------
(* The stack and the report *)

StackCall(c) ==
  job[c].op = "stack" =>
    /\ job[c].promise # None => job[c].promise = told.promise
    /\ ~ job[c].waiting /\ job[c].stage \notin {"spawn", "done"} => job[c].image \in Environments
    /\ job[c].stage = "spawn" /\ job[c].promise # None =>
         job[c].image \in {job[c].promise.image} \cup (Environments \ {NoImage})
    /\ job[c].stage = "environment" => ~ job[c].waiting

StackInv == (\A c \in Callers : StackCall(c)) /\ SandboxIsRestored

-----------------------------------------------------------------------------
(* Types are kept *)

\* What the assumption says of None.
LEMMA NoneFacts ==
  /\ \A d \in Documents : d # None /\ d.size \in Nat \ {0}
  /\ \A d \in ModelDocuments : d.key \in KeyFiles /\ d.key # None
  /\ \A n \in Int : n # None
  /\ \A r \in Keys : r # None
BY HostAssumption DEF Documents, Keys

\* A sequence keeps its type and length when one element is replaced.
LEMMA ReplaceElement ==
  ASSUME NEW S, NEW s \in Seq(S), NEW i \in DOMAIN s, NEW v \in S
  PROVE  /\ [s EXCEPT ![i] = v] \in Seq(S)
         /\ DOMAIN [s EXCEPT ![i] = v] = DOMAIN s
         /\ [s EXCEPT ![i] = v][i] = v
OBVIOUS

LEMMA PathFacts ==
  /\ Configs = {"daily", "model"}
  /\ Temporary("daily") = ".daily.tmp" /\ Temporary("model") = ".model.tmp"
  /\ Paths = {"daily", "model", ".daily.tmp", ".model.tmp"}
BY DEF Configs, Temporary, Paths

LEMMA Names ==
  /\ Ops = {"none", "write", "show", "create", "stack"}
  /\ Probes = {"none", "failed", "ready"}
  /\ "done" \in Stages /\ "open" \in Stages /\ "write" \in Stages /\ "chmod" \in Stages
  /\ "replace" \in Stages /\ "protect" \in Stages /\ "reread" \in Stages
  /\ "configured" \in Stages /\ "status" \in Stages /\ "key" \in Stages
  /\ "exists" \in Stages /\ "collect" \in Stages /\ "readiness" \in Stages
  /\ "environment" \in Stages /\ "spawn" \in Stages /\ "gateway" \in Stages
  /\ "spawnGateway" \in Stages /\ "waitGateway" \in Stages
  /\ "none" \in Statuses /\ "error" \in Statuses /\ "killed" \in Statuses
  /\ "created" \in Statuses /\ "ready" \in Statuses /\ "needs_config" \in Statuses
  /\ "chat" \in Statuses /\ "warn" \in Statuses /\ "planned" \in Statuses
  /\ "blocked" \in Statuses
BY DEF Ops, Probes, Stages, Statuses

LEMMA IdleCall == Idle \in Calls
<1>1. NoImage \in Images /\ None \in NamedKeys
  BY DEF Images, NamedKeys
<1>2. "daily" \in Configs
  BY DEF Configs
<1>3. "none" \in Ops /\ "none" \in Probes /\ "done" \in Stages /\ "none" \in Statuses
  BY Names
<1> QED  BY <1>1, <1>2, <1>3 DEF Idle, Calls, NoKey

THEOREM TypedInit == Init => Typed
<1> SUFFICES ASSUME Init PROVE Typed
  OBVIOUS
<1> USE PathFacts
<1>1. names \in [Paths -> {None} \cup Nat] /\ inodes \in Seq(Files)
  BY DEF Init
<1>2. /\ \A p \in Paths : names[p] # None => names[p] \in DOMAIN inodes
      /\ \A p, q \in Paths : names[p] = names[q] /\ names[p] # None => p = q
  BY DEF Init
<1>3. keys \in [KeyFiles -> {None} \cup Keys]
  <2>1. UserKey \in Keys
    BY DEF UserKey, Keys
  <2> QED  BY <2>1 DEF Init
<1>4. harness \in {None} \cup Harnesses
  <2>1. UserHarness \in Harnesses
    BY DEF UserHarness, Harnesses, Images
  <2> QED  BY <2>1 DEF Init
<1>5. job \in [Callers -> Calls]
  BY IdleCall DEF Init
<1>6. told \in [standing : [Configs -> SUBSET (Documents \cup {None})],
                promise : Documents \cup {None}, key : [KeyFiles -> Int]]
  BY DEF Init, NoKey
<1>7. /\ used.keys \in Nat /\ used.menu \in Menus
      /\ used = [menu |-> used.menu, keys |-> used.keys, calls |-> used.calls,
                  faults |-> used.faults]
  BY DEF Init
<1> QED  BY <1>1, <1>2, <1>3, <1>4, <1>5, <1>6, <1>7 DEF Typed

\* A step of one caller.
Steps(c) ==
  \/ CallWrite(c) \/ CallWriteBad(c) \/ CallShow(c) \/ CallCreate(c) \/ CallStack(c)
  \/ OpenTemporary(c) \/ WriteTemporary(c) \/ WriteFails(c) \/ ChmodTemporary(c)
  \/ Replace(c) \/ Protect(c) \/ RereadDaily(c) \/ Configured(c)
  \/ ReadConfigured(c) \/ ReadStatus(c) \/ CheckKey(c)
  \/ CreateKey(c) \/ OpenKey(c) \/ WriteKey(c) \/ ProtectKey(c)
  \/ CollectStatus(c) \/ AskStatus(c) \/ AskReadiness(c) \/ HarnessDeadline(c)
  \/ HarnessStartEnv(c) \/ StartHarness(c) \/ ProbeGateway(c) \/ StartGateway(c)
  \/ WaitForGateway(c) \/ Kill(c)

\* A step that handles the files of a configuration.
Handles(c) == \/ OpenTemporary(c) \/ WriteTemporary(c) \/ WriteFails(c) \/ ChmodTemporary(c)
              \/ Replace(c) \/ Protect(c)

\* Which steps of a caller change what: the rest leave it alone.
LEMMA Footprint ==
  ASSUME NEW c \in Callers, Steps(c)
  PROVE  /\ UNCHANGED <<names, inodes>> \/ Handles(c)
         /\ UNCHANGED keys \/ OpenKey(c) \/ WriteKey(c) \/ ProtectKey(c)
         /\ UNCHANGED harness \/ StartHarness(c)
         /\ \/ UNCHANGED told
            \/ CallWrite(c) \/ CallCreate(c) \/ RereadDaily(c) \/ Configured(c) \/ ProtectKey(c)
<1>1. ASSUME \/ CallWrite(c) \/ CallWriteBad(c) \/ CallShow(c) \/ CallCreate(c) \/ CallStack(c)
      PROVE  /\ UNCHANGED <<names, inodes, keys, harness>>
             /\ CallWrite(c) \/ CallCreate(c) \/ UNCHANGED told
  BY <1>1 DEF CallWrite, CallWriteBad, CallShow, CallCreate, CallStack, Begin
<1>2. ASSUME Handles(c)
      PROVE  UNCHANGED <<keys, harness, told>>
  BY <1>2 DEF Handles, OpenTemporary, WriteTemporary, WriteFails, ChmodTemporary, Replace, Protect
<1>3. ASSUME RereadDaily(c) \/ Configured(c) \/ ReadConfigured(c) \/ ReadStatus(c) \/ CheckKey(c)
      PROVE  /\ UNCHANGED <<names, inodes, keys, harness>>
             /\ RereadDaily(c) \/ Configured(c) \/ UNCHANGED told
  BY <1>3 DEF RereadDaily, Configured, ReadConfigured, ReadStatus, CheckKey
<1>4. ASSUME CreateKey(c) \/ OpenKey(c) \/ WriteKey(c) \/ ProtectKey(c)
      PROVE  /\ UNCHANGED <<names, inodes, harness>>
             /\ OpenKey(c) \/ WriteKey(c) \/ ProtectKey(c) \/ UNCHANGED keys
             /\ ProtectKey(c) \/ UNCHANGED told
  BY <1>4 DEF CreateKey, OpenKey, WriteKey, ProtectKey
<1>5. ASSUME \/ CollectStatus(c) \/ AskStatus(c) \/ AskReadiness(c) \/ HarnessDeadline(c)
             \/ HarnessStartEnv(c) \/ StartHarness(c) \/ ProbeGateway(c) \/ StartGateway(c)
             \/ WaitForGateway(c) \/ Kill(c)
      PROVE  /\ UNCHANGED <<names, inodes, keys, told>>
             /\ StartHarness(c) \/ UNCHANGED harness
  BY <1>5 DEF CollectStatus, AskStatus, AskReadiness, HarnessDeadline, HarnessStartEnv,
     StartHarness, ProbeGateway, StartGateway, WaitForGateway, Kill
<1> QED  BY <1>1, <1>2, <1>3, <1>4, <1>5 DEF Steps, Handles

\* A step is one caller's, or one of the processes that are external.
LEMMA Movers ==
  ASSUME [Next]_vars
  PROVE  \/ \E c \in Callers : Steps(c)
         \/ /\ UNCHANGED <<names, inodes, keys, job, told>>
            /\ HarnessBoots \/ ProcessStops \/ UNCHANGED harness
<1>1. (\E c \in Callers : Steps(c)) \/ HarnessBoots \/ GatewayBoots \/ ProcessStops
      \/ UNCHANGED vars
  BY DEF Next, Steps
<1> QED  BY <1>1 DEF HarnessBoots, GatewayBoots, ProcessStops, vars

LEMMA Footprints ==
  ASSUME [Next]_vars
  PROVE  /\ UNCHANGED <<names, inodes>> \/ \E c \in Callers : Handles(c)
         /\ UNCHANGED keys \/ \E c \in Callers : OpenKey(c) \/ WriteKey(c) \/ ProtectKey(c)
         /\ UNCHANGED harness \/ (\E c \in Callers : StartHarness(c))
            \/ HarnessBoots \/ ProcessStops
         /\ \/ UNCHANGED told
            \/ \E c \in Callers : \/ CallWrite(c) \/ CallCreate(c) \/ RereadDaily(c)
                                  \/ Configured(c) \/ ProtectKey(c)
BY Movers, Footprint

\* A call keeps its type when a field of it is replaced.
LEMMA Fields ==
  /\ \A j \in Calls, v \in Ops : [j EXCEPT !.op = v] \in Calls
  /\ \A j \in Calls, v \in Stages : [j EXCEPT !.stage = v] \in Calls
  /\ \A j \in Calls, v \in Configs : [j EXCEPT !.file = v] \in Calls
  /\ \A j \in Calls, v \in Documents \cup {None} : [j EXCEPT !.doc = v] \in Calls
  /\ \A j \in Calls, v \in NamedKeys : [j EXCEPT !.key = v] \in Calls
  /\ \A j \in Calls, v \in BOOLEAN : [j EXCEPT !.force = v] \in Calls
  /\ \A j \in Calls, v \in Int : [j EXCEPT !.secret = v] \in Calls
  /\ \A j \in Calls, v \in Nat : [j EXCEPT !.inode = v] \in Calls
  /\ \A j \in Calls, v \in BOOLEAN : [j EXCEPT !.configured = v] \in Calls
  /\ \A j \in Calls, v \in {None} \cup Harnesses \cup Documents : [j EXCEPT !.seen = v] \in Calls
  /\ \A j \in Calls, v \in Probes : [j EXCEPT !.probe = v] \in Calls
  /\ \A j \in Calls, v \in BOOLEAN : [j EXCEPT !.waiting = v] \in Calls
  /\ \A j \in Calls, v \in Images : [j EXCEPT !.image = v] \in Calls
  /\ \A j \in Calls, v \in Documents \cup {None} : [j EXCEPT !.promise = v] \in Calls
  /\ \A j \in Calls, v \in BOOLEAN : [j EXCEPT !.alone = v] \in Calls
  /\ \A j \in Calls, v \in Statuses : [j EXCEPT !.status = v] \in Calls
BY DEF Calls

LEMMA ConfigsRead ==
  ASSUME Apart
  PROVE  /\ ReadModelConfig \in ModelDocuments \cup {None}
         /\ ReadDailyConfig \in DailyDocuments \cup {None}
BY PathFacts DEF Apart, DocsApart, Of, ReadModelConfig, ReadDailyConfig

LEMMA JobTyped ==
  ASSUME Typed, Given, Apart, [Next]_vars
  PROVE  job' \in [Callers -> Calls]
<1> job \in [Callers -> Calls] /\ used.keys \in Nat
  BY DEF Typed
<1> USE Fields, Names
<1>1. CASE UNCHANGED vars \/ HarnessBoots \/ GatewayBoots \/ ProcessStops
  BY <1>1 DEF vars, HarnessBoots, GatewayBoots, ProcessStops
<1>2. ASSUME NEW c \in Callers, CallWrite(c) PROVE job' \in [Callers -> Calls]
  <2>1. PICK f \in used.menu.files, doc \in DailyDocuments \cup ModelDocuments :
          /\ doc \in Of(f)
          /\ job' = [Disturb(job, f) EXCEPT ![c] =
             [Idle EXCEPT !.op = "write", !.file = f, !.doc = doc, !.stage = "open",
                          !.key = IF f = "model" THEN doc.key ELSE None,
                          !.alone = Writers(f) = {}]]
    BY <1>2 DEF CallWrite, Of
  <2>2. f \in Configs /\ doc \in Documents
    BY <2>1, PathFacts, HostAssumption DEF Typed, Documents
  <2>3. Disturb(job, f) \in [Callers -> Calls]
    BY DEF Disturb
  <2> DEFINE key == IF f = "model" THEN doc.key ELSE None
             alone == Writers(f) = {}
  <2>4. key \in NamedKeys /\ alone \in BOOLEAN
    BY <2>1, HostAssumption DEF NamedKeys, Of
  <2> HIDE DEF key, alone
  <2>5. [Idle EXCEPT !.op = "write", !.file = f, !.doc = doc, !.stage = "open", !.key = key,
                     !.alone = alone] \in Calls
    BY <2>2, <2>4, IdleCall
  <2> QED  BY <2>1, <2>3, <2>5 DEF key, alone
<1>3. ASSUME NEW c \in Callers, CallCreate(c) PROVE job' \in [Callers -> Calls]
  <2>1. PICK key \in KeyFiles, force \in BOOLEAN :
          job' = [d \in Callers |->
                 IF d = c THEN [Idle EXCEPT !.op = "create", !.stage = "exists", !.key = key,
                                            !.force = force,
                                            !.alone = \A e \in Creators(key) : ~ job[e].force]
                 ELSE IF force /\ d \in Creators(key) THEN [job[d] EXCEPT !.alone = FALSE]
                 ELSE job[d]]
    BY <1>3 DEF CallCreate
  <2> DEFINE alone == \A e \in Creators(key) : ~ job[e].force
  <2>2. key \in NamedKeys /\ alone \in BOOLEAN
    BY DEF NamedKeys
  <2> HIDE DEF alone
  <2>3. [Idle EXCEPT !.op = "create", !.stage = "exists", !.key = key, !.force = force,
                     !.alone = alone] \in Calls
    BY <2>2, IdleCall
  <2>4. \A d \in Callers : [job[d] EXCEPT !.alone = FALSE] \in Calls
    OBVIOUS
  <2> QED  BY <2>1, <2>3, <2>4 DEF alone
<1>4. ASSUME NEW c \in Callers, NEW stage \in Stages, Goto(c, stage)
      PROVE  job' \in [Callers -> Calls]
  BY <1>4 DEF Goto
<1>5. ASSUME NEW c \in Callers, NEW status \in Statuses, Finish(c, status)
      PROVE  job' \in [Callers -> Calls]
  BY <1>5 DEF Finish
<1>6. ASSUME NEW c \in Callers, CallWriteBad(c) \/ CallShow(c) \/ CallStack(c)
      PROVE  job' \in [Callers -> Calls]
  <2>1. KeyFiles \cup {None} \subseteq NamedKeys /\ Environments \subseteq Images
    BY DEF NamedKeys, Images
  <2>2. told.promise \in Documents \cup {None}
    BY DEF Typed
  <2>3. CASE CallWriteBad(c)
    <3>1. \A b \in BOOLEAN : [Idle EXCEPT !.op = "show", !.stage = "status", !.force = b] \in Calls
      BY IdleCall
    <3>2. [Idle EXCEPT !.op = "write", !.status = "error"] \in Calls
      BY IdleCall
    <3> QED  BY <2>3, <3>1, <3>2 DEF CallWriteBad
  <2>4. CASE CallShow(c)
    <3>1. \A k \in NamedKeys :
            [Idle EXCEPT !.op = "show", !.stage = "configured", !.key = k] \in Calls
      BY IdleCall
    <3>2. PICK k \in NamedKeys :
            job' = [job EXCEPT ![c] = [Idle EXCEPT !.op = "show", !.stage = "configured", !.key = k]]
      BY <2>4 DEF CallShow, NamedKeys
    <3> QED  BY <3>1, <3>2
  <2>5. CASE CallStack(c)
    <3>1. \A b \in BOOLEAN, i \in Images :
            [Idle EXCEPT !.op = "stack", !.stage = "collect", !.force = b, !.image = i,
                         !.promise = told.promise] \in Calls
      BY <2>2, IdleCall
    <3>2. PICK b \in BOOLEAN, i \in Environments :
            job' = [job EXCEPT ![c] = [Idle EXCEPT !.op = "stack", !.stage = "collect",
                                         !.force = b, !.image = i, !.promise = told.promise]]
      BY <2>5 DEF CallStack
    <3> QED  BY <2>1, <3>1, <3>2
  <2> QED  BY <1>6, <2>3, <2>4, <2>5
<1>7. ASSUME NEW c \in Callers, OpenTemporary(c) PROVE job' \in [Callers -> Calls]
  <2>1. job[c].file \in Configs
    BY DEF Calls
  <2>2. Temporary(job[c].file) \in Paths
    BY <2>1, PathFacts
  <2>3. names[Temporary(job[c].file)] \in Nat \cup {None}
    BY <2>2 DEF Typed
  <2>4. Len(inodes) + 1 \in Nat
    BY DEF Typed
  <2>5. PICK i \in Nat : job' = [job EXCEPT ![c].stage = "write", ![c].inode = i]
    BY <1>7, <2>3, <2>4 DEF OpenTemporary
  <2> QED  BY <2>5
<1>8. ASSUME NEW c \in Callers,
             \/ WriteTemporary(c) \/ WriteFails(c) \/ ChmodTemporary(c) \/ Replace(c)
             \/ Protect(c) \/ RereadDaily(c)
      PROVE  job' \in [Callers -> Calls]
  BY <1>4, <1>5, <1>8 DEF WriteTemporary, WriteFails, ChmodTemporary, Replace, Protect, RereadDaily
<1>9. ASSUME NEW c \in Callers, Configured(c) \/ ReadConfigured(c) \/ ReadStatus(c)
      PROVE  job' \in [Callers -> Calls]
  <2>1. (ReadModelConfig # None) \in BOOLEAN
    OBVIOUS
  <2>2. CASE Configured(c)
    BY <2>2 DEF Configured
  <2>3. CASE ReadConfigured(c)
    BY <2>3, <2>1 DEF ReadConfigured
  <2>4. CASE ReadStatus(c)
    <3>1. PICK probe \in Probes :
            job' = [job EXCEPT ![c].stage = "key", ![c].seen = ReadModelConfig, ![c].probe = probe]
      BY <2>4 DEF ReadStatus
    <3>2. ReadModelConfig \in {None} \cup Harnesses \cup Documents
      BY ConfigsRead DEF Documents
    <3> HIDE DEF ReadModelConfig
    <3> QED  BY <3>1, <3>2
  <2> QED  BY <1>9, <2>2, <2>3, <2>4
<1>10. ASSUME NEW c \in Callers, CheckKey(c) PROVE job' \in [Callers -> Calls]
  <2> DEFINE path == IF job[c].key # None \/ job[c].seen = None THEN job[c].key
                     ELSE job[c].seen.key
             key  == IF path = None THEN NoKey ELSE ReadKey(path)
  <2>1. path \in NamedKeys
    <3>1. job[c].key \in NamedKeys
      BY DEF Calls
    <3>2. job[c].seen \in ModelDocuments \cup {None}
      BY <1>10 DEF CheckKey, At, Given, GivenTo
    <3>3. \A d \in ModelDocuments : d.key \in NamedKeys
      BY HostAssumption DEF NamedKeys
    <3> QED  BY <3>1, <3>2, <3>3
  <2>2. key \in Int
    <3>1. \A k \in KeyFiles : keys[k] # None => keys[k].secret \in Int
      BY DEF Typed, Keys
    <3> HIDE DEF path
    <3> QED  BY <2>1, <3>1 DEF key, ReadKey, NamedKeys, NoKey
  <2>3. PICK status \in Statuses :
          job' = [job EXCEPT ![c].stage = "done", ![c].key = path, ![c].secret = key,
                    ![c].status = status]
    BY <1>10 DEF CheckKey
  <2> HIDE DEF path, key
  <2> QED  BY <2>1, <2>2, <2>3
<1>11. ASSUME NEW c \in Callers,
              CreateKey(c) \/ OpenKey(c) \/ WriteKey(c) \/ ProtectKey(c)
       PROVE  job' \in [Callers -> Calls]
  <2>1. CASE CreateKey(c) \/ OpenKey(c)
    BY <2>1, <1>4, <1>5 DEF CreateKey, OpenKey
  <2>2. CASE WriteKey(c)
    <3>1. used.keys + 1 \in Int
      OBVIOUS
    <3> QED  BY <2>2, <3>1 DEF WriteKey
  <2>3. CASE ProtectKey(c)
    BY <2>3, <1>5 DEF ProtectKey
  <2> QED  BY <1>11, <2>1, <2>2, <2>3
<1>12. ASSUME NEW c \in Callers,
              \/ CollectStatus(c) \/ AskStatus(c) \/ AskReadiness(c) \/ HarnessDeadline(c)
              \/ StartHarness(c) \/ ProbeGateway(c) \/ StartGateway(c)
              \/ WaitForGateway(c) \/ Kill(c)
       PROVE  job' \in [Callers -> Calls]
  <2>1. CASE AskStatus(c) \/ HarnessDeadline(c) \/ StartHarness(c)
    <3>1. harness \in {None} \cup Harnesses
      BY DEF Typed
    <3>2. CASE AskStatus(c)
      BY <3>1, <3>2 DEF AskStatus
    <3>3. CASE HarnessDeadline(c)
      BY <3>3 DEF HarnessDeadline
    <3>4. CASE StartHarness(c)
      BY <3>4 DEF StartHarness
    <3> QED  BY <2>1, <3>2, <3>3, <3>4
  <2>2. CASE CollectStatus(c) \/ AskReadiness(c) \/ ProbeGateway(c)
    BY <2>2, <1>4, <1>5 DEF CollectStatus, AskReadiness, ProbeGateway
  <2>3. CASE StartGateway(c) \/ WaitForGateway(c) \/ Kill(c)
    BY <2>3, <1>4, <1>5 DEF StartGateway, WaitForGateway, Kill
  <2> QED  BY <1>12, <2>1, <2>2, <2>3
<1>13. ASSUME NEW c \in Callers, HarnessStartEnv(c) PROVE job' \in [Callers -> Calls]
  <2>1. \A d \in Documents : d.image \in Images
    BY DEF Images
  <2>2. job[c].image \in Images
    BY DEF Calls
  <2>3. ReadDailyConfig # None => ReadDailyConfig.image \in Images
    BY <2>1, ConfigsRead DEF Documents
  <2>4. PICK i \in Images : job' = [job EXCEPT ![c].stage = "spawn", ![c].image = i]
    BY <1>13, <2>2, <2>3 DEF HarnessStartEnv
  <2> QED  BY <2>4
<1> QED  BY <1>1, <1>2, <1>3, <1>6, <1>7, <1>8, <1>9, <1>10, <1>11, <1>12, <1>13 DEF Next

\* The paths of a call's configuration.
LEMMA CallPaths ==
  ASSUME Typed, NEW c \in Callers
  PROVE  /\ job[c].file \in Configs
         /\ job[c].file \in Paths /\ Temporary(job[c].file) \in Paths
         /\ job[c].file # Temporary(job[c].file)
<1>1. job[c].file \in Configs
  BY DEF Typed, Calls
<1> QED  BY <1>1, PathFacts

\* What a file is after its text or its mode is replaced.
LEMMA FileFields ==
  ASSUME NEW file \in Files
  PROVE  /\ \A t \in Texts : [file EXCEPT !.text = t] \in Files
         /\ \A t \in Texts : [file EXCEPT !.text = t].text = t
         /\ \A t \in Texts : [file EXCEPT !.text = t].private = file.private
         /\ [file EXCEPT !.private = TRUE] \in Files
         /\ [file EXCEPT !.private = TRUE].text = file.text
         /\ [file EXCEPT !.private = TRUE].private = TRUE
         /\ file.text \in Texts /\ file.text.length \in Nat
         /\ file.text.doc \in Documents \cup {None}
BY DEF Files, Texts

LEMMA WrittenTexts ==
  /\ EmptyText \in Texts
  /\ \A t \in Texts, d \in Documents : Overwrite(t, d) \in Texts /\ Overwrite(t, d).doc = d
  /\ \A t \in Texts : [doc |-> None, length |-> Larger(t.length, 1)] \in Texts
BY HostAssumption DEF EmptyText, Texts, Overwrite, Larger, Documents

\* The file names and the files keep their types; no two names have one file.
FilesTyped ==
  /\ names \in [Paths -> {None} \cup Nat]
  /\ inodes \in Seq(Files)
  /\ \A p \in Paths : names[p] # None => names[p] \in DOMAIN inodes
  /\ \A p, q \in Paths : names[p] = names[q] /\ names[p] # None => p = q

LEMMA FilesTypedStep ==
  ASSUME Typed, Given, [Next]_vars
  PROVE  FilesTyped' /\ Len(inodes') >= Len(inodes)
<1> FilesTyped
  BY DEF Typed, FilesTyped
<1> Len(inodes) \in Nat /\ DOMAIN inodes = 1 .. Len(inodes)
  BY DEF FilesTyped
<1>1. CASE UNCHANGED <<names, inodes>>
  BY <1>1 DEF FilesTyped
<1>2. ASSUME NEW i \in DOMAIN inodes, NEW file \in Files, UNCHANGED names,
             inodes' = [inodes EXCEPT ![i] = file]
      PROVE  FilesTyped' /\ Len(inodes') >= Len(inodes)
  BY <1>2, ReplaceElement DEF FilesTyped
<1>3. ASSUME NEW c \in Callers, OpenTemporary(c)
      PROVE  FilesTyped' /\ Len(inodes') >= Len(inodes)
  <2> DEFINE tmp == Temporary(job[c].file)
  <2>1. tmp \in Paths
    BY CallPaths
  <2> HIDE DEF tmp
  <2>2. CASE names[tmp] = None
    <3>1. /\ inodes' = Append(inodes, [text |-> EmptyText, private |-> FALSE])
          /\ names' = [names EXCEPT ![tmp] = Len(inodes) + 1]
      BY <1>3, <2>2 DEF OpenTemporary, tmp
    <3>2. [text |-> EmptyText, private |-> FALSE] \in Files
      BY WrittenTexts DEF Files
    <3>3. inodes' \in Seq(Files) /\ Len(inodes') = Len(inodes) + 1
      BY <3>1, <3>2 DEF FilesTyped
    <3>4. \A p \in Paths : names[p] # Len(inodes) + 1
      BY HostAssumption DEF FilesTyped
    <3> QED  BY <2>1, <3>1, <3>3, <3>4 DEF FilesTyped
  <2>3. CASE names[tmp] # None
    <3>1. /\ inodes' = [inodes EXCEPT ![names[tmp]] = [inodes[names[tmp]] EXCEPT !.text = EmptyText]]
          /\ names' = names
      BY <1>3, <2>3 DEF OpenTemporary, tmp
    <3>2. names[tmp] \in DOMAIN inodes
      BY <2>1, <2>3 DEF FilesTyped
    <3>3. [inodes[names[tmp]] EXCEPT !.text = EmptyText] \in Files
      <4>1. inodes[names[tmp]] \in Files
        BY <3>2 DEF FilesTyped
      <4> QED  BY <4>1, FileFields, WrittenTexts
    <3>4. PICK file \in Files : file = [inodes[names[tmp]] EXCEPT !.text = EmptyText]
      BY <3>3
    <3> QED  BY <1>2, <3>1, <3>2, <3>4
  <2> QED  BY <2>2, <2>3
<1>4. ASSUME NEW c \in Callers, WriteTemporary(c) \/ WriteFails(c)
      PROVE  FilesTyped' /\ Len(inodes') >= Len(inodes)
  <2>1. job[c].inode \in DOMAIN inodes /\ job[c].doc \in Documents
    BY <1>4 DEF WriteTemporary, WriteFails, At, Given, GivenTo, Of, Documents
  <2>2. inodes[job[c].inode] \in Files
    BY <2>1 DEF FilesTyped
  <2>3. PICK t \in Texts :
          inodes' = [inodes EXCEPT ![job[c].inode] = [inodes[job[c].inode] EXCEPT !.text = t]]
    <3>1. inodes[job[c].inode].text \in Texts
      BY <2>2, FileFields
    <3> QED  BY <1>4, <2>1, <3>1, WrittenTexts DEF WriteTemporary, WriteFails
  <2>4. UNCHANGED names
    BY <1>4 DEF WriteTemporary, WriteFails
  <2> QED  BY <1>2, <2>1, <2>2, <2>3, <2>4, FileFields
<1>5. ASSUME NEW p \in Paths, names[p] # None, UNCHANGED names,
             inodes' = [inodes EXCEPT ![names[p]].private = TRUE]
      PROVE  FilesTyped' /\ Len(inodes') >= Len(inodes)
  <2>1. names[p] \in DOMAIN inodes /\ inodes[names[p]] \in Files
    BY <1>5 DEF FilesTyped
  <2> QED  BY <1>2, <1>5, <2>1, FileFields
<1>6. ASSUME NEW c \in Callers, ChmodTemporary(c)
      PROVE  FilesTyped' /\ Len(inodes') >= Len(inodes)
  BY <1>1, <1>5, <1>6, CallPaths DEF ChmodTemporary
<1>7. ASSUME NEW c \in Callers, Protect(c)
      PROVE  FilesTyped' /\ Len(inodes') >= Len(inodes)
  BY <1>5, <1>7, CallPaths DEF Protect, At, Given, GivenTo
<1>8. ASSUME NEW c \in Callers, Replace(c)
      PROVE  FilesTyped' /\ Len(inodes') >= Len(inodes)
  <2> DEFINE f == job[c].file
             tmp == Temporary(f)
  <2>1. f \in Paths /\ tmp \in Paths /\ f # tmp
    BY CallPaths
  <2>2. CASE names[tmp] = None
    BY <1>1, <1>8, <2>2 DEF Replace
  <2>3. CASE names[tmp] # None
    <3>1. inodes' = inodes /\ names' = [names EXCEPT ![f] = names[tmp], ![tmp] = None]
      BY <1>8, <2>3 DEF Replace
    <3> HIDE DEF f, tmp
    <3> QED  BY <2>1, <2>3, <3>1 DEF FilesTyped
  <2> QED  BY <2>2, <2>3
<1> QED  BY <1>1, <1>3, <1>4, <1>6, <1>7, <1>8, Footprints DEF Handles

\* Two calls that differ in their history at most.
SameCall(j, k) ==
  /\ k.op = j.op /\ k.stage = j.stage /\ k.file = j.file /\ k.doc = j.doc /\ k.key = j.key
  /\ k.force = j.force /\ k.secret = j.secret /\ k.inode = j.inode
  /\ k.configured = j.configured /\ k.seen = j.seen /\ k.waiting = j.waiting
  /\ k.image = j.image /\ k.status = j.status

\* Only the caller whose step it is gets on; a call that begins touches the
\* history of the others.
LEMMA OthersStay ==
  ASSUME job \in [Callers -> Calls], NEW c \in Callers, Steps(c), NEW d \in Callers, d # c
  PROVE  /\ SameCall(job[d], job'[d])
         /\ CallWrite(c) \/ CallCreate(c) \/ job'[d] = job[d]
<1>1. CASE CallWrite(c)
  <2>1. PICK f \in used.menu.files : job'[d] = Disturb(job, f)[d]
    BY <1>1 DEF CallWrite, Disturb
  <2>2. Disturb(job, f)[d] \in {job[d], [job[d] EXCEPT !.promise = None],
                                [job[d] EXCEPT !.alone = FALSE]}
    BY DEF Disturb
  <2> QED  BY <1>1, <2>1, <2>2 DEF SameCall, Calls
<1>2. CASE CallCreate(c)
  <2>1. job'[d] \in {job[d], [job[d] EXCEPT !.alone = FALSE]}
    BY <1>2 DEF CallCreate
  <2> QED  BY <1>2, <2>1 DEF SameCall, Calls
<1>3. CASE ~ CallWrite(c) /\ ~ CallCreate(c)
  <2>1. ASSUME CallWriteBad(c) \/ CallShow(c) \/ CallStack(c) PROVE job'[d] = job[d]
    BY <2>1 DEF CallWriteBad, CallShow, CallStack
  <2>2. ASSUME \/ OpenTemporary(c) \/ WriteTemporary(c) \/ WriteFails(c) \/ ChmodTemporary(c)
               \/ Replace(c) \/ Protect(c) \/ RereadDaily(c) \/ Configured(c)
        PROVE  job'[d] = job[d]
    BY <2>2 DEF OpenTemporary, WriteTemporary, WriteFails, ChmodTemporary, Replace, Protect,
       RereadDaily, Configured, Goto, Finish
  <2>3. ASSUME \/ ReadConfigured(c) \/ ReadStatus(c) \/ CheckKey(c)
               \/ CreateKey(c) \/ OpenKey(c) \/ WriteKey(c) \/ ProtectKey(c)
        PROVE  job'[d] = job[d]
    BY <2>3 DEF ReadConfigured, ReadStatus, CheckKey, CreateKey, OpenKey, WriteKey, ProtectKey,
       Goto, Finish
  <2>4. ASSUME \/ CollectStatus(c) \/ AskStatus(c) \/ AskReadiness(c) \/ HarnessDeadline(c)
               \/ HarnessStartEnv(c) \/ StartHarness(c) \/ ProbeGateway(c) \/ StartGateway(c)
               \/ WaitForGateway(c) \/ Kill(c)
        PROVE  job'[d] = job[d]
    BY <2>4 DEF CollectStatus, AskStatus, AskReadiness, HarnessDeadline, HarnessStartEnv,
       StartHarness, ProbeGateway, StartGateway, WaitForGateway, Kill, Goto, Finish
  <2>5. job'[d] = job[d]
    BY <1>3, <2>1, <2>2, <2>3, <2>4 DEF Steps
  <2> QED  BY <1>3, <2>5 DEF SameCall
<1> QED  BY <1>1, <1>2, <1>3

\* What a call is when it begins.
LEMMA WriteBegun ==
  ASSUME job \in [Callers -> Calls], NEW c \in Callers, CallWrite(c)
  PROVE  \E f \in used.menu.files, doc \in Documents :
           /\ doc \in Of(f)
           /\ job'[c].op = "write" /\ job'[c].stage = "open" /\ job'[c].file = f
           /\ job'[c].doc = doc /\ job'[c].promise = None
           /\ (job'[c].alone <=> Writers(f) = {})
           /\ \A d \in Callers : d # c => job'[d] = Disturb(job, f)[d]
           /\ told' = [told EXCEPT
                !.standing[f] = IF @ = {} \/ Writers(f) # {} THEN {} ELSE @ \cup {doc},
                !.promise = IF f = "daily" THEN None ELSE @]
<1>1. PICK f \in used.menu.files, doc \in Documents :
        /\ doc \in Of(f)
        /\ job' = [Disturb(job, f) EXCEPT ![c] =
                 [Idle EXCEPT !.op = "write", !.file = f, !.doc = doc, !.stage = "open",
                              !.key = IF f = "model" THEN doc.key ELSE None,
                              !.alone = Writers(f) = {}]]
        /\ told' = [told EXCEPT
                !.standing[f] = IF @ = {} \/ Writers(f) # {} THEN {} ELSE @ \cup {doc},
                !.promise = IF f = "daily" THEN None ELSE @]
  BY DEF CallWrite, Of, Documents
<1>2. DOMAIN Disturb(job, f) = Callers
  BY DEF Disturb
<1> DEFINE alone == Writers(f) = {}
           key == IF f = "model" THEN doc.key ELSE None
<1> HIDE DEF alone, key
<1>3. job'[c] = [Idle EXCEPT !.op = "write", !.file = f, !.doc = doc, !.stage = "open",
                             !.key = key, !.alone = alone]
  BY <1>1, <1>2 DEF alone, key
<1>4. /\ job'[c].op = "write" /\ job'[c].stage = "open" /\ job'[c].file = f
      /\ job'[c].doc = doc /\ job'[c].promise = None
  BY <1>3 DEF Idle
<1>5. job'[c].alone = alone
  BY <1>3 DEF Idle
<1>6. \A d \in Callers : d # c => job'[d] = Disturb(job, f)[d]
  BY <1>1, <1>2
<1> QED  BY <1>1, <1>4, <1>5, <1>6 DEF alone

LEMMA OthersBegun ==
  ASSUME job \in [Callers -> Calls], NEW c \in Callers
  PROVE  /\ CallWriteBad(c) /\ job'[c].stage # "done" =>
              job'[c].op = "show" /\ job'[c].stage = "status" /\ job'[c].doc = None
         /\ CallShow(c) =>
              job'[c].op = "show" /\ job'[c].stage = "configured" /\ job'[c].doc = None
         /\ CallCreate(c) =>
              \E key \in KeyFiles, force \in BOOLEAN :
                /\ job'[c].op = "create" /\ job'[c].stage = "exists" /\ job'[c].key = key
                /\ job'[c].force = force
                /\ job'[c].alone <=> \A e \in Creators(key) : ~ job[e].force
                /\ \A d \in Callers : d # c =>
                     job'[d] = IF force /\ d \in Creators(key) THEN [job[d] EXCEPT !.alone = FALSE]
                               ELSE job[d]
                /\ told' = IF force THEN [told EXCEPT !.key[key] = NoKey] ELSE told
         /\ CallStack(c) =>
              /\ job'[c].op = "stack" /\ job'[c].stage = "collect"
              /\ job'[c].image \in Environments /\ job'[c].promise = told.promise
              /\ ~ job'[c].waiting
<1>1. CallWriteBad(c) /\ job'[c].stage # "done" =>
        job'[c].op = "show" /\ job'[c].stage = "status" /\ job'[c].doc = None
  <2> SUFFICES ASSUME CallWriteBad(c), job'[c].stage # "done"
               PROVE  job'[c].op = "show" /\ job'[c].stage = "status" /\ job'[c].doc = None
    OBVIOUS
  <2>1. job'[c] \in {[Idle EXCEPT !.op = "write", !.status = "error"],
                     [Idle EXCEPT !.op = "show", !.stage = "status", !.force = TRUE]}
    BY DEF CallWriteBad
  <2> QED  BY <2>1 DEF Idle
<1>2. ASSUME CallShow(c)
      PROVE  job'[c].op = "show" /\ job'[c].stage = "configured" /\ job'[c].doc = None
  <2>1. PICK key : job'[c] = [Idle EXCEPT !.op = "show", !.stage = "configured", !.key = key]
    BY <1>2 DEF CallShow
  <2> QED  BY <2>1 DEF Idle
<1>3. ASSUME CallCreate(c)
      PROVE  \E key \in KeyFiles, force \in BOOLEAN :
                /\ job'[c].op = "create" /\ job'[c].stage = "exists" /\ job'[c].key = key
                /\ job'[c].force = force
                /\ job'[c].alone <=> \A e \in Creators(key) : ~ job[e].force
                /\ \A d \in Callers : d # c =>
                     job'[d] = IF force /\ d \in Creators(key) THEN [job[d] EXCEPT !.alone = FALSE]
                               ELSE job[d]
                /\ told' = IF force THEN [told EXCEPT !.key[key] = NoKey] ELSE told
  <2>1. PICK key \in KeyFiles, force \in BOOLEAN :
          /\ job' = [d \in Callers |->
                 IF d = c THEN [Idle EXCEPT !.op = "create", !.stage = "exists", !.key = key,
                                            !.force = force,
                                            !.alone = \A e \in Creators(key) : ~ job[e].force]
                 ELSE IF force /\ d \in Creators(key) THEN [job[d] EXCEPT !.alone = FALSE]
                 ELSE job[d]]
          /\ told' = IF force THEN [told EXCEPT !.key[key] = NoKey] ELSE told
    BY <1>3 DEF CallCreate
  <2> DEFINE alone == \A e \in Creators(key) : ~ job[e].force
  <2> HIDE DEF alone
  <2>2. job'[c] = [Idle EXCEPT !.op = "create", !.stage = "exists", !.key = key,
                               !.force = force, !.alone = alone]
    BY <2>1 DEF alone
  <2>3. /\ job'[c].op = "create" /\ job'[c].stage = "exists" /\ job'[c].key = key
        /\ job'[c].force = force
    BY <2>2 DEF Idle
  <2>4. job'[c].alone = alone
    BY <2>2 DEF Idle
  <2>5. \A d \in Callers : d # c =>
          job'[d] = IF force /\ d \in Creators(key) THEN [job[d] EXCEPT !.alone = FALSE]
                    ELSE job[d]
    BY <2>1
  <2> QED  BY <2>1, <2>3, <2>4, <2>5 DEF alone
<1>4. ASSUME CallStack(c)
      PROVE  /\ job'[c].op = "stack" /\ job'[c].stage = "collect"
             /\ job'[c].image \in Environments /\ job'[c].promise = told.promise
             /\ ~ job'[c].waiting
  <2>1. PICK check \in BOOLEAN, image \in Environments :
          job'[c] = [Idle EXCEPT !.op = "stack", !.stage = "collect", !.force = check,
                                 !.image = image, !.promise = told.promise]
    BY <1>4 DEF CallStack
  <2> QED  BY <2>1 DEF Idle
<1> QED  BY <1>1, <1>2, <1>3, <1>4

\* What others do to the history of a call: they take back what it claims.
LEMMA OthersHistory ==
  ASSUME job \in [Callers -> Calls], NEW c \in Callers, Steps(c), NEW d \in Callers, d # c
  PROVE  /\ job'[d].alone => job[d].alone
         /\ job'[d].promise # None => job'[d].promise = job[d].promise
         /\ CallWrite(c) /\ job'[c].file = "daily" /\ job[d].op = "stack" =>
              job'[d].promise = None
<1>1. CASE CallWrite(c)
  <2>1. PICK f \in used.menu.files : job'[c].file = f /\ job'[d] = Disturb(job, f)[d]
    BY <1>1, WriteBegun
  <2> QED  BY <2>1 DEF Disturb, Calls
<1>2. CASE CallCreate(c)
  <2>1. job'[d] \in {job[d], [job[d] EXCEPT !.alone = FALSE]}
    BY <1>2, OthersBegun
  <2>2. ~ CallWrite(c)
    BY <1>2, OthersBegun, WriteBegun
  <2> QED  BY <2>1, <2>2 DEF Calls
<1>3. CASE job'[d] = job[d] /\ ~ CallWrite(c)
  BY <1>3
<1> QED  BY <1>1, <1>2, <1>3, OthersStay

\* Which step brings a call to a stage, and what the step leaves of the call.
LEMMA Onward ==
  ASSUME job \in [Callers -> Calls], NEW c \in Callers, Steps(c), job'[c].stage # "done"
  PROVE  /\ job'[c].op = "write" =>
              \/ CallWrite(c)
              \/ OpenTemporary(c) /\ job'[c].stage = "write"
              \/ WriteTemporary(c) /\ job'[c].stage = "chmod"
              \/ ChmodTemporary(c) /\ job'[c].stage = "replace"
              \/ Replace(c) /\ job'[c].stage = "protect"
              \/ Protect(c) /\ job'[c].stage = "reread"
         /\ job'[c].op = "show" =>
              \/ CallWriteBad(c) \/ CallShow(c)
              \/ Configured(c) /\ job'[c].stage = "status"
              \/ ReadConfigured(c) /\ job'[c].stage = "status"
              \/ ReadStatus(c) /\ job'[c].stage = "key"
         /\ job'[c].op = "create" =>
              \/ CallCreate(c)
              \/ CreateKey(c) /\ job'[c].stage = "open"
              \/ OpenKey(c) /\ job'[c].stage = "write"
              \/ WriteKey(c) /\ job'[c].stage = "chmod"
         /\ \/ CallWrite(c) \/ CallWriteBad(c) \/ CallShow(c) \/ CallCreate(c) \/ CallStack(c)
            \/ /\ Configured(c) \/ job'[c].op = job[c].op
               /\ job[c].stage # "done" /\ job'[c].file = job[c].file
               /\ job'[c].doc = job[c].doc /\ job'[c].key = job[c].key
               /\ job'[c].force = job[c].force /\ job'[c].alone = job[c].alone
               /\ job'[c].promise = job[c].promise
               /\ OpenTemporary(c) \/ job'[c].inode = job[c].inode
<1>1. CASE \/ CallWrite(c) \/ CallWriteBad(c) \/ CallShow(c) \/ CallCreate(c) \/ CallStack(c)
  <2>1. CallWrite(c) => job'[c].op = "write"
    BY WriteBegun
  <2>2. CallCreate(c) => job'[c].op = "create"
    BY OthersBegun
  <2>3. CallWriteBad(c) \/ CallShow(c) => job'[c].op = "show"
    BY OthersBegun
  <2>4. CallStack(c) => job'[c].op = "stack"
    BY OthersBegun
  <2> QED  BY <1>1, <2>1, <2>2, <2>3, <2>4
<1>2. CASE OpenTemporary(c)
  <2>1. PICK i : job' = [job EXCEPT ![c].stage = "write", ![c].inode = i]
    BY <1>2 DEF OpenTemporary
  <2> QED  BY <1>2, <2>1 DEF OpenTemporary, At, Calls
<1>3. CASE WriteTemporary(c) \/ WriteFails(c) \/ ChmodTemporary(c) \/ Replace(c) \/ Protect(c)
  BY <1>3 DEF WriteTemporary, WriteFails, ChmodTemporary, Replace, Protect, At, Goto, Finish, Calls
<1>4. CASE RereadDaily(c) \/ CheckKey(c) \/ Kill(c) \/ ProtectKey(c)
  BY <1>4 DEF RereadDaily, CheckKey, Kill, ProtectKey, Finish, Calls
<1>5. CASE Configured(c) \/ ReadConfigured(c) \/ ReadStatus(c)
  BY <1>5 DEF Configured, ReadConfigured, ReadStatus, At, Calls
<1>6. CASE CreateKey(c) \/ OpenKey(c) \/ WriteKey(c)
  BY <1>6 DEF CreateKey, OpenKey, WriteKey, At, Goto, Finish, Calls
<1>7. CASE CollectStatus(c) \/ AskStatus(c) \/ AskReadiness(c) \/ HarnessDeadline(c)
  BY <1>7 DEF CollectStatus, AskStatus, AskReadiness, HarnessDeadline, At, Goto, Finish, Calls
<1>8. CASE \/ HarnessStartEnv(c) \/ StartHarness(c) \/ ProbeGateway(c) \/ StartGateway(c)
           \/ WaitForGateway(c)
  BY <1>8 DEF HarnessStartEnv, StartHarness, ProbeGateway, StartGateway, WaitForGateway, At,
     Goto, Finish, Calls
<1> QED  BY <1>1, <1>2, <1>3, <1>4, <1>5, <1>6, <1>7, <1>8 DEF Steps

LEMMA KeysTyped ==
  ASSUME Typed, Given, [Next]_vars
  PROVE  /\ keys' \in [KeyFiles -> {None} \cup Keys]
         /\ \A k \in KeyFiles : keys[k] # None => keys'[k] # None
<1> keys \in [KeyFiles -> {None} \cup Keys] /\ used.keys + 1 \in Int
  BY DEF Typed
<1> DEFINE Goal == /\ keys' \in [KeyFiles -> {None} \cup Keys]
                   /\ \A k \in KeyFiles : keys[k] # None => keys'[k] # None
<1>1. \A r \in Keys, n \in Int : [r EXCEPT !.secret = n] \in Keys
  BY DEF Keys
<1>2. \A r \in Keys : [r EXCEPT !.private = TRUE] \in Keys
  BY DEF Keys
<1>3. [secret |-> NoKey, private |-> TRUE] \in Keys /\ NoKey \in Int
  BY DEF Keys, NoKey
<1>4. CASE UNCHANGED keys
  BY <1>4
<1>5. ASSUME NEW k \in KeyFiles, NEW r \in Keys, keys' = [keys EXCEPT ![k] = r] PROVE Goal
  BY <1>5, NoneFacts
<1>6. ASSUME NEW c \in Callers, OpenKey(c) PROVE Goal
  <2>1. job[c].key \in KeyFiles
    BY <1>6 DEF OpenKey, At, Given, GivenTo
  <2>2. CASE UNCHANGED keys
    BY <1>4, <2>2
  <2>3. CASE ~ UNCHANGED keys
    <3>1. PICK r \in Keys : keys' = [keys EXCEPT ![job[c].key] = r]
      BY <1>1, <1>3, <1>6, <2>1, <2>3 DEF OpenKey
    <3> QED  BY <1>5, <2>1, <3>1
  <2> QED  BY <2>2, <2>3
<1>7. ASSUME NEW c \in Callers, WriteKey(c) \/ ProtectKey(c) PROVE Goal
  <2>1. job[c].key \in KeyFiles /\ keys[job[c].key] # None
    BY <1>7 DEF WriteKey, ProtectKey, At, Given, GivenTo
  <2>2. keys[job[c].key] \in Keys
    BY <2>1
  <2>3. PICK r \in Keys : keys' = [keys EXCEPT ![job[c].key] = r]
    BY <1>1, <1>2, <1>7, <2>2 DEF WriteKey, ProtectKey
  <2> QED  BY <1>5, <2>1, <2>3
<1> QED  BY <1>4, <1>6, <1>7, Footprints

\* A configuration that is there stays there.
LEMMA NamesStay ==
  ASSUME Typed, Given, [Next]_vars, NEW f \in Configs, names[f] # None
  PROVE  names'[f] # None
<1>1. CASE UNCHANGED <<names, inodes>>
  BY <1>1
<1>2. ASSUME NEW c \in Callers, OpenTemporary(c) PROVE names'[f] # None
  <2>1. f \in Paths /\ f # Temporary(job[c].file) /\ Temporary(job[c].file) \in Paths
    BY CallPaths, PathFacts
  <2> QED  BY <1>2, <2>1 DEF OpenTemporary, Typed
<1>3. ASSUME NEW c \in Callers, WriteTemporary(c) \/ WriteFails(c) \/ ChmodTemporary(c) \/ Protect(c)
      PROVE  names'[f] # None
  BY <1>3 DEF WriteTemporary, WriteFails, ChmodTemporary, Protect
<1>4. ASSUME NEW c \in Callers, Replace(c) PROVE names'[f] # None
  <2>1. f \in Paths /\ f # Temporary(job[c].file) /\ Temporary(job[c].file) \in Paths
    BY CallPaths, PathFacts
  <2>2. CASE names[Temporary(job[c].file)] = None
    BY <1>4, <2>2 DEF Replace
  <2>3. CASE names[Temporary(job[c].file)] # None
    BY <1>4, <2>1, <2>3 DEF Replace, Typed
  <2> QED  BY <2>2, <2>3
<1> QED  BY <1>1, <1>2, <1>3, <1>4, Footprints DEF Handles

\* What a caller is given by its own step.
LEMMA GivenToMover ==
  ASSUME Typed, Given, Apart, NEW c \in Callers, Steps(c), Next
  PROVE  GivenTo(c)'
<1> job \in [Callers -> Calls] /\ GivenTo(c)
  BY DEF Typed, Given
<1>1. DOMAIN inodes \subseteq DOMAIN inodes'
  BY FilesTypedStep DEF Typed, FilesTyped
<1>2. CASE CallWrite(c)
  <2>1. PICK f \in used.menu.files, doc \in DailyDocuments \cup ModelDocuments :
          /\ doc \in Of(f)
          /\ job'[c] = [Idle EXCEPT !.op = "write", !.file = f, !.doc = doc, !.stage = "open",
                               !.key = IF f = "model" THEN doc.key ELSE None,
                               !.alone = Writers(f) = {}]
    BY <1>2 DEF CallWrite, Of, Disturb
  <2> QED  BY <2>1 DEF GivenTo, Idle
<1>3. CASE CallWriteBad(c) \/ CallShow(c) \/ CallStack(c)
  <2>1. CASE CallWriteBad(c)
    BY <2>1 DEF CallWriteBad, GivenTo, Idle
  <2>2. CASE CallShow(c)
    BY <2>2 DEF CallShow, GivenTo, Idle
  <2>3. CASE CallStack(c)
    BY <2>3 DEF CallStack, GivenTo, Idle
  <2> QED  BY <1>3, <2>1, <2>2, <2>3
<1>4. CASE CallCreate(c)
  <2>1. PICK key \in KeyFiles, force \in BOOLEAN, alone \in BOOLEAN :
          job'[c] = [Idle EXCEPT !.op = "create", !.stage = "exists", !.key = key,
                                 !.force = force, !.alone = alone]
    BY <1>4 DEF CallCreate
  <2> QED  BY <2>1 DEF GivenTo, Idle
<1>5. CASE OpenTemporary(c)
  <2> DEFINE tmp == Temporary(job[c].file)
  <2>1. tmp \in Paths
    BY CallPaths
  <2>2. PICK i : /\ job' = [job EXCEPT ![c].stage = "write", ![c].inode = i]
                 /\ i = IF names[tmp] = None THEN Len(inodes) + 1 ELSE names[tmp]
    BY <1>5 DEF OpenTemporary
  <2>3. i \in DOMAIN inodes'
    <3>1. CASE names[tmp] = None
      BY <1>5, <2>2, <3>1 DEF OpenTemporary, Typed
    <3>2. CASE names[tmp] # None
      BY <1>1, <2>1, <2>2, <3>2 DEF Typed
    <3> QED  BY <3>1, <3>2
  <2> QED  BY <1>5, <2>2, <2>3 DEF OpenTemporary, At, GivenTo, Calls
<1>6. CASE WriteTemporary(c) \/ WriteFails(c)
  BY <1>6 DEF WriteTemporary, WriteFails, At, Goto, Finish, GivenTo, Calls
<1>7. CASE ChmodTemporary(c)
  BY <1>7 DEF ChmodTemporary, At, Goto, Finish, GivenTo, Calls
<1>8. CASE Replace(c)
  <2>1. job[c].file \in Paths /\ Temporary(job[c].file) \in Paths
        /\ job[c].file # Temporary(job[c].file)
    BY CallPaths
  <2>2. CASE names[Temporary(job[c].file)] = None
    BY <1>8, <2>2 DEF Replace, At, Finish, GivenTo, Calls
  <2>3. CASE names[Temporary(job[c].file)] # None
    <3>1. names'[job[c].file] # None
      BY <1>8, <2>1, <2>3 DEF Replace, Typed
    <3> QED  BY <1>8, <2>3, <3>1 DEF Replace, At, Goto, GivenTo, Calls
  <2> QED  BY <2>2, <2>3
<1>9. CASE Protect(c) \/ RereadDaily(c)
  BY <1>9 DEF Protect, RereadDaily, At, Goto, Finish, GivenTo, Calls
<1>10. CASE Configured(c)
  BY <1>10 DEF Configured, At, GivenTo, Calls
<1>11. CASE ReadConfigured(c) \/ ReadStatus(c)
  BY <1>11, ConfigsRead DEF ReadConfigured, ReadStatus, At, GivenTo, Calls
<1>12. CASE CheckKey(c)
  BY <1>12 DEF CheckKey, At, GivenTo, Calls
<1>13. CASE CreateKey(c) \/ OpenKey(c) \/ WriteKey(c) \/ ProtectKey(c)
  <2>1. CASE CreateKey(c) \/ ProtectKey(c)
    BY <2>1 DEF CreateKey, ProtectKey, At, Goto, Finish, GivenTo, Calls
  <2>2. CASE WriteKey(c)
    <3>1. keys'[job[c].key] # None
      BY <2>2, KeysTyped DEF WriteKey, At, GivenTo
    <3> QED  BY <2>2, <3>1 DEF WriteKey, At, GivenTo, Calls
  <2>3. CASE OpenKey(c)
    <3>1. job[c].key \in KeyFiles
      BY <2>3 DEF OpenKey, At, GivenTo
    <3>2. CASE keys[job[c].key] = None
      <4>1. keys'[job[c].key] = [secret |-> NoKey, private |-> TRUE]
        BY <2>3, <3>1, <3>2 DEF OpenKey, Typed
      <4>2. keys'[job[c].key] # None
        <5>1. [secret |-> NoKey, private |-> TRUE] \in Keys
          BY DEF Keys, NoKey
        <5> QED  BY <4>1, <5>1, NoneFacts
      <4> QED  BY <2>3, <4>2 DEF OpenKey, At, Goto, Finish, GivenTo, Calls
    <3>3. CASE keys[job[c].key] # None
      <4>1. keys'[job[c].key] # None
        BY <3>1, <3>3, KeysTyped
      <4> QED  BY <2>3, <4>1 DEF OpenKey, At, Goto, Finish, GivenTo, Calls
    <3> QED  BY <3>2, <3>3
  <2> QED  BY <1>13, <2>1, <2>2, <2>3
<1>14. CASE CollectStatus(c) \/ AskStatus(c) \/ AskReadiness(c) \/ HarnessDeadline(c)
  BY <1>14 DEF CollectStatus, AskStatus, AskReadiness, HarnessDeadline, At, Goto, Finish,
     GivenTo, Calls
<1>15. CASE \/ HarnessStartEnv(c) \/ StartHarness(c) \/ ProbeGateway(c) \/ StartGateway(c)
            \/ WaitForGateway(c)
  BY <1>15 DEF HarnessStartEnv, StartHarness, ProbeGateway, StartGateway, WaitForGateway, At,
     Goto, Finish, GivenTo, Calls
<1>16. CASE Kill(c)
  BY <1>16 DEF Kill, Finish, GivenTo, Calls
<1> QED  BY <1>2, <1>3, <1>4, <1>5, <1>6, <1>7, <1>8, <1>9, <1>10, <1>11, <1>12, <1>13, <1>14,
            <1>15, <1>16 DEF Steps

LEMMA GivenStep ==
  ASSUME Typed, Given, Apart, [Next]_vars
  PROVE  Given'
<1> job \in [Callers -> Calls]
  BY DEF Typed
<1>1. DOMAIN inodes \subseteq DOMAIN inodes'
  BY FilesTypedStep DEF Typed, FilesTyped
<1>2. ASSUME NEW d \in Callers, SameCall(job[d], job'[d]) PROVE GivenTo(d)'
  <2>1. GivenTo(d) /\ job[d].file \in Configs
    BY CallPaths DEF Given
  <2>2. names[job[d].file] # None => names'[job[d].file] # None
    BY <2>1, NamesStay
  <2>3. \A k \in KeyFiles : keys[k] # None => keys'[k] # None
    BY KeysTyped
  <2> QED  BY <1>1, <1>2, <2>1, <2>2, <2>3 DEF GivenTo, SameCall
<1>3. CASE UNCHANGED job
  BY <1>2, <1>3 DEF Given, SameCall
<1>4. ASSUME NEW c \in Callers, Steps(c), Next PROVE Given'
  BY <1>2, <1>4, GivenToMover, OthersStay DEF Given
<1> QED  BY <1>3, <1>4 DEF Next, Steps, vars, HarnessBoots, GatewayBoots, ProcessStops

LEMMA ToldTyped ==
  ASSUME Typed, Given, [Next]_vars
  PROVE  told' \in [standing : [Configs -> SUBSET (Documents \cup {None})],
                    promise : Documents \cup {None}, key : [KeyFiles -> Int]]
<1> DEFINE Told == [standing : [Configs -> SUBSET (Documents \cup {None})],
                    promise : Documents \cup {None}, key : [KeyFiles -> Int]]
<1> told \in Told
  BY DEF Typed
<1>1. CASE UNCHANGED told
  BY <1>1
<1>2. ASSUME NEW c \in Callers, CallWrite(c) PROVE told' \in Told
  <2>1. PICK f \in used.menu.files, doc \in DailyDocuments \cup ModelDocuments :
          told' = [told EXCEPT
                 !.standing[f] = IF @ = {} \/ Writers(f) # {} THEN {} ELSE @ \cup {doc},
                 !.promise = IF f = "daily" THEN None ELSE @]
    BY <1>2 DEF CallWrite
  <2>2. f \in Configs /\ doc \in Documents
    BY <2>1, PathFacts, HostAssumption DEF Typed, Documents
  <2> QED  BY <2>1, <2>2
<1>3. ASSUME NEW c \in Callers, CallCreate(c) PROVE told' \in Told
  <2>1. PICK k \in KeyFiles, force \in BOOLEAN :
          told' = IF force THEN [told EXCEPT !.key[k] = NoKey] ELSE told
    BY <1>3 DEF CallCreate
  <2>2. NoKey \in Int
    BY DEF NoKey
  <2> QED  BY <2>1, <2>2
<1>4. ASSUME NEW c \in Callers, RereadDaily(c) PROVE told' \in Told
  <2>1. job[c].doc \in Documents
    BY <1>4 DEF RereadDaily, At, Given, GivenTo, Of, Documents
  <2> QED  BY <1>4, <2>1, PathFacts DEF RereadDaily
<1>5. ASSUME NEW c \in Callers, Configured(c) PROVE told' \in Told
  <2>1. job[c].doc \in Documents
    BY <1>5 DEF Configured, At, Given, GivenTo, Of, Documents
  <2> QED  BY <1>5, <2>1, PathFacts DEF Configured
<1>6. ASSUME NEW c \in Callers, ProtectKey(c) PROVE told' \in Told
  <2>1. job[c].secret \in Int
    BY DEF Typed, Calls
  <2> QED  BY <1>6, <2>1 DEF ProtectKey
<1> QED  BY <1>1, <1>2, <1>3, <1>4, <1>5, <1>6, Footprints

LEMMA UsedTyped ==
  ASSUME Typed, [Next]_vars
  PROVE  /\ used'.keys \in Nat /\ used'.menu \in Menus /\ used'.keys >= used.keys
         /\ used' = [menu |-> used'.menu, keys |-> used'.keys, calls |-> used'.calls,
                     faults |-> used'.faults]
<1>1. used' \in {used, [used EXCEPT !.calls = @ + 1], [used EXCEPT !.faults = @ + 1],
                 [used EXCEPT !.keys = @ + 1]}
  <2>1. CASE UNCHANGED vars \/ HarnessBoots \/ GatewayBoots \/ ProcessStops
    BY <2>1 DEF vars, HarnessBoots, GatewayBoots, ProcessStops
  <2>2. ASSUME NEW c \in Callers,
               \/ CallWrite(c) \/ CallWriteBad(c) \/ CallShow(c) \/ CallCreate(c) \/ CallStack(c)
        PROVE  used' = [used EXCEPT !.calls = @ + 1]
    BY <2>2 DEF CallWrite, CallWriteBad, CallShow, CallCreate, CallStack, Begin
  <2>3. ASSUME NEW c \in Callers, WriteFails(c) \/ Kill(c)
        PROVE  used' = [used EXCEPT !.faults = @ + 1]
    BY <2>3 DEF WriteFails, Kill
  <2>4. ASSUME NEW c \in Callers, WriteKey(c) PROVE used' = [used EXCEPT !.keys = @ + 1]
    BY <2>4 DEF WriteKey
  <2>5. ASSUME NEW c \in Callers,
               \/ OpenTemporary(c) \/ WriteTemporary(c) \/ ChmodTemporary(c)
               \/ Replace(c) \/ Protect(c) \/ RereadDaily(c) \/ Configured(c)
               \/ ReadConfigured(c) \/ ReadStatus(c) \/ CheckKey(c)
               \/ CreateKey(c) \/ OpenKey(c) \/ ProtectKey(c)
        PROVE  used' = used
    BY <2>5 DEF OpenTemporary, WriteTemporary, ChmodTemporary, Replace, Protect, RereadDaily,
       Configured, ReadConfigured, ReadStatus, CheckKey, CreateKey, OpenKey, ProtectKey
  <2>6. ASSUME NEW c \in Callers,
               \/ CollectStatus(c) \/ AskStatus(c) \/ AskReadiness(c) \/ HarnessDeadline(c)
               \/ HarnessStartEnv(c) \/ StartHarness(c) \/ ProbeGateway(c) \/ StartGateway(c)
               \/ WaitForGateway(c)
        PROVE  used' = used
    BY <2>6 DEF CollectStatus, AskStatus, AskReadiness, HarnessDeadline, HarnessStartEnv,
       StartHarness, ProbeGateway, StartGateway, WaitForGateway
  <2> QED  BY <2>1, <2>2, <2>3, <2>4, <2>5, <2>6 DEF Next
<1> QED  BY <1>1 DEF Typed

LEMMA HarnessTyped ==
  ASSUME Typed, [Next]_vars
  PROVE  harness' \in {None} \cup Harnesses
<1> harness \in {None} \cup Harnesses
  BY DEF Typed
<1>1. CASE UNCHANGED harness
  BY <1>1
<1>2. ASSUME NEW c \in Callers, StartHarness(c) PROVE harness' \in {None} \cup Harnesses
  <2>1. job[c].image \in Images /\ job[c].promise \in Documents \cup {None}
    BY DEF Typed, Calls
  <2>2. \A needs \in BOOLEAN :
          [image |-> job[c].image, needs |-> needs, up |-> FALSE, promise |-> job[c].promise]
            \in Harnesses
    BY <2>1 DEF Harnesses
  <2> QED  BY <1>2, <2>2 DEF StartHarness
<1>3. CASE HarnessBoots
  BY <1>3 DEF HarnessBoots, Harnesses
<1>4. CASE ProcessStops
  BY <1>4 DEF ProcessStops
<1> QED  BY <1>1, <1>2, <1>3, <1>4, Footprints DEF Handles

LEMMA TypedStep ==
  ASSUME Typed, Given, Apart, [Next]_vars
  PROVE  Typed'
<1>1. FilesTyped'
  BY FilesTypedStep
<1>2. job' \in [Callers -> Calls]
  BY JobTyped
<1>3. keys' \in [KeyFiles -> {None} \cup Keys]
  BY KeysTyped
<1>4. harness' \in {None} \cup Harnesses
  BY HarnessTyped
<1>5. told' \in [standing : [Configs -> SUBSET (Documents \cup {None})],
                 promise : Documents \cup {None}, key : [KeyFiles -> Int]]
  BY ToldTyped
<1>6. /\ used'.keys \in Nat /\ used'.menu \in Menus
      /\ used' = [menu |-> used'.menu, keys |-> used'.keys, calls |-> used'.calls,
                  faults |-> used'.faults]
  BY UsedTyped
<1> QED  BY <1>1, <1>2, <1>3, <1>4, <1>5, <1>6 DEF Typed, FilesTyped

-----------------------------------------------------------------------------
(* The files of the two configurations are apart *)

\* The paths of two configurations differ.
LEMMA PathsApart ==
  ASSUME NEW f \in Configs, NEW g \in Configs, f # g, NEW p \in {g, Temporary(g)}
  PROVE  /\ p \in Paths /\ f \in Paths /\ Temporary(f) \in Paths
         /\ p # f /\ p # Temporary(f) /\ f # Temporary(f)
BY PathFacts

\* A writer touches no file of the other configuration.
LEMMA OtherFileStays ==
  ASSUME Typed, Given, Apart, NEW c \in Callers, Handles(c),
         NEW g \in Configs, g # job[c].file, NEW p \in {g, Temporary(g)}
  PROVE  names'[p] = names[p] /\ (names[p] # None => inodes'[names[p]] = inodes[names[p]])
<1> DEFINE f == job[c].file
           tmp == Temporary(f)
<1>1. f \in Configs /\ p \in Paths /\ f \in Paths /\ tmp \in Paths /\ p # f /\ p # tmp
  BY CallPaths, PathsApart
<1>2. /\ names \in [Paths -> {None} \cup Nat] /\ inodes \in Seq(Files)
      /\ names[p] # None => names[p] \in DOMAIN inodes
      /\ \A q \in Paths : names[p] = names[q] /\ names[p] # None => p = q
  BY <1>1 DEF Typed
<1> HIDE DEF f, tmp
<1>3. CASE OpenTemporary(c)
  <2>1. CASE names[tmp] = None
    <3>1. /\ inodes' = Append(inodes, [text |-> EmptyText, private |-> FALSE])
          /\ names' = [names EXCEPT ![tmp] = Len(inodes) + 1]
      BY <1>3, <2>1 DEF OpenTemporary, tmp, f
    <3> QED  BY <1>1, <1>2, <3>1
  <2>2. CASE names[tmp] # None
    <3>1. /\ inodes' = [inodes EXCEPT ![names[tmp]].text = EmptyText]
          /\ names' = names
      BY <1>3, <2>2 DEF OpenTemporary, tmp, f
    <3> QED  BY <1>1, <1>2, <3>1
  <2> QED  BY <2>1, <2>2
<1>4. CASE WriteTemporary(c) \/ WriteFails(c)
  <2>1. Writing(c, f) /\ job[c].stage = "write"
    BY <1>4 DEF WriteTemporary, WriteFails, At, Writing, f
  <2>2. job[c].inode # names[p]
    BY <1>1, <2>1 DEF Apart, WritersApart, f
  <2> QED  BY <1>2, <1>4, <2>2 DEF WriteTemporary, WriteFails
<1>5. CASE ChmodTemporary(c)
  BY <1>1, <1>2, <1>5 DEF ChmodTemporary, tmp, f
<1>6. CASE Protect(c)
  BY <1>1, <1>2, <1>6 DEF Protect, f
<1>7. CASE Replace(c)
  <2>1. CASE names[tmp] = None
    BY <1>7, <2>1 DEF Replace, tmp, f
  <2>2. CASE names[tmp] # None
    <3>1. inodes' = inodes /\ names' = [names EXCEPT ![f] = names[tmp], ![tmp] = None]
      BY <1>7, <2>2 DEF Replace, tmp, f
    <3> QED  BY <1>1, <1>2, <3>1
  <2> QED  BY <2>1, <2>2
<1> QED  BY <1>3, <1>4, <1>5, <1>6, <1>7 DEF Handles

LEMMA OwnDocs ==
  ASSUME Typed, Given, Apart, NEW c \in Callers, Handles(c),
         NEW p \in {job[c].file, Temporary(job[c].file)}, names'[p] # None
  PROVE  inodes'[names'[p]].text.doc \in Of(job[c].file) \cup {None}
<1> DEFINE f == job[c].file
           tmp == Temporary(f)
<1>1. f \in Configs /\ f \in Paths /\ tmp \in Paths /\ f # tmp /\ p \in {f, tmp} /\ p \in Paths
  BY CallPaths
<1>2. /\ names \in [Paths -> {None} \cup Nat] /\ inodes \in Seq(Files)
      /\ \A q \in Paths : names[q] # None => names[q] \in DOMAIN inodes
      /\ \A q \in {f, tmp} : names[q] # None => inodes[names[q]].text.doc \in Of(f) \cup {None}
  BY <1>1 DEF Typed, Apart, DocsApart
<1> HIDE DEF f, tmp
<1> SUFFICES inodes'[names'[p]].text.doc \in Of(f) \cup {None}
  BY DEF f
<1>3. CASE OpenTemporary(c)
  <2>1. CASE names[tmp] = None
    <3>1. /\ inodes' = Append(inodes, [text |-> EmptyText, private |-> FALSE])
          /\ names' = [names EXCEPT ![tmp] = Len(inodes) + 1]
      BY <1>3, <2>1 DEF OpenTemporary, tmp, f
    <3> QED  BY <1>1, <1>2, <3>1 DEF EmptyText
  <2>2. CASE names[tmp] # None
    <3>1. /\ inodes' = [inodes EXCEPT ![names[tmp]].text = EmptyText]
          /\ names' = names
      BY <1>3, <2>2 DEF OpenTemporary, tmp, f
    <3>2. names[p] \in DOMAIN inodes /\ inodes[names[p]] \in Files
      BY <1>1, <1>2, <3>1
    <3> QED  BY <1>1, <1>2, <3>1, <3>2 DEF EmptyText, Files
  <2> QED  BY <2>1, <2>2
<1>4. CASE WriteTemporary(c) \/ WriteFails(c)
  <2>1. job[c].doc \in Of(f)
    BY <1>4 DEF WriteTemporary, WriteFails, At, Given, GivenTo, f
  <2>2. names' = names /\ names[p] \in DOMAIN inodes /\ inodes[names[p]] \in Files
    BY <1>1, <1>2, <1>4 DEF WriteTemporary, WriteFails
  <2>3. CASE names[p] # job[c].inode
    BY <1>1, <1>2, <1>4, <2>2, <2>3 DEF WriteTemporary, WriteFails
  <2>4. CASE names[p] = job[c].inode
    <3>1. inodes'[names[p]].text.doc \in {job[c].doc, None}
      BY <1>4, <2>2, <2>4 DEF WriteTemporary, WriteFails, Overwrite, Files
    <3> QED  BY <2>1, <2>2, <3>1
  <2> QED  BY <2>3, <2>4
<1>5. CASE ChmodTemporary(c) \/ Protect(c)
  <2>1. names' = names /\ names[p] \in DOMAIN inodes /\ inodes[names[p]] \in Files
    BY <1>1, <1>2, <1>5 DEF ChmodTemporary, Protect
  <2>2. inodes'[names[p]].text = inodes[names[p]].text
    BY <2>1, <1>5 DEF ChmodTemporary, Protect, Files
  <2> QED  BY <1>1, <1>2, <2>1, <2>2
<1>6. CASE Replace(c)
  <2>1. CASE names[tmp] = None
    BY <1>1, <1>2, <1>6, <2>1 DEF Replace, tmp, f
  <2>2. CASE names[tmp] # None
    <3>1. inodes' = inodes /\ names' = [names EXCEPT ![f] = names[tmp], ![tmp] = None]
      BY <1>6, <2>2 DEF Replace, tmp, f
    <3> QED  BY <1>1, <1>2, <2>2, <3>1
  <2> QED  BY <2>1, <2>2
<1> QED  BY <1>3, <1>4, <1>5, <1>6 DEF Handles

LEMMA ApartStep ==
  ASSUME Typed, Given, Apart, [Next]_vars
  PROVE  Apart'
<1> job \in [Callers -> Calls]
  BY DEF Typed
<1>1. DocsApart'
  <2>1. CASE UNCHANGED <<names, inodes>>
    BY <2>1 DEF Apart, DocsApart
  <2>2. ASSUME NEW c \in Callers, Handles(c) PROVE DocsApart'
    <3> SUFFICES ASSUME NEW f \in Configs, NEW p \in {f, Temporary(f)}, names'[p] # None
                 PROVE  inodes'[names'[p]].text.doc \in Of(f) \cup {None}
      BY DEF DocsApart
    <3>1. CASE f = job[c].file
      BY <2>2, <3>1, OwnDocs
    <3>2. CASE f # job[c].file
      <4>1. names'[p] = names[p] /\ (names[p] # None => inodes'[names[p]] = inodes[names[p]])
        BY <2>2, <3>2, OtherFileStays
      <4> QED  BY <4>1 DEF Apart, DocsApart
    <3> QED  BY <3>1, <3>2
  <2> QED  BY <2>1, <2>2, Footprints DEF Handles
<1>2. ASSUME NEW d \in Callers, NEW f \in Configs, Writing(d, f), job[d].stage = "write",
             NEW g \in Configs, NEW p \in {g, Temporary(g)}, g # f
      PROVE  job[d].inode # names'[p]
  <2>1. job[d].inode # names[p] /\ job[d].inode \in DOMAIN inodes
    BY <1>2 DEF Apart, WritersApart, Given, GivenTo, Writing
  <2>2. CASE UNCHANGED <<names, inodes>>
    BY <2>1, <2>2
  <2>3. ASSUME NEW c \in Callers, Handles(c) PROVE job[d].inode # names'[p]
    <3>1. CASE g # job[c].file
      BY <2>1, <2>3, <3>1, OtherFileStays
    <3>2. CASE g = job[c].file
      <4>1. g \in Paths /\ Temporary(g) \in Paths /\ g # Temporary(g) /\ p \in {g, Temporary(g)}
        BY PathFacts
      <4>2. names \in [Paths -> {None} \cup Nat] /\ inodes \in Seq(Files)
        BY DEF Typed
      <4>3. job[d].inode \in 1 .. Len(inodes) /\ None \notin Int
        BY <2>1, <4>2, HostAssumption
      <4>4. \A q \in {g, Temporary(g)} : job[d].inode # names[q]
        BY <1>2 DEF Apart, WritersApart
      <4>5. CASE OpenTemporary(c)
        BY <3>2, <4>1, <4>2, <4>3, <4>4, <4>5 DEF OpenTemporary
      <4>6. CASE WriteTemporary(c) \/ WriteFails(c) \/ ChmodTemporary(c) \/ Protect(c)
        BY <2>1, <4>6 DEF WriteTemporary, WriteFails, ChmodTemporary, Protect
      <4>7. CASE Replace(c)
        BY <3>2, <4>1, <4>2, <4>3, <4>4, <4>7 DEF Replace
      <4> QED  BY <2>3, <4>5, <4>6, <4>7 DEF Handles
    <3> QED  BY <3>1, <3>2
  <2> QED  BY <2>2, <2>3, Footprints DEF Handles
<1>3. ASSUME NEW c \in Callers, OpenTemporary(c), NEW f \in Configs, job[c].file = f,
             NEW g \in Configs, NEW p \in {g, Temporary(g)}, g # f
      PROVE  job'[c].inode # names'[p]
  <2>1. names'[p] = names[p]
    BY <1>3, OtherFileStays DEF Handles
  <2>2. p \in Paths /\ Temporary(f) \in Paths /\ p # Temporary(f)
    BY <1>3, PathsApart
  <2>3. /\ names \in [Paths -> {None} \cup Nat] /\ inodes \in Seq(Files)
        /\ names[p] # None => names[p] \in DOMAIN inodes
        /\ \A q \in Paths : names[p] = names[q] /\ names[p] # None => p = q
    BY <2>2 DEF Typed
  <2>4. job'[c].inode = IF names[Temporary(f)] = None THEN Len(inodes) + 1
                        ELSE names[Temporary(f)]
    BY <1>3 DEF OpenTemporary, Calls
  <2> QED  BY <2>1, <2>2, <2>3, <2>4, HostAssumption
<1>4. ASSUME NEW d \in Callers, NEW f \in Configs, Writing(d, f)', job'[d].stage = "write"
      PROVE  \/ Writing(d, f) /\ job[d].stage = "write" /\ job'[d].inode = job[d].inode
             \/ OpenTemporary(d) /\ job[d].file = f
  <2>1. CASE SameCall(job[d], job'[d])
    BY <1>4, <2>1 DEF SameCall, Writing
  <2>2. CASE Steps(d)
    <3>1. ~ CallWrite(d)
      BY <1>4, WriteBegun
    <3>2. OpenTemporary(d)
      BY <1>4, <2>2, <3>1, Onward DEF Writing
    <3>3. job'[d].file = job[d].file
      BY <3>2 DEF OpenTemporary, Calls
    <3> QED  BY <1>4, <3>2, <3>3 DEF Writing
  <2>3. SameCall(job[d], job'[d]) \/ Steps(d)
    BY OthersStay DEF Next, Steps, vars, HarnessBoots, GatewayBoots, ProcessStops, SameCall
  <2> QED  BY <2>1, <2>2, <2>3
<1>5. WritersApart'
  <2> SUFFICES ASSUME NEW d \in Callers, NEW f \in Configs, Writing(d, f)', job'[d].stage = "write",
                      NEW g \in Configs, NEW p \in {g, Temporary(g)}, g # f
               PROVE  job'[d].inode # names'[p]
    BY DEF WritersApart
  <2>1. CASE Writing(d, f) /\ job[d].stage = "write" /\ job'[d].inode = job[d].inode
    BY <1>2, <2>1
  <2>2. CASE OpenTemporary(d) /\ job[d].file = f
    BY <1>3, <2>2
  <2> QED  BY <1>4, <2>1, <2>2
<1> QED  BY <1>1, <1>5 DEF Apart

-----------------------------------------------------------------------------
(* Keys are kept *)

\* A creation that a step leaves where it was, or ends, or that has not opened its
\* file yet.
Calm(d) ==
  /\ Creating(d)' => /\ Creating(d) /\ job'[d].key = job[d].key /\ job'[d].force = job[d].force
                     /\ job'[d].alone => job[d].alone
  /\ Holding(d)' => Holding(d) /\ job'[d].stage = job[d].stage /\ job'[d].secret = job[d].secret

LEMMA KeyFrame ==
  ASSUME KeyInv, keys' = keys, told'.key = told.key, \A d \in Callers : Calm(d)
  PROVE  KeyInv'
<1> \A d \in Callers : Holding(d)' => Creating(d)'
  BY DEF Holding
<1>1. ForcedMet'
  BY DEF KeyInv, ForcedMet, Calm
<1>2. OneHolds'
  BY DEF KeyInv, OneHolds, Calm
<1>3. HeldKey'
  BY DEF KeyInv, HeldKey, Calm
<1>4. ToldKey'
  BY DEF KeyInv, ToldKey, Calm
<1> QED  BY <1>1, <1>2, <1>3, <1>4 DEF KeyInv

LEMMA SameIsCalm ==
  ASSUME NEW d \in Callers, SameCall(job[d], job'[d]), job'[d].alone => job[d].alone
  PROVE  Calm(d)
BY DEF SameCall, Calm, Creating, Holding

LEMMA OthersAreCalm ==
  ASSUME job \in [Callers -> Calls], NEW c \in Callers, Steps(c), NEW d \in Callers, d # c
  PROVE  Calm(d)
BY OthersStay, OthersHistory, SameIsCalm

\* The steps that are not about keys.
LEMMA KeysAside ==
  ASSUME Typed, Given, KeyInv, NEW c \in Callers, Steps(c), Next,
         ~ CallCreate(c), ~ OpenKey(c), ~ WriteKey(c), ~ ProtectKey(c)
  PROVE  KeyInv'
<1> job \in [Callers -> Calls]
  BY DEF Typed
<1>1. Calm(c)
  <2>1. CASE job'[c].stage = "done"
    BY <2>1 DEF Calm, Creating, Holding
  <2>2. CASE job'[c].stage # "done" /\ job'[c].op = "create"
    <3>1. CreateKey(c) /\ job'[c].stage = "open"
      BY <2>2, Onward
    <3>2. job[c].op = "create" /\ job[c].stage = "exists"
      BY <3>1 DEF CreateKey, At
    <3>3. /\ job'[c].key = job[c].key /\ job'[c].force = job[c].force
          /\ job'[c].alone = job[c].alone
      BY <3>1 DEF CreateKey, Goto, Finish, Calls
    <3> QED  BY <3>1, <3>2, <3>3 DEF Calm, Creating, Holding
  <2>3. CASE job'[c].op # "create"
    BY <2>3 DEF Calm, Creating, Holding
  <2> QED  BY <2>1, <2>2, <2>3
<1>2. \A d \in Callers : Calm(d)
  BY <1>1, OthersAreCalm
<1>3. keys' = keys
  BY Footprint
<1>4. told'.key = told.key
  <2>1. CASE CallWrite(c)
    BY <2>1, WriteBegun DEF Typed
  <2>2. CASE RereadDaily(c) \/ Configured(c)
    BY <2>2 DEF RereadDaily, Configured, Typed
  <2>3. CASE UNCHANGED told
    BY <2>3
  <2> QED  BY <2>1, <2>2, <2>3, Footprint
<1> QED  BY <1>2, <1>3, <1>4, KeyFrame

LEMMA KeyCreateCall ==
  ASSUME Typed, Given, KeyInv, NEW c \in Callers, CallCreate(c)
  PROVE  KeyInv'
<1> job \in [Callers -> Calls]
  BY DEF Typed
<1>1. PICK key \in KeyFiles, force \in BOOLEAN :
        /\ job'[c].op = "create" /\ job'[c].stage = "exists" /\ job'[c].key = key
        /\ job'[c].force = force
        /\ job'[c].alone <=> \A e \in Creators(key) : ~ job[e].force
        /\ \A d \in Callers : d # c =>
             job'[d] = IF force /\ d \in Creators(key) THEN [job[d] EXCEPT !.alone = FALSE]
                       ELSE job[d]
        /\ told' = IF force THEN [told EXCEPT !.key[key] = NoKey] ELSE told
  BY OthersBegun
<1>2. \A d \in Callers : d # c => Calm(d)
  BY OthersAreCalm DEF Steps
<1>3. Creating(c)' /\ ~ Holding(c)'
  BY <1>1 DEF Creating, Holding
<1>4. \A d \in Callers : Holding(d)' => d # c /\ Holding(d) /\ Creating(d)
  BY <1>2, <1>3 DEF Calm, Holding
<1>5. \A d \in Callers : d # c /\ Creating(d)' /\ job'[d].key = key => d \in Creators(key)
  BY <1>2 DEF Calm, Creating, Creators
<1>6. \A d \in Callers : d # c /\ Creating(d)' /\ job'[d].key = key /\ force => ~ job'[d].alone
  BY <1>1, <1>5 DEF Calls
<1>7. ForcedMet'
  <2> SUFFICES ASSUME NEW d \in Callers, NEW e \in Callers, Creating(d)', Creating(e)', d # e,
                      job'[d].key = job'[e].key, job'[e].force
               PROVE  ~ job'[d].alone
    BY DEF ForcedMet
  <2>1. CASE d = c
    BY <1>1, <1>2, <1>5, <2>1 DEF Calm
  <2>2. CASE e = c
    BY <1>1, <1>6, <2>2
  <2>3. CASE d # c /\ e # c
    BY <1>2, <2>3 DEF KeyInv, ForcedMet, Calm
  <2> QED  BY <2>1, <2>2, <2>3
<1>8. keys' = keys
  BY DEF CallCreate, Begin
<1>9. OneHolds'
  BY <1>2, <1>4 DEF KeyInv, OneHolds, Calm, Holding
<1>10. HeldKey'
  BY <1>2, <1>4, <1>8 DEF KeyInv, HeldKey, Calm, Holding
<1>11. ToldKey'
  <2> SUFFICES ASSUME NEW k \in KeyFiles, told'.key[k] # NoKey
               PROVE  /\ keys'[k] = [secret |-> told'.key[k], private |-> TRUE]
                      /\ \A d \in Callers : Creating(d)' /\ job'[d].key = k =>
                           ~ job'[d].force /\ ~ Holding(d)'
    BY DEF ToldKey
  <2>1. told'.key[k] = told.key[k] /\ ~ (force /\ k = key)
    BY <1>1 DEF Typed
  <2>2. keys'[k] = [secret |-> told'.key[k], private |-> TRUE]
    BY <1>8, <2>1 DEF KeyInv, ToldKey
  <2>3. ASSUME NEW d \in Callers, Creating(d)', job'[d].key = k
        PROVE  ~ job'[d].force /\ ~ Holding(d)'
    <3>1. CASE d = c
      BY <1>1, <1>3, <2>1, <2>3, <3>1
    <3>2. CASE d # c
      BY <1>2, <2>1, <2>3, <3>2 DEF Calm, KeyInv, ToldKey
    <3> QED  BY <3>1, <3>2
  <2> QED  BY <2>2, <2>3
<1> QED  BY <1>7, <1>9, <1>10, <1>11 DEF KeyInv

\* A creation that gets on: the others stay, and so does what it was given.
LEMMA CreationMoves ==
  ASSUME Typed, Given, NEW c \in Callers, OpenKey(c) \/ WriteKey(c) \/ ProtectKey(c)
  PROVE  /\ \A d \in Callers : d # c => job'[d] = job[d]
         /\ job[c].op = "create" /\ job'[c].op = "create" /\ job'[c].key = job[c].key
         /\ job'[c].force = job[c].force /\ job'[c].alone = job[c].alone
         /\ job[c].key \in KeyFiles
         /\ keys \in [KeyFiles -> {None} \cup Keys]
         /\ OpenKey(c) => job[c].stage = "open" /\ job'[c].stage \in {"write", "done"}
         /\ WriteKey(c) => /\ job[c].stage = "write" /\ job'[c].stage = "chmod"
                           /\ job'[c].secret = used.keys + 1
         /\ ProtectKey(c) => job[c].stage = "chmod" /\ job'[c].stage = "done"
<1> job \in [Callers -> Calls]
  BY DEF Typed
<1>1. job[c].op = "create"
  BY DEF OpenKey, WriteKey, ProtectKey, At
<1>2. job[c].key \in KeyFiles /\ keys \in [KeyFiles -> {None} \cup Keys]
  BY <1>1 DEF Typed, Given, GivenTo
<1>3. OpenKey(c) => job[c].stage = "open" /\ job'[c].stage \in {"write", "done"}
  BY DEF OpenKey, At, Goto, Finish, Calls
<1>4. WriteKey(c) => /\ job[c].stage = "write" /\ job'[c].stage = "chmod"
                     /\ job'[c].secret = used.keys + 1
  BY DEF WriteKey, At, Calls
<1>5. ProtectKey(c) => job[c].stage = "chmod" /\ job'[c].stage = "done"
  BY DEF ProtectKey, At, Finish, Calls
<1>6. /\ \A d \in Callers : d # c => job'[d] = job[d]
      /\ job'[c].op = job[c].op /\ job'[c].key = job[c].key
      /\ job'[c].force = job[c].force /\ job'[c].alone = job[c].alone
  <2>1. CASE OpenKey(c)
    BY <2>1 DEF OpenKey, Goto, Finish, Calls
  <2>2. CASE WriteKey(c)
    BY <2>2 DEF WriteKey, Calls
  <2>3. CASE ProtectKey(c)
    BY <2>3 DEF ProtectKey, Finish, Calls
  <2> QED  BY <2>1, <2>2, <2>3
<1> QED  BY <1>1, <1>2, <1>3, <1>4, <1>5, <1>6

LEMMA KeyOpened ==
  ASSUME Typed, Given, KeyInv, NEW c \in Callers, OpenKey(c)
  PROVE  KeyInv'
<1> DEFINE k == job[c].key
<1>1. /\ \A d \in Callers : d # c => job'[d] = job[d]
      /\ job[c].op = "create" /\ job'[c].op = "create" /\ job'[c].key = k
      /\ job'[c].force = job[c].force /\ job'[c].alone = job[c].alone
      /\ k \in KeyFiles /\ keys \in [KeyFiles -> {None} \cup Keys]
      /\ job[c].stage = "open" /\ job'[c].stage \in {"write", "done"}
  BY CreationMoves
<1>2. told' = told /\ (job'[c].stage = "done" => keys' = keys)
  BY <1>1 DEF OpenKey, Goto, Typed, Calls
<1>3. Creating(c) /\ ~ Holding(c)
  BY <1>1 DEF Creating, Holding
<1>4. \A d \in Callers : d # c => Calm(d)
  BY <1>1 DEF Calm, Creating, Holding
<1>5. CASE job'[c].stage = "done"
  <2>1. Calm(c)
    BY <1>5 DEF Calm, Creating, Holding
  <2> QED  BY <1>2, <1>4, <1>5, <2>1, KeyFrame
<1>6. CASE job'[c].stage = "write"
  <2>1. \A d \in Callers : Creating(d)' => Creating(d) /\ job'[d].key = job[d].key
                              /\ job'[d].force = job[d].force /\ (job'[d].alone => job[d].alone)
    BY <1>1, <1>3, <1>4 DEF Calm
  <2>2. ForcedMet'
    BY <2>1 DEF KeyInv, ForcedMet
  <2>3. told.key[k] = NoKey
    <3>1. CASE keys[k] = None
      <4>1. told.key[k] \in Int
        BY <1>1 DEF Typed
      <4>2. [secret |-> told.key[k], private |-> TRUE] \in Keys
        BY <4>1 DEF Keys
      <4>3. told.key[k] # NoKey => keys[k] = [secret |-> told.key[k], private |-> TRUE]
        BY <1>1 DEF KeyInv, ToldKey
      <4> QED  BY <3>1, <4>2, <4>3, NoneFacts
    <3>2. CASE job[c].force
      BY <1>1, <1>3, <3>2 DEF KeyInv, ToldKey
    <3>3. keys[k] = None \/ job[c].force
      BY <1>6 DEF OpenKey, Finish, Typed, Calls
    <3> QED  BY <3>1, <3>2, <3>3
  <2>4. \A l \in KeyFiles : l # k => keys'[l] = keys[l]
    BY <1>1 DEF OpenKey
  <2>5. \A d \in Callers : d # c /\ Holding(d)' => Holding(d) /\ Creating(d) /\ job'[d] = job[d]
    BY <1>1 DEF Holding, Creating
  <2>6. ASSUME NEW d \in Callers, d # c, Holding(d), job[d].key = k
        PROVE  keys[k] # None
    BY <2>6 DEF Given, GivenTo, Holding, Creating
  <2>7. OneHolds'
    <3> SUFFICES ASSUME NEW d \in Callers, d # c, Holding(d), job[d].key = k, ~ job[d].force,
                        ~ job[c].force
                 PROVE  FALSE
      BY <1>1, <2>5 DEF KeyInv, OneHolds
    <3>1. keys[k] # None
      BY <2>6
    <3> QED  BY <1>6, <3>1 DEF OpenKey, Finish, Typed, Calls
  <2>8. HeldKey'
    <3> SUFFICES ASSUME NEW d \in Callers, Holding(d)', ~ job'[d].force, job'[d].alone
                 PROVE  keys'[job'[d].key] =
                          [secret |-> IF job'[d].stage = "write" THEN NoKey ELSE job'[d].secret,
                           private |-> TRUE]
      BY DEF HeldKey
    <3>1. CASE d = c
      <4>1. keys[k] = None
        BY <1>1, <1>6, <3>1 DEF OpenKey, Finish, Typed, Calls
      <4>2. keys'[k] = [secret |-> NoKey, private |-> TRUE]
        BY <1>1, <4>1 DEF OpenKey
      <4> QED  BY <1>1, <1>6, <3>1, <4>2
    <3>2. CASE d # c
      <4>1. Holding(d) /\ Creating(d) /\ job'[d] = job[d]
        BY <2>5, <3>2
      <4>2. keys[job[d].key] = [secret |-> IF job[d].stage = "write" THEN NoKey ELSE job[d].secret,
                                private |-> TRUE]
        BY <4>1 DEF KeyInv, HeldKey
      <4>3. job[d].key # k
        <5> SUFFICES ASSUME job[d].key = k PROVE FALSE
          OBVIOUS
        <5>1. keys[k] # None
          BY <2>6, <3>2, <4>1
        <5>2. job[c].force
          BY <1>6, <5>1 DEF OpenKey, Finish, Typed, Calls
        <5> QED  BY <1>3, <3>2, <4>1, <5>2 DEF KeyInv, ForcedMet
      <4>4. job[d].key \in KeyFiles
        BY <4>1 DEF Creating, Given, GivenTo
      <4> QED  BY <2>4, <4>1, <4>2, <4>3, <4>4
    <3> QED  BY <3>1, <3>2
  <2>9. ToldKey'
    <3> SUFFICES ASSUME NEW l \in KeyFiles, told.key[l] # NoKey
                 PROVE  /\ keys'[l] = [secret |-> told.key[l], private |-> TRUE]
                        /\ \A d \in Callers : Creating(d)' /\ job'[d].key = l =>
                             ~ job'[d].force /\ ~ Holding(d)'
      BY <1>2 DEF ToldKey
    <3>1. l # k /\ keys'[l] = keys[l]
      BY <2>3, <2>4
    <3> QED  BY <1>1, <2>1, <2>5, <3>1 DEF KeyInv, ToldKey
  <2> QED  BY <2>2, <2>7, <2>8, <2>9 DEF KeyInv
<1> QED  BY <1>1, <1>5, <1>6

\* What a caller that holds a key file excludes.
LEMMA HolderAlone ==
  ASSUME KeyInv, NEW c \in Callers, Holding(c), job[c].key \in KeyFiles
  PROVE  /\ told.key[job[c].key] = NoKey
         /\ \A d \in Callers :
              d # c /\ Holding(d) /\ ~ job[d].force /\ job[d].key = job[c].key => ~ job[d].alone
<1>1. Creating(c)
  BY DEF Holding
<1> QED  BY <1>1 DEF KeyInv, ToldKey, ForcedMet, OneHolds, Holding

\* What a key's record is when a field of it is replaced.
LEMMA PrivateRecords ==
  ASSUME NEW a, NEW b, NEW r, r = [secret |-> a, private |-> TRUE]
  PROVE  /\ [r EXCEPT !.secret = b] = [secret |-> b, private |-> TRUE]
         /\ [r EXCEPT !.private = TRUE] = [secret |-> a, private |-> TRUE]
<1> DEFINE Kept(t) == [[secret |-> a, private |-> t] EXCEPT !.secret = b]
                        = [secret |-> b, private |-> t]
           Same(t) == [[secret |-> a, private |-> t] EXCEPT !.private = t]
                        = [secret |-> a, private |-> t]
<1>1. \A t : Kept(t)
  OBVIOUS
<1>2. \A t : Same(t)
  OBVIOUS
<1> HIDE DEF Kept, Same
<1>3. Kept(TRUE) /\ Same(TRUE)
  BY <1>1, <1>2, Zenon
<1>4. [r EXCEPT !.secret = b] = [secret |-> b, private |-> TRUE]
  BY <1>3, Zenon DEF Kept
<1>5. [r EXCEPT !.private = TRUE] = [secret |-> a, private |-> TRUE]
  BY <1>3, Zenon DEF Same
<1> QED  BY <1>4, <1>5

LEMMA KeyWritten ==
  ASSUME Typed, Given, KeyInv, NEW c \in Callers, WriteKey(c)
  PROVE  KeyInv'
<1> DEFINE k == job[c].key
<1>1. /\ \A d \in Callers : d # c => job'[d] = job[d]
      /\ job[c].op = "create" /\ job'[c].op = "create" /\ job'[c].key = k
      /\ job'[c].force = job[c].force /\ job'[c].alone = job[c].alone
      /\ k \in KeyFiles /\ keys \in [KeyFiles -> {None} \cup Keys]
      /\ job[c].stage = "write" /\ job'[c].stage = "chmod" /\ job'[c].secret = used.keys + 1
  BY CreationMoves
<1>2. told' = told /\ keys' = [keys EXCEPT ![k].secret = used.keys + 1]
  BY DEF WriteKey
<1>3. Holding(c) /\ Creating(c)
  BY <1>1 DEF Creating, Holding
<1>4. \A d \in Callers : /\ Creating(d)' => Creating(d)
                         /\ Holding(d)' => Holding(d)
                         /\ job'[d].key = job[d].key /\ job'[d].force = job[d].force
                         /\ job'[d].alone = job[d].alone
  BY <1>1, <1>3 DEF Creating, Holding
<1>5. ForcedMet' /\ OneHolds'
  BY <1>4 DEF KeyInv, ForcedMet, OneHolds
<1>6. told.key[k] = NoKey /\ \A d \in Callers :
        d # c /\ Holding(d) /\ ~ job[d].force /\ job[d].key = k => ~ job[d].alone
  BY <1>1, <1>3, HolderAlone
<1>7. HeldKey'
  <2> SUFFICES ASSUME NEW d \in Callers, Holding(d)', ~ job'[d].force, job'[d].alone
               PROVE  keys'[job'[d].key] =
                        [secret |-> IF job'[d].stage = "write" THEN NoKey ELSE job'[d].secret,
                         private |-> TRUE]
    BY DEF HeldKey
  <2>1. keys[job[d].key] = [secret |-> IF job[d].stage = "write" THEN NoKey ELSE job[d].secret,
                            private |-> TRUE]
    BY <1>4 DEF KeyInv, HeldKey
  <2>2. CASE d = c
    <3>1. keys'[k] = [keys[k] EXCEPT !.secret = used.keys + 1]
      BY <1>1, <1>2
    <3>2. keys'[k] = [secret |-> used.keys + 1, private |-> TRUE]
      BY <1>1, <2>1, <2>2, <3>1, PrivateRecords
    <3> QED  BY <1>1, <2>2, <3>2
  <2>3. CASE d # c
    <3>1. job[d].key # k /\ job[d].key \in KeyFiles
      BY <1>4, <1>6, <2>3 DEF Holding, Creating, Given, GivenTo
    <3> QED  BY <1>1, <1>2, <2>1, <2>3, <3>1
  <2> QED  BY <2>2, <2>3
<1>8. ToldKey'
  <2> SUFFICES ASSUME NEW l \in KeyFiles, told.key[l] # NoKey
               PROVE  /\ keys'[l] = [secret |-> told.key[l], private |-> TRUE]
                      /\ \A d \in Callers : Creating(d)' /\ job'[d].key = l =>
                           ~ job'[d].force /\ ~ Holding(d)'
    BY <1>2 DEF ToldKey
  <2>1. l # k /\ keys'[l] = keys[l]
    BY <1>1, <1>2, <1>6
  <2> QED  BY <1>4, <2>1 DEF KeyInv, ToldKey
<1> QED  BY <1>5, <1>7, <1>8 DEF KeyInv

LEMMA KeyProtected ==
  ASSUME Typed, Given, KeyInv, NEW c \in Callers, ProtectKey(c)
  PROVE  KeyInv'
<1> DEFINE k == job[c].key
<1>1. /\ \A d \in Callers : d # c => job'[d] = job[d]
      /\ job[c].op = "create"
      /\ k \in KeyFiles /\ keys \in [KeyFiles -> {None} \cup Keys]
      /\ job[c].stage = "chmod" /\ job'[c].stage = "done"
  BY CreationMoves
<1>2. /\ keys' = [keys EXCEPT ![k].private = TRUE]
      /\ told' = IF job[c].force \/ ~ job[c].alone THEN told
                 ELSE [told EXCEPT !.key[k] = job[c].secret]
  BY DEF ProtectKey
<1>3. Holding(c) /\ Creating(c) /\ ~ Creating(c)' /\ ~ Holding(c)'
  BY <1>1 DEF Creating, Holding
<1>4. \A d \in Callers : Creating(d)' => d # c /\ Creating(d) /\ job'[d] = job[d]
  BY <1>1, <1>3 DEF Creating
<1>5. \A d \in Callers : Holding(d)' => d # c /\ Holding(d) /\ job'[d] = job[d]
  BY <1>1, <1>3 DEF Creating, Holding
<1>6. ForcedMet' /\ OneHolds'
  BY <1>4, <1>5 DEF KeyInv, ForcedMet, OneHolds
<1>7. told.key[k] = NoKey /\ \A d \in Callers :
        d # c /\ Holding(d) /\ ~ job[d].force /\ job[d].key = k => ~ job[d].alone
  BY <1>1, <1>3, HolderAlone
<1>8. HeldKey'
  <2> SUFFICES ASSUME NEW d \in Callers, Holding(d)', ~ job'[d].force, job'[d].alone
               PROVE  keys'[job'[d].key] =
                        [secret |-> IF job'[d].stage = "write" THEN NoKey ELSE job'[d].secret,
                         private |-> TRUE]
    BY DEF HeldKey
  <2>1. d # c /\ Holding(d) /\ job'[d] = job[d]
    BY <1>5
  <2>2. keys[job[d].key] = [secret |-> IF job[d].stage = "write" THEN NoKey ELSE job[d].secret,
                            private |-> TRUE]
    BY <2>1 DEF KeyInv, HeldKey
  <2>3. job[d].key # k /\ job[d].key \in KeyFiles
    BY <2>1, <1>7 DEF Holding, Creating, Given, GivenTo
  <2> QED  BY <1>1, <1>2, <2>1, <2>2, <2>3
<1>9. ToldKey'
  <2> SUFFICES ASSUME NEW l \in KeyFiles, told'.key[l] # NoKey
               PROVE  /\ keys'[l] = [secret |-> told'.key[l], private |-> TRUE]
                      /\ \A d \in Callers : Creating(d)' /\ job'[d].key = l =>
                           ~ job'[d].force /\ ~ Holding(d)'
    BY DEF ToldKey
  <2>1. CASE l # k
    <3>1. told'.key[l] = told.key[l] /\ keys'[l] = keys[l]
      BY <1>1, <1>2, <2>1 DEF Typed
    <3> QED  BY <1>4, <1>5, <3>1 DEF KeyInv, ToldKey
  <2>2. CASE l = k
    <3>1. ~ job[c].force /\ job[c].alone /\ told'.key[k] = job[c].secret
      BY <1>1, <1>2, <1>7, <2>2 DEF Typed
    <3>2. keys[k] = [secret |-> job[c].secret, private |-> TRUE]
      BY <1>1, <1>3, <3>1 DEF KeyInv, HeldKey
    <3>3. keys'[k] = [secret |-> job[c].secret, private |-> TRUE]
      <4>1. keys'[k] = [keys[k] EXCEPT !.private = TRUE]
        BY <1>1, <1>2
      <4> QED  BY <3>2, <4>1, PrivateRecords
    <3>4. ASSUME NEW d \in Callers, Creating(d)', job'[d].key = k
          PROVE  ~ job'[d].force /\ ~ Holding(d)'
      <4>1. d # c /\ Creating(d) /\ job'[d] = job[d]
        BY <1>4, <3>4
      <4>2. ~ job[d].force
        BY <1>3, <3>1, <3>4, <4>1 DEF KeyInv, ForcedMet
      <4>3. ~ Holding(d)
        BY <1>3, <3>1, <3>4, <4>1, <4>2 DEF KeyInv, OneHolds
      <4> QED  BY <1>5, <4>1, <4>2, <4>3
    <3> QED  BY <2>2, <3>1, <3>3, <3>4
  <2> QED  BY <2>1, <2>2
<1> QED  BY <1>6, <1>8, <1>9 DEF KeyInv

LEMMA KeyStep ==
  ASSUME Typed, Given, KeyInv, [Next]_vars
  PROVE  KeyInv'
<1>1. ASSUME NEW c \in Callers, Steps(c), Next PROVE KeyInv'
  BY <1>1, KeysAside, KeyCreateCall, KeyOpened, KeyWritten, KeyProtected
<1>2. CASE UNCHANGED <<keys, job, told>>
  <2>1. \A d \in Callers : Calm(d)
    BY <1>2 DEF Calm, Creating, Holding
  <2> QED  BY <1>2, <2>1, KeyFrame
<1> QED  BY <1>1, <1>2, Movers DEF vars, Next, Steps

\* Types, and what calls are given, hold throughout.
Base == Typed /\ Given /\ Apart

THEOREM BaseTheorem == Spec => []Base
<1>1. Init => Base
  <2> SUFFICES ASSUME Init PROVE Base
    OBVIOUS
  <2>1. Typed
    BY TypedInit
  <2>2. \A c \in Callers : job[c] = Idle
    BY DEF Init
  <2>3. Given
    BY <2>2 DEF Given, GivenTo, Idle
  <2>4. \A p \in Paths : names[p] = None
    BY DEF Init
  <2>5. Apart
    BY <2>2, <2>4, PathFacts DEF Apart, DocsApart, WritersApart, Writing, Idle
  <2> QED  BY <2>1, <2>3, <2>5 DEF Base
<1>2. Base /\ [Next]_vars => Base'
  BY TypedStep, GivenStep, ApartStep DEF Base
<1> QED  BY <1>1, <1>2, PTL DEF Spec

\* A key that was reported created, by a call that no forced one met, is the key of
\* the file until a forced creation begins (model.py creates the file with O_EXCL).
THEOREM KeyIsKeptTheorem == Spec => []KeyIsKept
<1>1. Init => KeyInv
  <2> SUFFICES ASSUME Init PROVE KeyInv
    OBVIOUS
  <2>1. \A c \in Callers : ~ Creating(c) /\ ~ Holding(c)
    BY DEF Init, Creating, Holding, Idle
  <2>2. \A k \in KeyFiles : told.key[k] = NoKey
    BY DEF Init
  <2> QED  BY <2>1, <2>2 DEF KeyInv, ForcedMet, OneHolds, HeldKey, ToldKey
<1>2. Base /\ KeyInv /\ [Next]_vars => KeyInv'
  BY KeyStep DEF Base
<1>3. KeyInv => KeyIsKept
  BY DEF KeyInv, ToldKey, KeyIsKept
<1> QED  BY <1>1, <1>2, <1>3, BaseTheorem, PTL DEF Spec

-----------------------------------------------------------------------------
(* The configuration files *)

\* A step that leaves both files of a configuration as they are.
Still(f) ==
  \A p \in {f, Temporary(f)} :
    /\ names'[p] = names[p]
    /\ names[p] # None => inodes'[names[p]] = inodes[names[p]]

LEMMA StillOrHandled ==
  ASSUME Typed, Given, Apart, [Next]_vars, NEW f \in Configs
  PROVE  Still(f) \/ \E c \in Callers : Handles(c) /\ job[c].file = f
<1>1. CASE UNCHANGED <<names, inodes>>
  BY <1>1 DEF Still
<1>2. ASSUME NEW c \in Callers, Handles(c), job[c].file # f PROVE Still(f)
  BY <1>2, OtherFileStays DEF Still
<1> QED  BY <1>1, <1>2, Footprints

LEMMA StillHolds ==
  ASSUME NEW f \in Configs, Still(f), NEW doc, NEW p \in {f, Temporary(f)}
  PROVE  /\ Holds(p, doc)' <=> Holds(p, doc)
         /\ Config(p, doc)' <=> Config(p, doc)
BY DEF Still, Holds, Config

\* A step that leaves a call about a configuration where it was, or ends it.
Settled(d, f) ==
  /\ Writing(d, f)' => Writing(d, f)
  /\ Reporting(d, f)' => Reporting(d, f)
  /\ Writing(d, f)' \/ Reporting(d, f)' =>
       /\ job'[d].op = job[d].op /\ job'[d].stage = job[d].stage /\ job'[d].doc = job[d].doc
       /\ job'[d].alone = job[d].alone /\ job'[d].inode = job[d].inode
       /\ job'[d].seen = job[d].seen

LEMMA FileFrame ==
  ASSUME NEW f \in Configs, Still(f), told'.standing[f] = told.standing[f],
         \A d \in Callers : Settled(d, f), Undisturbed(f), Standing(f)
  PROVE  Undisturbed(f)' /\ Standing(f)'
<1>1. /\ names'[f] = names[f] /\ names'[Temporary(f)] = names[Temporary(f)]
      /\ names[Temporary(f)] # None =>
           inodes'[names[Temporary(f)]] = inodes[names[Temporary(f)]]
  BY DEF Still
<1>2. \A p \in {f, Temporary(f)} : \A doc :
        (Holds(p, doc)' <=> Holds(p, doc)) /\ (Config(p, doc)' <=> Config(p, doc))
  BY StillHolds
<1>3. Undisturbed(f)'
  <2> SUFFICES ASSUME NEW d \in Callers, Writing(d, f)' \/ Reporting(d, f)', job'[d].alone
               PROVE  (\A e \in Callers : Writing(e, f)' => e = d) /\ Progress(d, f)'
    BY DEF Undisturbed
  <2>1. (\A e \in Callers : Writing(e, f) => e = d) /\ Progress(d, f)
    BY DEF Settled, Undisturbed
  <2>2. Progress(d, f)'
    BY <1>1, <1>2, <2>1 DEF Progress, Settled
  <2> QED  BY <2>1, <2>2 DEF Settled
<1>4. Standing(f)'
  BY <1>1, <1>2 DEF Standing, Settled
<1> QED  BY <1>3, <1>4

LEMMA OthersSettled ==
  ASSUME job \in [Callers -> Calls], NEW c \in Callers, Steps(c), NEW d \in Callers, d # c,
         NEW f \in Configs
  PROVE  Settled(d, f) \/ (CallWrite(c) /\ job'[c].file = f)
<1>1. SameCall(job[d], job'[d])
  BY OthersStay
<1>2. ASSUME Writing(d, f)' \/ Reporting(d, f)', job'[c].file # f \/ ~ CallWrite(c)
      PROVE  job'[d].alone = job[d].alone
  <2>1. CASE CallWrite(c)
    <3>1. PICK g \in used.menu.files : job'[c].file = g /\ job'[d] = Disturb(job, g)[d]
      BY <2>1, WriteBegun
    <3>2. job[d].file = f /\ f # g
      BY <1>1, <1>2, <2>1, <3>1 DEF SameCall, Writing, Reporting
    <3> QED  BY <3>1, <3>2 DEF Disturb, Calls
  <2>2. CASE CallCreate(c)
    <3>1. job[d].op # "create"
      BY <1>1, <1>2 DEF SameCall, Writing, Reporting
    <3>2. PICK key \in KeyFiles, force \in BOOLEAN :
            job'[d] = IF force /\ d \in Creators(key) THEN [job[d] EXCEPT !.alone = FALSE]
                      ELSE job[d]
      BY <2>2, OthersBegun
    <3> QED  BY <3>1, <3>2 DEF Creators
  <2>3. CASE job'[d] = job[d]
    BY <2>3
  <2> QED  BY <2>1, <2>2, <2>3, OthersStay
<1>3. (Writing(d, f)' <=> Writing(d, f)) /\ (Reporting(d, f)' <=> Reporting(d, f))
  BY <1>1 DEF SameCall, Writing, Reporting
<1>4. \/ Writing(d, f)' \/ Reporting(d, f)' => job'[d].alone = job[d].alone
      \/ CallWrite(c) /\ job'[c].file = f
  BY <1>2
<1>5. /\ job'[d].op = job[d].op /\ job'[d].stage = job[d].stage /\ job'[d].doc = job[d].doc
      /\ job'[d].inode = job[d].inode /\ job'[d].seen = job[d].seen
  BY <1>1 DEF SameCall
<1> QED  BY <1>3, <1>4, <1>5 DEF Settled

LEMMA MoverSettled ==
  ASSUME Typed, Given, NEW c \in Callers, Steps(c), NEW f \in Configs
  PROVE  \/ Settled(c, f)
         \/ CallWrite(c) /\ job'[c].file = f
         \/ Handles(c) /\ Writing(c, f)
         \/ Configured(c) /\ Writing(c, f)
         \/ ReadStatus(c) /\ Reporting(c, f)
<1> job \in [Callers -> Calls]
  BY DEF Typed
<1>1. CASE ~ Writing(c, f)' /\ ~ Reporting(c, f)'
  BY <1>1 DEF Settled
<1>2. CASE Writing(c, f)'
  <2>1. job'[c].op = "write" /\ job'[c].stage # "done" /\ job'[c].file = f
    BY <1>2 DEF Writing
  <2>2. CASE Handles(c)
    <3>1. job[c].op = "write" /\ job[c].stage # "done"
      BY <2>2 DEF Handles, OpenTemporary, WriteTemporary, WriteFails, ChmodTemporary, Replace,
         Protect, At
    <3>2. /\ ~ CallWrite(c) /\ ~ CallWriteBad(c) /\ ~ CallShow(c) /\ ~ CallCreate(c)
          /\ ~ CallStack(c)
      BY <3>1 DEF CallWrite, CallWriteBad, CallShow, CallCreate, CallStack, Begin
    <3>3. job'[c].file = job[c].file
      BY <2>1, <3>2, Onward
    <3> QED  BY <2>1, <2>2, <3>1, <3>3 DEF Writing
  <2> QED  BY <2>1, <2>2, Onward DEF Handles
<1>3. CASE Reporting(c, f)'
  <2>1. /\ job'[c].op = "show" /\ job'[c].stage # "done" /\ job'[c].doc # None
        /\ job'[c].file = f
    BY <1>3 DEF Reporting
  <2>2. ~ CallWriteBad(c) /\ ~ CallShow(c)
    BY <2>1, OthersBegun
  <2>3. Configured(c) \/ ReadConfigured(c) \/ ReadStatus(c)
    BY <2>1, <2>2, Onward
  <2>4. /\ job[c].stage # "done" /\ job'[c].file = job[c].file /\ job'[c].doc = job[c].doc
    BY <2>3 DEF Configured, ReadConfigured, ReadStatus, At, Calls
  <2>5. ~ ReadConfigured(c)
    BY <2>1, <2>4 DEF ReadConfigured, At, Given, GivenTo
  <2> QED  BY <2>1, <2>3, <2>4, <2>5 DEF Configured, ReadStatus, At, Writing, Reporting
<1> QED  BY <1>1, <1>2, <1>3

\* A write that begins: another writer of the file, if there is one, ends its claim.
LEMMA WriteCalled ==
  ASSUME Typed, Given, NEW c \in Callers, CallWrite(c), NEW f \in Configs, job'[c].file = f,
         Undisturbed(f), Standing(f)
  PROVE  Undisturbed(f)' /\ Standing(f)'
<1> job \in [Callers -> Calls]
  BY DEF Typed
<1>1. PICK doc \in Documents :
        /\ job'[c].op = "write" /\ job'[c].stage = "open" /\ job'[c].doc = doc
        /\ (job'[c].alone <=> Writers(f) = {})
        /\ \A d \in Callers : d # c => job'[d] = Disturb(job, f)[d]
        /\ told' = [told EXCEPT
             !.standing[f] = IF @ = {} \/ Writers(f) # {} THEN {} ELSE @ \cup {doc},
             !.promise = IF f = "daily" THEN None ELSE @]
  <2>1. PICK g \in used.menu.files, doc \in Documents :
           /\ doc \in Of(g)
           /\ job'[c].op = "write" /\ job'[c].stage = "open" /\ job'[c].file = g
           /\ job'[c].doc = doc /\ job'[c].promise = None
           /\ (job'[c].alone <=> Writers(g) = {})
           /\ \A d \in Callers : d # c => job'[d] = Disturb(job, g)[d]
           /\ told' = [told EXCEPT
                !.standing[g] = IF @ = {} \/ Writers(g) # {} THEN {} ELSE @ \cup {doc},
                !.promise = IF g = "daily" THEN None ELSE @]
    BY WriteBegun
  <2>2. g = f
    BY <2>1
  <2> QED  BY <2>1, <2>2
<1>2. Still(f) /\ UNCHANGED <<names, inodes>>
  BY DEF CallWrite, Begin, Still
<1>3. \A d \in Callers : d # c => SameCall(job[d], job'[d])
  BY OthersStay DEF Steps
<1>4. Writing(c, f)' /\ ~ Reporting(c, f)' /\ ~ Writing(c, f)
  BY <1>1 DEF CallWrite, Begin, Writing, Reporting
<1>5. \A d \in Callers : d # c => (Writing(d, f)' <=> Writing(d, f))
  BY <1>3 DEF SameCall, Writing
<1>6. \A d \in Callers : d # c /\ (Writing(d, f)' \/ Reporting(d, f)') => ~ job'[d].alone
  <2> SUFFICES ASSUME NEW d \in Callers, d # c, Writing(d, f)' \/ Reporting(d, f)'
               PROVE  ~ job'[d].alone
    OBVIOUS
  <2>1. job[d].op # "stack" /\ job[d].file = f /\ job[d].stage # "done"
    BY <1>3 DEF SameCall, Writing, Reporting
  <2>2. job[d].doc # None
    <3>1. CASE Reporting(d, f)'
      BY <1>3, <3>1 DEF SameCall, Reporting
    <3>2. CASE Writing(d, f)'
      BY <1>3, <3>2, NoneFacts DEF SameCall, Writing, Given, GivenTo, Of, Documents
    <3> QED  BY <3>1, <3>2
  <2>3. job'[d] = [job[d] EXCEPT !.alone = FALSE]
    BY <1>1, <2>1, <2>2 DEF Disturb
  <2> QED  BY <2>3 DEF Calls
<1>7. Writers(f) = {} => \A d \in Callers : ~ Writing(d, f)
  BY DEF Writers, Writing
<1>8. Undisturbed(f)'
  <2> SUFFICES ASSUME NEW d \in Callers, Writing(d, f)' \/ Reporting(d, f)', job'[d].alone
               PROVE  (\A e \in Callers : Writing(e, f)' => e = d) /\ Progress(d, f)'
    BY DEF Undisturbed
  <2>1. d = c
    BY <1>6
  <2>2. Progress(c, f)'
    BY <1>1 DEF Progress
  <2> QED  BY <1>1, <1>5, <1>7, <2>1, <2>2
<1>9. Standing(f)'
  <2> SUFFICES ASSUME told'.standing[f] # {} PROVE Standing(f)'
    BY DEF Standing
  <2>1. told.standing[f] # {} /\ Writers(f) = {} /\ told'.standing[f] = told.standing[f] \cup {doc}
    BY <1>1 DEF Typed
  <2>2. \A d \in Callers : Writing(d, f)' => d = c
    BY <1>5, <1>7, <2>1
  <2>3. \A e : Config(f, e)' <=> Config(f, e)
    BY <1>2, StillHolds
  <2> QED  BY <1>1, <1>2, <2>1, <2>2, <2>3 DEF Standing
<1> QED  BY <1>8, <1>9

\* What a step does to the files of a writer that no other has met.
LEMMA OwnHandled ==
  ASSUME Typed, Given, NEW c \in Callers, Handles(c), NEW f \in Configs, Writing(c, f),
         Progress(c, f)
  PROVE  /\ job'[c].stage # "done" => Progress(c, f)'
         /\ \/ names'[f] # None /\ Config(f, job[c].doc)' /\ job'[c].doc = job[c].doc
            \/ names'[f] = names[f] /\ \A doc : Config(f, doc) => Config(f, doc)'
<1> DEFINE tmp == Temporary(f)
           doc == job[c].doc
<1>1. /\ job[c].file = f /\ f \in Paths /\ tmp \in Paths /\ f # tmp
      /\ job[c].op = "write" /\ job[c].stage # "done"
  BY CallPaths DEF Writing
<1>2. /\ names \in [Paths -> {None} \cup Nat] /\ inodes \in Seq(Files)
      /\ \A q \in Paths : names[q] # None => names[q] \in DOMAIN inodes
      /\ \A p, q \in Paths : names[p] = names[q] /\ names[p] # None => p = q
      /\ job \in [Callers -> Calls]
  BY DEF Typed
<1>3. doc \in Documents /\ doc # None /\ doc.size \in Nat \ {0}
  BY <1>1, NoneFacts DEF Given, GivenTo, Of, Documents
<1>4. \A q \in Paths : names[q] # None => inodes[names[q]] \in Files
  BY <1>2
<1> HIDE DEF tmp, doc
<1>5. CASE OpenTemporary(c)
  <2>1. PICK i : job' = [job EXCEPT ![c].stage = "write", ![c].inode = i]
                 /\ i = IF names[tmp] = None THEN Len(inodes) + 1 ELSE names[tmp]
    BY <1>1, <1>5 DEF OpenTemporary, tmp
  <2>2. job'[c].op = "write" /\ job'[c].stage = "write" /\ job'[c].inode = i
    BY <1>1, <1>2, <2>1 DEF Calls
  <2>3. CASE names[tmp] = None
    <3>1. /\ inodes' = Append(inodes, [text |-> EmptyText, private |-> FALSE])
          /\ names' = [names EXCEPT ![tmp] = Len(inodes) + 1]
      BY <1>1, <1>5, <2>3 DEF OpenTemporary, tmp
    <3>2. names'[tmp] = i /\ i # None /\ inodes'[i].text = EmptyText
      BY <1>1, <1>2, <2>1, <2>3, <3>1, NoneFacts
    <3>3. names'[f] = names[f] /\ (names[f] # None => inodes'[names[f]] = inodes[names[f]])
      BY <1>1, <1>2, <3>1
    <3> QED  BY <2>2, <3>2, <3>3 DEF Progress, Config, Holds, tmp
  <2>4. CASE names[tmp] # None
    <3>1. /\ inodes' = [inodes EXCEPT ![names[tmp]].text = EmptyText]
          /\ names' = names
      BY <1>1, <1>5, <2>4 DEF OpenTemporary, tmp
    <3>2. inodes'[names[tmp]].text = EmptyText
      BY <1>1, <1>2, <1>4, <2>4, <3>1 DEF Files
    <3>3. names[f] # None => inodes'[names[f]] = inodes[names[f]]
      BY <1>1, <1>2, <2>4, <3>1
    <3> QED  BY <2>1, <2>2, <2>4, <3>1, <3>2, <3>3 DEF Progress, Config, Holds, tmp
  <2> QED  BY <2>3, <2>4
<1>6. CASE WriteTemporary(c) \/ WriteFails(c)
  <2>1. names[tmp] # None /\ names[tmp] = job[c].inode /\ inodes[names[tmp]].text = EmptyText
        /\ names' = names
    BY <1>1, <1>6 DEF WriteTemporary, WriteFails, At, Progress, tmp
  <2>2. names[f] # None => inodes'[names[f]] = inodes[names[f]]
    BY <1>1, <1>2, <1>6, <2>1 DEF WriteTemporary, WriteFails
  <2>3. WriteFails(c) => job'[c].stage = "done"
    BY <1>2 DEF WriteFails, Finish, Calls
  <2>4. WriteTemporary(c) => job'[c].op = "write" /\ job'[c].stage = "chmod" /\ job'[c].doc = doc
    BY <1>1, <1>2 DEF WriteTemporary, Goto, Calls, doc
  <2>5. ASSUME WriteTemporary(c)
        PROVE  inodes'[names[tmp]].text = [doc |-> doc, length |-> doc.size]
    <3>1. inodes'[names[tmp]].text = Overwrite(EmptyText, doc)
      BY <1>1, <1>2, <1>4, <2>1, <2>5 DEF WriteTemporary, Files, doc
    <3>2. Larger(0, doc.size) = doc.size
      BY <1>3 DEF Larger
    <3> QED  BY <3>1, <3>2 DEF Overwrite, EmptyText
  <2>6. Holds(tmp, doc)' \/ ~ WriteTemporary(c)
    BY <1>3, <2>1, <2>4, <2>5 DEF Holds, doc
  <2>7. job'[c].stage # "done" => Progress(c, f)'
    BY <1>6, <2>3, <2>4, <2>6 DEF Progress, doc, tmp
  <2> QED  BY <2>1, <2>2, <2>7 DEF Config, Holds
<1>7. CASE ChmodTemporary(c)
  <2>1. Holds(tmp, doc) /\ names[tmp] # None /\ names' = names
    BY <1>1, <1>7 DEF ChmodTemporary, At, Progress, Holds, tmp, doc
  <2>2. inodes' = [inodes EXCEPT ![names[tmp]].private = TRUE]
    BY <1>1, <1>7, <2>1 DEF ChmodTemporary, tmp
  <2>3. job'[c].op = "write" /\ job'[c].stage = "replace" /\ job'[c].doc = doc
    BY <1>1, <1>2, <1>7, <2>1 DEF ChmodTemporary, Goto, Calls, tmp, doc
  <2>4. names[f] # None => inodes'[names[f]] = inodes[names[f]]
    BY <1>1, <1>2, <2>1, <2>2
  <2>5. inodes'[names[tmp]].text = inodes[names[tmp]].text /\ inodes'[names[tmp]].private
    BY <1>1, <1>2, <1>4, <2>1, <2>2 DEF Files
  <2>6. Config(tmp, doc)'
    BY <2>1, <2>3, <2>5 DEF Config, Holds, doc
  <2> QED  BY <2>1, <2>3, <2>4, <2>6 DEF Progress, Config, Holds, tmp, doc
<1>8. CASE Replace(c)
  <2>1. Config(tmp, doc) /\ names[tmp] # None
    BY <1>1, <1>8 DEF Replace, At, Progress, Config, Holds, tmp, doc
  <2>2. inodes' = inodes /\ names' = [names EXCEPT ![f] = names[tmp], ![tmp] = None]
    BY <1>1, <1>8, <2>1 DEF Replace, tmp
  <2>3. job'[c].op = "write" /\ job'[c].stage = "protect" /\ job'[c].doc = doc
    BY <1>1, <1>2, <1>8, <2>1 DEF Replace, Goto, Calls, tmp, doc
  <2>4. names'[f] = names[tmp]
    BY <1>1, <1>2, <2>2
  <2>5. Config(f, doc)'
    BY <2>1, <2>2, <2>3, <2>4 DEF Config, Holds, doc
  <2> QED  BY <2>1, <2>3, <2>4, <2>5 DEF Progress, doc
<1>9. CASE Protect(c)
  <2>1. Config(f, doc) /\ names[f] # None /\ names' = names
    BY <1>1, <1>9 DEF Protect, At, Progress, Config, Holds, doc
  <2>2. inodes' = [inodes EXCEPT ![names[f]].private = TRUE]
    BY <1>1, <1>9 DEF Protect
  <2>3. job'[c].op = "write" /\ job'[c].stage = "reread" /\ job'[c].doc = doc
    BY <1>1, <1>2, <1>9 DEF Protect, Goto, Calls, doc
  <2>4. inodes'[names[f]].text = inodes[names[f]].text /\ inodes'[names[f]].private
    BY <1>1, <1>2, <1>4, <2>1, <2>2 DEF Files
  <2>5. Config(f, doc)'
    BY <2>1, <2>3, <2>4 DEF Config, Holds, doc
  <2> QED  BY <2>1, <2>3, <2>5 DEF Progress, doc
<1> QED  BY <1>5, <1>6, <1>7, <1>8, <1>9 DEF Handles

LEMMA FileHandled ==
  ASSUME Typed, Given, NEW c \in Callers, Handles(c), NEW f \in Configs, Writing(c, f),
         Undisturbed(f), Standing(f)
  PROVE  Undisturbed(f)' /\ Standing(f)'
<1> job \in [Callers -> Calls]
  BY DEF Typed
<1>1. ~ CallWrite(c) /\ ~ CallCreate(c) /\ ~ Configured(c) /\ Steps(c)
  <2>1. job[c].op = "write" /\ job[c].stage # "done"
    BY DEF Writing
  <2>2. ~ Configured(c)
    BY DEF Handles, OpenTemporary, WriteTemporary, WriteFails, ChmodTemporary, Replace, Protect,
       Configured, At
  <2> QED  BY <2>1, <2>2 DEF CallWrite, CallCreate, Begin, Steps, Handles
<1>2. \A d \in Callers : d # c => job'[d] = job[d]
  BY <1>1, OthersStay
<1>3. told' = told
  BY DEF Handles, OpenTemporary, WriteTemporary, WriteFails, ChmodTemporary, Replace, Protect
<1>4. job'[c].stage # "done" =>
        job'[c].op = job[c].op /\ job'[c].doc = job[c].doc /\ job'[c].alone = job[c].alone
  <2>1. ~ CallWriteBad(c) /\ ~ CallShow(c) /\ ~ CallStack(c)
    BY DEF CallWriteBad, CallShow, CallStack, Begin, Writing
  <2> QED  BY <1>1, <2>1, Onward
<1>5. \A d \in Callers : Writing(d, f)' => Writing(d, f) /\ job'[d].alone = job[d].alone
                                           /\ job'[d].doc = job[d].doc
  BY <1>2, <1>4 DEF Writing
<1>6. ~ Reporting(c, f)'
  BY <1>4 DEF Writing, Reporting
<1>7. CASE ~ job[c].alone
  <2>1. Undisturbed(f)'
    <3> SUFFICES ASSUME NEW d \in Callers, Writing(d, f)' \/ Reporting(d, f)', job'[d].alone
                 PROVE  FALSE
      BY DEF Undisturbed
    <3>1. d # c
      BY <1>5, <1>6, <1>7
    <3>2. (Writing(d, f) \/ Reporting(d, f)) /\ job[d].alone
      BY <1>2, <3>1 DEF Writing, Reporting
    <3> QED  BY <3>1, <3>2 DEF Undisturbed
  <2>2. told.standing[f] = {}
    BY <1>7 DEF Standing
  <2> QED  BY <1>3, <2>1, <2>2 DEF Standing
<1>8. CASE job[c].alone
  <2>1. (\A d \in Callers : Writing(d, f) => d = c) /\ Progress(c, f)
    BY <1>8 DEF Undisturbed
  <2>2. /\ job'[c].stage # "done" => Progress(c, f)'
        /\ \/ names'[f] # None /\ Config(f, job[c].doc)' /\ job'[c].doc = job[c].doc
           \/ names'[f] = names[f] /\ \A doc : Config(f, doc) => Config(f, doc)'
    BY <2>1, OwnHandled
  <2>3. Undisturbed(f)'
    <3> SUFFICES ASSUME NEW d \in Callers, Writing(d, f)' \/ Reporting(d, f)', job'[d].alone
                 PROVE  (\A e \in Callers : Writing(e, f)' => e = d) /\ Progress(d, f)'
      BY DEF Undisturbed
    <3>1. d = c
      <4> SUFFICES ASSUME d # c PROVE FALSE
        OBVIOUS
      <4>1. (Writing(d, f) \/ Reporting(d, f)) /\ job[d].alone
        BY <1>2 DEF Writing, Reporting
      <4> QED  BY <4>1 DEF Undisturbed
    <3>2. job'[c].stage # "done"
      BY <1>6, <3>1 DEF Writing
    <3> QED  BY <1>5, <2>1, <2>2, <3>1, <3>2
  <2>4. Standing(f)'
    <3> SUFFICES ASSUME told.standing[f] # {} PROVE Standing(f)'
      BY <1>3 DEF Standing
    <3>1. /\ names[f] = None => None \in told.standing[f]
          /\ names[f] # None => \E doc \in told.standing[f] : Config(f, doc)
          /\ \A d \in Callers : Writing(d, f) => job[d].alone /\ job[d].doc \in told.standing[f]
      BY DEF Standing
    <3>2. \A d \in Callers : Writing(d, f)' => job'[d].alone /\ job'[d].doc \in told.standing[f]
      BY <1>5, <3>1
    <3>3. CASE names'[f] = names[f] /\ \A doc : Config(f, doc) => Config(f, doc)'
      BY <1>3, <3>1, <3>2, <3>3 DEF Standing
    <3>4. CASE names'[f] # None /\ Config(f, job[c].doc)' /\ job'[c].doc = job[c].doc
      BY <1>3, <3>1, <3>2, <3>4 DEF Standing
    <3> QED  BY <2>2, <3>3, <3>4
  <2> QED  BY <2>3, <2>4
<1> QED  BY <1>7, <1>8

\* The last step of a write: what it reports, when no other has met it, is the file.
LEMMA FileReported ==
  ASSUME Typed, Given, NEW c \in Callers, RereadDaily(c) \/ Configured(c), NEW f \in Configs,
         Writing(c, f), Undisturbed(f), Standing(f)
  PROVE  Undisturbed(f)' /\ Standing(f)'
<1> job \in [Callers -> Calls] /\ told.standing \in [Configs -> SUBSET (Documents \cup {None})]
  BY DEF Typed
<1>1. /\ \A d \in Callers : d # c => job'[d] = job[d]
      /\ ~ Writing(c, f)'
      /\ job'[c].alone = job[c].alone /\ job'[c].doc = job[c].doc
      /\ Reporting(c, f)' => job'[c].op = "show" /\ job'[c].stage = "status"
  <2>1. CASE RereadDaily(c)
    BY <2>1 DEF RereadDaily, Finish, Writing, Reporting, Calls
  <2>2. CASE Configured(c)
    BY <2>2 DEF Configured, Writing, Reporting, Calls
  <2> QED  BY <2>1, <2>2
<1>2. names' = names /\ inodes' = inodes
  BY DEF RereadDaily, Configured
<1>3. told'.standing[f] = IF job[c].alone /\ told.standing[f] # {} THEN {job[c].doc}
                          ELSE told.standing[f]
  <2>1. told \in [standing : [Configs -> SUBSET (Documents \cup {None})],
                  promise : Documents \cup {None}, key : [KeyFiles -> Int]]
    BY DEF Typed
  <2>2. ASSUME NEW g \in Configs, NEW v, NEW w
        PROVE  /\ [told EXCEPT !.promise = w, !.standing[g] = v].standing[g] = v
               /\ [told EXCEPT !.standing[g] = v].standing[g] = v
    BY <2>1
  <2>3. CASE ~ job[c].alone
    BY <2>3 DEF RereadDaily, Configured
  <2>4. CASE job[c].alone /\ RereadDaily(c)
    <3>1. f = "daily" /\ "daily" \in Configs
      BY <2>4, PathFacts DEF RereadDaily, Writing, At
    <3>2. told' = [told EXCEPT !.promise = job[c].doc,
                     !.standing["daily"] = IF told.standing["daily"] = {} THEN {} ELSE {job[c].doc}]
      BY <2>4 DEF RereadDaily
    <3>3. told'.standing["daily"] = IF told.standing["daily"] = {} THEN {} ELSE {job[c].doc}
      BY <2>2, <3>1, <3>2
    <3> QED  BY <2>4, <3>1, <3>3
  <2>5. CASE job[c].alone /\ Configured(c)
    <3>1. f = "model" /\ "model" \in Configs
      BY <2>5, PathFacts DEF Configured, Writing, At
    <3>2. told' = [told EXCEPT
                     !.standing["model"] = IF told.standing["model"] = {} THEN {} ELSE {job[c].doc}]
      BY <2>5 DEF Configured
    <3>3. told'.standing["model"] = IF told.standing["model"] = {} THEN {} ELSE {job[c].doc}
      BY <2>2, <3>1, <3>2
    <3> QED  BY <2>5, <3>1, <3>3
  <2> QED  BY <2>3, <2>4, <2>5
<1>4. \A doc : Config(f, doc)' <=> Config(f, doc)
  BY <1>2 DEF Config, Holds
<1>5. \A d \in Callers : Writing(d, f)' => d # c /\ Writing(d, f) /\ job'[d] = job[d]
  BY <1>1 DEF Writing
<1>6. \A d \in Callers : d # c /\ (Writing(d, f)' \/ Reporting(d, f)') => ~ job'[d].alone
  <2> SUFFICES ASSUME NEW d \in Callers, d # c, Writing(d, f)' \/ Reporting(d, f)', job'[d].alone
               PROVE  FALSE
    OBVIOUS
  <2>1. (Writing(d, f) \/ Reporting(d, f)) /\ job[d].alone
    BY <1>1 DEF Writing, Reporting
  <2> QED  BY <2>1 DEF Undisturbed
<1>7. job[c].alone => /\ Config(f, job[c].doc) /\ names[f] # None
                      /\ \A d \in Callers : ~ Writing(d, f)'
  <2> SUFFICES ASSUME job[c].alone
               PROVE  /\ Config(f, job[c].doc) /\ names[f] # None
                      /\ \A d \in Callers : ~ Writing(d, f)'
    OBVIOUS
  <2>1. (\A d \in Callers : Writing(d, f) => d = c) /\ Progress(c, f)
    BY DEF Undisturbed
  <2>2. Config(f, job[c].doc)
    BY <2>1 DEF RereadDaily, Configured, At, Progress
  <2> QED  BY <1>5, <2>1, <2>2 DEF Config, Holds
<1>8. Undisturbed(f)'
  <2> SUFFICES ASSUME NEW d \in Callers, Writing(d, f)' \/ Reporting(d, f)', job'[d].alone
               PROVE  (\A e \in Callers : Writing(e, f)' => e = d) /\ Progress(d, f)'
    BY DEF Undisturbed
  <2>1. d = c
    BY <1>6
  <2>2. job[c].alone /\ Config(f, job[c].doc)'
    BY <1>1, <1>2, <1>7, <2>1 DEF Config, Holds
  <2>3. Progress(c, f)'
    BY <1>1, <2>1, <2>2 DEF Progress
  <2> QED  BY <1>7, <2>1, <2>2, <2>3
<1>9. Standing(f)'
  <2> SUFFICES ASSUME told'.standing[f] # {} PROVE Standing(f)'
    BY DEF Standing
  <2>1. CASE job[c].alone
    BY <1>2, <1>3, <1>4, <1>7, <2>1 DEF Standing
  <2>2. CASE ~ job[c].alone
    BY <1>2, <1>3, <1>4, <1>5, <2>2 DEF Standing
  <2> QED  BY <2>1, <2>2
<1> QED  BY <1>8, <1>9

\* Both readers find the document of a configuration that is whole.
LEMMA ConfigIsRead ==
  ASSUME NEW doc
  PROVE  /\ Config("model", doc) => ReadModelConfig = doc
         /\ Config("daily", doc) => ReadDailyConfig = doc
<1>1. ASSUME NEW p, Holds(p, doc)
      PROVE  names[p] # None /\ Whole(inodes[names[p]].text) /\ inodes[names[p]].text.doc = doc
  <2>1. doc # None
    BY <1>1, NoneFacts DEF Holds
  <2> QED  BY <1>1, <2>1 DEF Holds, Whole
<1> QED  BY <1>1 DEF Config, ReadModelConfig, ReadDailyConfig

LEMMA StatusRead ==
  ASSUME Typed, Given, NEW c \in Callers, ReadStatus(c), NEW f \in Configs, Reporting(c, f),
         Undisturbed(f), Standing(f)
  PROVE  Undisturbed(f)' /\ Standing(f)'
<1> job \in [Callers -> Calls]
  BY DEF Typed
<1>1. /\ \A d \in Callers : d # c => job'[d] = job[d]
      /\ job'[c].op = "show" /\ job'[c].stage = "key" /\ job'[c].seen = ReadModelConfig
      /\ job'[c].alone = job[c].alone /\ job'[c].doc = job[c].doc
  <2>1. PICK probe : job' = [job EXCEPT ![c].stage = "key", ![c].seen = ReadModelConfig,
                                        ![c].probe = probe]
    BY DEF ReadStatus
  <2> HIDE DEF ReadModelConfig
  <2>2. job[c].op = "show"
    BY DEF Reporting
  <2> QED  BY <2>1, <2>2 DEF Calls
<1>2. UNCHANGED <<names, inodes, told>>
  BY DEF ReadStatus
<1>3. f = "model" /\ job[c].stage = "status" /\ job[c].op = "show"
  BY DEF Reporting, Given, GivenTo, ReadStatus, At
<1>4. \A d \in Callers : (Writing(d, f)' <=> Writing(d, f)) /\ job'[d].alone = job[d].alone
                         /\ job'[d].doc = job[d].doc
  BY <1>1, <1>3 DEF Writing
<1>5. \A d \in Callers : d # c => (Reporting(d, f)' <=> Reporting(d, f))
  BY <1>1 DEF Reporting
<1>6. Undisturbed(f)'
  <2> SUFFICES ASSUME NEW d \in Callers, Writing(d, f)' \/ Reporting(d, f)', job'[d].alone
               PROVE  (\A e \in Callers : Writing(e, f)' => e = d) /\ Progress(d, f)'
    BY DEF Undisturbed
  <2>1. (\A e \in Callers : Writing(e, f) => e = d) /\ Progress(d, f)
    BY <1>4, <1>5 DEF Undisturbed
  <2>2. CASE d = c
    <3>1. ReadModelConfig = job[c].doc
      BY <1>3, <2>1, <2>2, ConfigIsRead DEF Progress
    <3>2. Progress(c, f)'
      BY <1>1, <3>1 DEF Progress
    <3> QED  BY <1>4, <2>1, <2>2, <3>2
  <2>3. CASE d # c
    <3>1. Progress(d, f)'
      BY <1>1, <1>2, <2>1, <2>3 DEF Progress, Config, Holds
    <3> QED  BY <1>4, <2>1, <3>1
  <2> QED  BY <2>2, <2>3
<1>7. Standing(f)'
  BY <1>2, <1>4 DEF Standing, Config, Holds
<1> QED  BY <1>6, <1>7

\* What a write that begins takes back in the history, and what not.
LEMMA WriteTold ==
  ASSUME Typed, NEW c \in Callers, CallWrite(c)
  PROVE  /\ told'.promise = IF job'[c].file = "daily" THEN None ELSE told.promise
         /\ \A g \in Configs : g # job'[c].file => told'.standing[g] = told.standing[g]
<1>1. job \in [Callers -> Calls]
  BY DEF Typed
<1>2. told \in [standing : [Configs -> SUBSET (Documents \cup {None})],
                 promise : Documents \cup {None}, key : [KeyFiles -> Int]]
  BY DEF Typed
<1>3. PICK f \in used.menu.files, doc \in Documents :
           /\ doc \in Of(f)
           /\ job'[c].op = "write" /\ job'[c].stage = "open" /\ job'[c].file = f
           /\ job'[c].doc = doc /\ job'[c].promise = None
           /\ (job'[c].alone <=> Writers(f) = {})
           /\ \A d \in Callers : d # c => job'[d] = Disturb(job, f)[d]
           /\ told' = [told EXCEPT
                !.standing[f] = IF @ = {} \/ Writers(f) # {} THEN {} ELSE @ \cup {doc},
                !.promise = IF f = "daily" THEN None ELSE @]
  BY <1>1, WriteBegun
<1> QED  BY <1>2, <1>3

\* What is promised of the daily configuration is there and stays until it is written.
LEMMA PromiseStep ==
  ASSUME Typed, Given, Apart, FileInv, [Next]_vars
  PROVE  Promised'
<1> job \in [Callers -> Calls] /\ "daily" \in Configs
  BY PathFacts DEF Typed
<1>1. ASSUME Still("daily"), told'.promise = told.promise,
             \A d \in Callers : Writing(d, "daily")' => Writing(d, "daily")
      PROVE  Promised'
  <2>1. \A doc : Config("daily", doc)' <=> Config("daily", doc)
    BY <1>1, StillHolds
  <2> QED  BY <1>1, <2>1 DEF FileInv, Promised
<1>2. CASE UNCHANGED <<names, inodes, job, told>>
  <2>1. Still("daily")
    BY <1>2 DEF Still
  <2> QED  BY <1>1, <1>2, <2>1 DEF Writing
<1>3. ASSUME NEW c \in Callers, Steps(c), Next PROVE Promised'
  <2>1. CASE CallWrite(c) /\ job'[c].file = "daily"
    <3>1. told'.promise = None
      BY <2>1, WriteBegun DEF Typed
    <3> QED  BY <3>1 DEF Promised
  <2>2. CASE Handles(c) /\ Writing(c, "daily")
    <3>1. told' = told
      BY <2>2 DEF Handles, OpenTemporary, WriteTemporary, WriteFails, ChmodTemporary, Replace,
         Protect
    <3> QED  BY <2>2, <3>1 DEF FileInv, Promised
  <2>3. CASE RereadDaily(c)
    <3>1. Writing(c, "daily") /\ names' = names /\ inodes' = inodes
      BY <2>3 DEF RereadDaily, At, Writing
    <3>2. CASE ~ job[c].alone
      <4>1. told' = told
        BY <2>3, <3>2 DEF RereadDaily
      <4> QED  BY <3>1, <4>1 DEF FileInv, Promised
    <3>3. CASE job[c].alone
      <4>1. (\A d \in Callers : Writing(d, "daily") => d = c) /\ Progress(c, "daily")
        BY <3>1, <3>3 DEF FileInv, Undisturbed
      <4>2. Config("daily", job[c].doc)
        BY <2>3, <4>1 DEF RereadDaily, At, Progress
      <4>3. told'.promise = job[c].doc
        <5>1. told' = [told EXCEPT !.promise = job[c].doc,
                         !.standing["daily"] = IF told.standing["daily"] = {} THEN {}
                                               ELSE {job[c].doc}]
          BY <2>3, <3>3 DEF RereadDaily
        <5> QED  BY <5>1 DEF Typed
      <4>4. \A d \in Callers : ~ Writing(d, "daily")'
        BY <2>3, <4>1 DEF RereadDaily, Finish, Writing, Calls
      <4> QED  BY <3>1, <4>2, <4>3, <4>4 DEF Promised, Config, Holds
    <3> QED  BY <3>2, <3>3
  <2>4. CASE /\ ~ (CallWrite(c) /\ job'[c].file = "daily") /\ ~ RereadDaily(c)
             /\ ~ (Handles(c) /\ Writing(c, "daily"))
    <3>1. Still("daily")
      <4>1. CASE UNCHANGED <<names, inodes>>
        BY <4>1 DEF Still
      <4>2. CASE Handles(c)
        <5>1. job[c].op = "write" /\ job[c].stage # "done"
          BY <4>2 DEF Handles, OpenTemporary, WriteTemporary, WriteFails, ChmodTemporary, Replace,
             Protect, At
        <5>2. job[c].file # "daily"
          BY <2>4, <4>2, <5>1 DEF Writing
        <5> QED  BY <4>2, <5>2, OtherFileStays DEF Still
      <4> QED  BY <1>3, <4>1, <4>2, Footprint
    <3>2. \A d \in Callers : Writing(d, "daily")' => Writing(d, "daily")
      <4>1. \A d \in Callers : d # c => (Writing(d, "daily")' => Writing(d, "daily"))
        BY <1>3, OthersStay DEF SameCall, Writing
      <4>2. Writing(c, "daily")' => Writing(c, "daily")
        <5>1. ReadStatus(c) => ~ Writing(c, "daily")'
          BY DEF ReadStatus, At, Writing, Calls
        <5>2. \/ Settled(c, "daily") \/ ReadStatus(c) \/ Writing(c, "daily")
              \/ CallWrite(c) /\ job'[c].file = "daily"
          BY <1>3, MoverSettled
        <5> QED  BY <2>4, <5>1, <5>2 DEF Settled
      <4> QED  BY <4>1, <4>2
    <3>3. told'.promise = told.promise
      <4>1. CASE CallWrite(c)
        BY <2>4, <4>1, WriteTold
      <4>2. CASE Configured(c)
        BY <4>2 DEF Configured, Typed
      <4>3. CASE CallCreate(c)
        BY <4>3, OthersBegun DEF Typed
      <4>4. CASE ProtectKey(c)
        BY <4>4 DEF ProtectKey, Typed
      <4> QED  BY <1>3, <2>4, <4>1, <4>2, <4>3, <4>4, Footprint
    <3> QED  BY <1>1, <3>1, <3>2, <3>3
  <2> QED  BY <2>1, <2>2, <2>3, <2>4
<1> QED  BY <1>2, <1>3, Movers DEF vars, Next, Steps

LEMMA FileStep ==
  ASSUME Typed, Given, Apart, FileInv, [Next]_vars
  PROVE  FileInv'
<1> job \in [Callers -> Calls]
  BY DEF Typed
<1>1. ASSUME NEW f \in Configs PROVE Undisturbed(f)' /\ Standing(f)'
  <2> Undisturbed(f) /\ Standing(f)
    BY DEF FileInv
  <2>1. CASE UNCHANGED <<names, inodes, job, told>>
    <3>1. Still(f) /\ \A d \in Callers : Settled(d, f)
      BY <2>1 DEF Still, Settled, Writing, Reporting
    <3> QED  BY <2>1, <3>1, FileFrame
  <2>2. ASSUME NEW c \in Callers, Steps(c), Next PROVE Undisturbed(f)' /\ Standing(f)'
    <3>1. CASE CallWrite(c) /\ job'[c].file = f
      BY <3>1, WriteCalled
    <3>2. CASE Handles(c) /\ Writing(c, f)
      BY <3>2, FileHandled
    <3>3. CASE (RereadDaily(c) \/ Configured(c)) /\ Writing(c, f)
      BY <3>3, FileReported
    <3>4. CASE ReadStatus(c) /\ Reporting(c, f)
      BY <3>4, StatusRead
    <3>5. CASE /\ ~ (CallWrite(c) /\ job'[c].file = f) /\ ~ (Handles(c) /\ Writing(c, f))
               /\ ~ ((RereadDaily(c) \/ Configured(c)) /\ Writing(c, f))
               /\ ~ (ReadStatus(c) /\ Reporting(c, f))
      <4>1. Settled(c, f)
        BY <2>2, <3>5, MoverSettled
      <4>2. \A d \in Callers : Settled(d, f)
        BY <2>2, <3>5, <4>1, OthersSettled
      <4>3. Still(f)
        <5>1. CASE UNCHANGED <<names, inodes>>
          BY <5>1 DEF Still
        <5>2. CASE Handles(c)
          <6>1. job[c].op = "write" /\ job[c].stage # "done"
            BY <5>2 DEF Handles, OpenTemporary, WriteTemporary, WriteFails, ChmodTemporary,
               Replace, Protect, At
          <6>2. job[c].file # f
            BY <3>5, <5>2, <6>1 DEF Writing
          <6> QED  BY <5>2, <6>2, OtherFileStays DEF Still
        <5> QED  BY <2>2, <5>1, <5>2, Footprint
      <4>4. told'.standing[f] = told.standing[f]
        <5>1. CASE CallWrite(c)
          BY <3>5, <5>1, WriteTold
        <5>2. CASE RereadDaily(c) \/ Configured(c)
          <6>1. job[c].op = "write" /\ job[c].stage = "reread" /\ job[c].file # f
            BY <3>5, <5>2 DEF RereadDaily, Configured, At, Writing
          <6>2. told \in [standing : [Configs -> SUBSET (Documents \cup {None})],
                          promise : Documents \cup {None}, key : [KeyFiles -> Int]]
            BY DEF Typed
          <6>3. CASE RereadDaily(c)
            <7>1. told' \in {told, [told EXCEPT !.promise = job[c].doc, !.standing["daily"] =
                                IF told.standing["daily"] = {} THEN {} ELSE {job[c].doc}]}
                  /\ f # "daily"
              BY <6>1, <6>3 DEF RereadDaily
            <7> QED  BY <6>2, <7>1
          <6>4. CASE Configured(c)
            <7>1. told' \in {told, [told EXCEPT !.standing["model"] =
                                IF told.standing["model"] = {} THEN {} ELSE {job[c].doc}]}
                  /\ f # "model"
              BY <6>1, <6>4 DEF Configured
            <7> QED  BY <6>2, <7>1
          <6> QED  BY <5>2, <6>3, <6>4
        <5>3. CASE CallCreate(c) \/ ProtectKey(c)
          BY <5>3, OthersBegun DEF ProtectKey, Typed
        <5> QED  BY <2>2, <5>1, <5>2, <5>3, Footprint
      <4> QED  BY <4>2, <4>3, <4>4, FileFrame
    <3> QED  BY <3>1, <3>2, <3>3, <3>4, <3>5
  <2> QED  BY <2>1, <2>2, Movers DEF vars, Next, Steps
<1> QED  BY <1>1, PromiseStep DEF FileInv

THEOREM FilesTheorem == Spec => []FileInv
<1>1. Init => FileInv
  <2> SUFFICES ASSUME Init PROVE FileInv
    OBVIOUS
  <2>1. \A c \in Callers : \A f : ~ Writing(c, f) /\ ~ Reporting(c, f)
    BY DEF Init, Idle, Writing, Reporting
  <2>2. \A f \in Configs : names[f] = None
    BY PathFacts DEF Init
  <2>3. told.promise = None /\ \A f \in Configs : told.standing[f] = {None}
    BY DEF Init
  <2> QED  BY <2>1, <2>2, <2>3 DEF FileInv, Undisturbed, Standing, Promised
<1>2. Base /\ FileInv /\ [Next]_vars => FileInv'
  BY FileStep DEF Base
<1> QED  BY <1>1, <1>2, BaseTheorem, PTL DEF Spec

\* While no two writers of a configuration have overlapped, the file is at every
\* moment a whole private document, the last that was reported or one begun since
\* (write_daily_config and write_model_runtime_config write beside it and rename).
THEOREM ConfigIsOldOrNewTheorem == Spec => []ConfigIsOldOrNew
<1>1. FileInv => ConfigIsOldOrNew
  <2> SUFFICES ASSUME FileInv, NEW f \in Configs, told.standing[f] # {}
               PROVE  IF names[f] = None THEN None \in told.standing[f]
                      ELSE /\ Whole(inodes[names[f]].text) /\ inodes[names[f]].private
                           /\ inodes[names[f]].text.doc \in told.standing[f]
    BY DEF ConfigIsOldOrNew
  <2>1. CASE names[f] = None
    BY <2>1 DEF FileInv, Standing
  <2>2. CASE names[f] # None
    <3>1. PICK doc \in told.standing[f] : Config(f, doc)
      BY <2>2 DEF FileInv, Standing
    <3>2. doc # None
      BY <3>1, NoneFacts DEF Config, Holds
    <3> QED  BY <2>2, <3>1, <3>2 DEF Config, Holds, Whole
  <2> QED  BY <2>1, <2>2
<1> QED  BY <1>1, FilesTheorem, PTL

-----------------------------------------------------------------------------
(* The sandbox of the harness *)

\* The promise of the daily configuration is replaced only when there is none.
LEMMA PromiseMoves ==
  ASSUME Typed, Given, FileInv, NEW c \in Callers, Steps(c)
  PROVE  \/ told'.promise = told.promise
         \/ told.promise = None
         \/ CallWrite(c) /\ job'[c].file = "daily"
<1>1. told \in [standing : [Configs -> SUBSET (Documents \cup {None})],
                promise : Documents \cup {None}, key : [KeyFiles -> Int]]
  BY DEF Typed
<1>2. CASE CallWrite(c)
  BY <1>2, WriteTold
<1>3. CASE RereadDaily(c)
  <2>1. Writing(c, "daily")
    BY <1>3 DEF RereadDaily, At, Writing
  <2> QED  BY <2>1 DEF FileInv, Promised
<1>4. CASE Configured(c)
  BY <1>1, <1>4 DEF Configured
<1>5. CASE CallCreate(c)
  <2>1. job \in [Callers -> Calls]
    BY DEF Typed
  <2> QED  BY <1>1, <1>5, <2>1, OthersBegun
<1>6. CASE ProtectKey(c)
  BY <1>1, <1>6 DEF ProtectKey
<1> QED  BY <1>2, <1>3, <1>4, <1>5, <1>6, Footprint

LEMMA OthersStack ==
  ASSUME Typed, Given, FileInv, StackInv, NEW c \in Callers, Steps(c),
         NEW d \in Callers, d # c
  PROVE  StackCall(d)'
<1> job \in [Callers -> Calls]
  BY DEF Typed
<1> SUFFICES ASSUME job'[d].op = "stack" PROVE StackCall(d)'
  BY DEF StackCall
<1>1. /\ job'[d].op = job[d].op /\ job'[d].stage = job[d].stage
      /\ job'[d].waiting = job[d].waiting /\ job'[d].image = job[d].image
  BY OthersStay DEF SameCall
<1>2. StackCall(d)
  BY DEF StackInv
<1>3. /\ job'[d].promise # None => job'[d].promise = job[d].promise
      /\ CallWrite(c) /\ job'[c].file = "daily" => job'[d].promise = None
  BY <1>1, OthersHistory
<1>4. job'[d].promise # None => job'[d].promise = told'.promise
  BY <1>1, <1>2, <1>3, PromiseMoves DEF StackCall
<1> QED  BY <1>1, <1>2, <1>3, <1>4 DEF StackCall

LEMMA MoverStack ==
  ASSUME Typed, Given, FileInv, StackInv, NEW c \in Callers, Steps(c)
  PROVE  StackCall(c)'
<1> job \in [Callers -> Calls]
  BY DEF Typed
<1> SUFFICES ASSUME job'[c].op = "stack" PROVE StackCall(c)'
  BY DEF StackCall
<1>1. CASE CallStack(c)
  <2>1. told' = told
    BY <1>1 DEF CallStack
  <2> QED  BY <1>1, <2>1, OthersBegun DEF StackCall
<1>2. CASE ~ CallStack(c)
  <2>1. ~ CallWrite(c) /\ ~ CallCreate(c) /\ ~ CallShow(c) /\ ~ CallWriteBad(c)
    <3>1. CallWriteBad(c) => job'[c].op # "stack"
      BY DEF CallWriteBad, Idle
    <3> QED  BY <3>1, WriteBegun, OthersBegun
  <2>2. job[c].op = "stack" /\ told' = told
    <3>1. CASE Handles(c) \/ RereadDaily(c) \/ Configured(c)
      <4>1. job'[c].op # "stack"
        <5>1. CASE OpenTemporary(c)
          <6>1. PICK i : job' = [job EXCEPT ![c].stage = "write", ![c].inode = i]
            BY <5>1 DEF OpenTemporary
          <6> QED  BY <5>1, <6>1 DEF OpenTemporary, At, Calls
        <5>2. CASE \/ WriteTemporary(c) \/ WriteFails(c) \/ ChmodTemporary(c) \/ Replace(c)
                   \/ Protect(c) \/ RereadDaily(c)
          BY <5>2 DEF WriteTemporary, WriteFails, ChmodTemporary, Replace, Protect, RereadDaily,
             At, Goto, Finish, Calls
        <5>3. CASE Configured(c)
          BY <5>3 DEF Configured, Calls
        <5> QED  BY <3>1, <5>1, <5>2, <5>3 DEF Handles
      <4> QED  BY <4>1
    <3>2. CASE ReadConfigured(c) \/ ReadStatus(c) \/ CheckKey(c) \/ CreateKey(c) \/ OpenKey(c)
               \/ WriteKey(c) \/ ProtectKey(c)
      BY <3>2 DEF ReadConfigured, ReadStatus, CheckKey, CreateKey, OpenKey, WriteKey, ProtectKey,
         At, Goto, Finish, Calls
    <3>3. CASE \/ CollectStatus(c) \/ AskStatus(c) \/ AskReadiness(c) \/ HarnessDeadline(c)
               \/ HarnessStartEnv(c) \/ StartHarness(c) \/ ProbeGateway(c) \/ StartGateway(c)
               \/ WaitForGateway(c)
      BY <3>3 DEF CollectStatus, AskStatus, AskReadiness, HarnessDeadline, HarnessStartEnv,
         StartHarness, ProbeGateway, StartGateway, WaitForGateway, At
    <3>4. CASE Kill(c)
      BY <3>4 DEF Kill, Finish, Calls
    <3> QED  BY <1>2, <2>1, <3>1, <3>2, <3>3, <3>4 DEF Steps, Handles
  <2>3. StackCall(c)
    BY DEF StackInv
  <2>4. CASE HarnessStartEnv(c)
    <3>1. job[c].stage = "environment" /\ job[c].image \in Environments /\ ~ job[c].waiting
      BY <2>2, <2>3, <2>4 DEF HarnessStartEnv, At, StackCall
    <3>2. PICK image :
            /\ job' = [job EXCEPT ![c].stage = "spawn", ![c].image = image]
            /\ image = IF job[c].image # NoImage \/ ReadDailyConfig = None THEN job[c].image
                       ELSE ReadDailyConfig.image
      BY <2>4 DEF HarnessStartEnv
    <3>3. /\ job'[c].stage = "spawn" /\ job'[c].image = image /\ job'[c].promise = job[c].promise
      BY <3>2 DEF Calls
    <3>4. ASSUME job[c].promise # None
          PROVE  image \in {job[c].promise.image} \cup (Environments \ {NoImage})
      <4>1. job[c].promise = told.promise
        BY <2>2, <2>3, <3>4 DEF StackCall
      <4>2. Config("daily", told.promise)
        BY <3>4, <4>1 DEF FileInv, Promised
      <4>3. ReadDailyConfig = told.promise
        BY <4>2, ConfigIsRead
      <4> QED  BY <3>1, <3>2, <3>4, <4>1, <4>3
    <3>5. job'[c].promise # None => job'[c].promise = told'.promise
      BY <2>2, <2>3, <3>3 DEF StackCall
    <3> QED  BY <3>3, <3>4, <3>5 DEF StackCall
  <2>5. CASE CollectStatus(c) \/ AskStatus(c) \/ AskReadiness(c) \/ HarnessDeadline(c)
    BY <2>2, <2>3, <2>5 DEF CollectStatus, AskStatus, AskReadiness, HarnessDeadline, At, Goto,
       Finish, StackCall, Calls
  <2>6. CASE StartHarness(c) \/ ProbeGateway(c) \/ StartGateway(c) \/ WaitForGateway(c) \/ Kill(c)
    BY <2>2, <2>3, <2>6 DEF StartHarness, ProbeGateway, StartGateway, WaitForGateway, Kill, At,
       Goto, Finish, StackCall, Calls
  <2>7. CASE \/ Handles(c) \/ RereadDaily(c) \/ Configured(c) \/ ReadConfigured(c)
             \/ ReadStatus(c) \/ CheckKey(c) \/ CreateKey(c) \/ OpenKey(c)
             \/ WriteKey(c) \/ ProtectKey(c)
    BY <2>2, <2>7 DEF Handles, OpenTemporary, WriteTemporary, WriteFails, ChmodTemporary, Replace,
       Protect, RereadDaily, Configured, ReadConfigured, ReadStatus, CheckKey, CreateKey, OpenKey,
       WriteKey, ProtectKey, At
  <2> QED  BY <1>2, <2>1, <2>4, <2>5, <2>6, <2>7 DEF Steps, Handles
<1> QED  BY <1>1, <1>2

LEMMA SandboxStep ==
  ASSUME Typed, StackInv, [Next]_vars
  PROVE  SandboxIsRestored'
<1> job \in [Callers -> Calls] /\ harness \in {None} \cup Harnesses
  BY DEF Typed
<1>1. CASE UNCHANGED harness
  BY <1>1 DEF StackInv, SandboxIsRestored
<1>2. CASE HarnessBoots
  BY <1>2 DEF HarnessBoots, StackInv, SandboxIsRestored, Harnesses
<1>3. CASE ProcessStops
  BY <1>1, <1>3 DEF ProcessStops, SandboxIsRestored
<1>4. ASSUME NEW c \in Callers, StartHarness(c), ~ UNCHANGED harness PROVE SandboxIsRestored'
  <2>1. harness'.image = job[c].image /\ harness'.promise = job[c].promise
    BY <1>4 DEF StartHarness
  <2>2. StackCall(c) /\ job[c].op = "stack" /\ job[c].stage = "spawn"
    BY <1>4 DEF StackInv, StartHarness, At
  <2> QED  BY <2>1, <2>2 DEF StackCall, SandboxIsRestored
<1> QED  BY <1>1, <1>2, <1>3, <1>4, Footprints

\* A harness that was started while a daily configuration was promised has its image
\* or the one of the environment (_harness_start_env reads the file again).
THEOREM SandboxIsRestoredTheorem == Spec => []SandboxIsRestored
<1>1. Init => StackInv
  <2> SUFFICES ASSUME Init PROVE StackInv
    OBVIOUS
  <2>1. \A c \in Callers : job[c].op = "none"
    BY DEF Init, Idle
  <2>2. harness \in {None, UserHarness}
    BY DEF Init
  <2> QED  BY <2>1, <2>2 DEF StackInv, StackCall, SandboxIsRestored, UserHarness
<1>2. ASSUME Base, FileInv, StackInv, [Next]_vars PROVE StackInv'
  <2>1. CASE UNCHANGED <<job, told>>
    BY <1>2, <2>1, SandboxStep DEF StackInv, StackCall, Base
  <2>2. ASSUME NEW c \in Callers, Steps(c) PROVE StackInv'
    BY <1>2, <2>2, SandboxStep, MoverStack, OthersStack DEF StackInv, Base
  <2> QED  BY <1>2, <2>1, <2>2, Movers
<1>3. StackInv => SandboxIsRestored
  BY DEF StackInv
<1> QED  BY <1>1, <1>2, <1>3, BaseTheorem, FilesTheorem, PTL DEF Spec

-----------------------------------------------------------------------------
(* The report on the model *)

BackedReport(c) ==
  job[c].op = "show" /\ job[c].status = "chat" =>
    /\ job[c].seen # None /\ job[c].secret # NoKey
    /\ job[c].doc # None /\ job[c].alone => job[c].seen = job[c].doc /\ job[c].key = job[c].seen.key

\* Only the check of the key answers that chat is ready.
LEMMA ChatAnswered ==
  ASSUME Typed, Given, Apart, NEW c \in Callers, Steps(c), Next,
         job'[c].op = "show", job'[c].status = "chat"
  PROVE  CheckKey(c)
<1> job \in [Callers -> Calls]
  BY DEF Typed
<1>1. job'[c].stage = "done"
  BY GivenToMover DEF GivenTo
<1>2. ~ CallWrite(c) /\ ~ CallCreate(c) /\ ~ CallShow(c) /\ ~ CallStack(c)
  BY <1>1, WriteBegun, OthersBegun
<1>3. ~ CallWriteBad(c)
  BY <1>1 DEF CallWriteBad, Idle
<1>4. ~ OpenTemporary(c)
  <2>1. OpenTemporary(c) => \E i : job' = [job EXCEPT ![c].stage = "write", ![c].inode = i]
    BY DEF OpenTemporary
  <2> QED  BY <1>1, <2>1 DEF Calls
<1>5. ~ (\/ WriteTemporary(c) \/ WriteFails(c) \/ ChmodTemporary(c) \/ Replace(c)
         \/ Protect(c) \/ RereadDaily(c))
  BY DEF WriteTemporary, WriteFails, ChmodTemporary, Replace, Protect, RereadDaily, At, Goto,
     Finish, Calls
<1>6. ~ (Configured(c) \/ ReadConfigured(c) \/ ReadStatus(c))
  BY <1>1 DEF Configured, ReadConfigured, ReadStatus, Calls
<1>7. ~ (CreateKey(c) \/ OpenKey(c) \/ WriteKey(c) \/ ProtectKey(c))
  BY DEF CreateKey, OpenKey, WriteKey, ProtectKey, At, Goto, Finish, Calls
<1>8. ~ (\/ CollectStatus(c) \/ AskStatus(c) \/ AskReadiness(c) \/ HarnessDeadline(c)
         \/ HarnessStartEnv(c) \/ StartHarness(c) \/ ProbeGateway(c) \/ StartGateway(c)
         \/ WaitForGateway(c))
  BY DEF CollectStatus, AskStatus, AskReadiness, HarnessDeadline, HarnessStartEnv, StartHarness,
     ProbeGateway, StartGateway, WaitForGateway, At, Goto, Finish, Calls
<1>9. ~ Kill(c)
  BY DEF Kill, Finish, Calls
<1> QED  BY <1>2, <1>3, <1>4, <1>5, <1>6, <1>7, <1>8, <1>9 DEF Steps

LEMMA KeyChecked ==
  ASSUME Typed, Given, FileInv, NEW c \in Callers, CheckKey(c)
  PROVE  BackedReport(c)'
<1> job \in [Callers -> Calls]
  BY DEF Typed
<1> DEFINE path == IF job[c].key # None \/ job[c].seen = None THEN job[c].key
                   ELSE job[c].seen.key
           key  == IF path = None THEN NoKey ELSE ReadKey(path)
           chat == /\ job[c].configured /\ job[c].seen # None
                   /\ key # NoKey
                   /\ job[c].probe # "failed"
           status == IF chat THEN "chat"
                     ELSE IF job[c].configured \/ job[c].force THEN "warn"
                     ELSE "needs_config"
<1>1. /\ job' = [job EXCEPT ![c].stage = "done", ![c].key = path, ![c].secret = key,
                            ![c].status = status]
      /\ status = "chat" => chat
  BY DEF CheckKey
<1> HIDE DEF path, key, status
<1>2. /\ job'[c].status = status /\ job'[c].key = path /\ job'[c].secret = key
      /\ job'[c].seen = job[c].seen /\ job'[c].doc = job[c].doc /\ job'[c].alone = job[c].alone
  BY <1>1 DEF Calls
<1>3. ASSUME job[c].doc # None, job[c].alone
      PROVE  job[c].seen = job[c].doc /\ path = job[c].seen.key
  <2>1. job[c].op = "show" /\ job[c].stage = "key"
    BY DEF CheckKey, At
  <2>2. job[c].file = "model" /\ job[c].doc \in ModelDocuments /\ job[c].key = job[c].doc.key
    BY <1>3, <2>1 DEF Given, GivenTo
  <2>3. Reporting(c, "model") /\ "model" \in Configs
    BY <1>3, <2>1, <2>2, PathFacts DEF Reporting
  <2>4. job[c].seen = job[c].doc
    BY <1>3, <2>1, <2>3 DEF FileInv, Undisturbed, Progress
  <2>5. job[c].key # None
    BY <2>2, NoneFacts
  <2> QED  BY <2>2, <2>4, <2>5 DEF path
<1> QED  BY <1>1, <1>2, <1>3 DEF BackedReport

\* A report that says "ready for chat" has read a whole document, and the key found
\* good is the one it names (collect_model_runtime reads the file twice).
THEOREM ReportIsBackedTheorem == Spec => []ReportIsBacked
<1>1. Init => ReportIsBacked
  BY DEF Init, Idle, ReportIsBacked
<1>2. ASSUME Base, FileInv, ReportIsBacked, [Next]_vars PROVE ReportIsBacked'
  <2>1. CASE UNCHANGED job
    BY <1>2, <2>1 DEF ReportIsBacked
  <2>2. ASSUME NEW c \in Callers, Steps(c), Next, NEW d \in Callers PROVE BackedReport(d)'
    <3>1. CASE d = c
      BY <1>2, <2>2, <3>1, ChatAnswered, KeyChecked DEF Base, BackedReport
    <3>2. CASE d # c
      <4>1. job \in [Callers -> Calls]
        BY <1>2 DEF Base, Typed
      <4>2. SameCall(job[d], job'[d]) /\ (job'[d].alone => job[d].alone)
        BY <2>2, <3>2, <4>1, OthersStay, OthersHistory
      <4>3. BackedReport(d)
        BY <1>2 DEF ReportIsBacked, BackedReport
      <4> QED  BY <4>2, <4>3 DEF BackedReport, SameCall
    <3> QED  BY <3>1, <3>2
  <2> QED  BY <1>2, <2>1, <2>2, Movers DEF ReportIsBacked, BackedReport, vars, Next, Steps
<1> QED  BY <1>1, <1>2, BaseTheorem, FilesTheorem, PTL DEF Spec
=============================================================================
