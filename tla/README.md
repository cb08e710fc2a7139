# A verification project for lai-gateway

TLA+ models of the private companion gateway of the LAI harness
(`src/lai_gateway`), the TLC configurations that check them on small instances,
and TLAPS proofs of the results that should hold for every instance.

## 1. The system

The gateway is one Python package with two faces: a threaded HTTP server
(`server.py`, one thread per request) and a command line (`__main__.py`, one
process per command). Both call the same modules and share the same files below
the scope root: the grant ledger, the pairing token, the task files, configurations
and keys, and the memory, inbox and audit logs. The
gateway calls a local model runtime and the control plane of the Harness over
HTTP. A static page (`static/app.js`) runs in the browser, possibly on a phone
over a private network.

Components, the state they keep, and what makes each of them correct:

| component | state | operations | correct when |
|---|---|---|---|
| authorization ledger (`authorization_recovery.py`) | JSONL file of issued/revoked/consumed events, lock file | issue, check, recover, revoke, consume | a grant runs its handler at most once, for exactly the request it was issued for, within its lifetime, never after a revocation |
| dispatchers (`adapter_dispatcher.py`, `mcp_local_tool.py`, `n8n_local_plan.py`) | none | consume a grant, then run the local handler | handler only after a consumption that was recorded |
| policy chain (`effective_authorization.py` and the records it is made of: identity, contracts, decision, record, invocation, audit trail, dry run, capture, validation) | none: ten records of one request, each a function of the request and of earlier ones | verdict on one request; the front ends that ask it | effective is exactly what the rules allow; a handler runs only on that, with the grant of this very request |
| permission panel (`permission_ux.py`) | none | show the rows for one request | shows no authorization that is not there |
| direct conversations (`direct_conversation.py`, handlers in `server.py`) | ordered dictionary of conversations, `busy` flags, one lock; all in memory | create, inspect, reset, begin/finish/abort a turn | one turn at a time per conversation, no answer continues a history it did not see, bounds hold, a turn always gives the conversation back |
| model client (`model.py`) | none for chat | chat completion with history, fallback texts | accepts every history the store hands out |
| workbench page (`static/app.js`) | active conversation id, pending flag | send, new conversation | a new conversation is new, the page does not stay waiting |
| pairing and sessions (`server.py`, `tokens.py`) | session table and failure stamps under one lock, pairing token file | authorize, exchange, revoke; create/revoke a pairing token | a token makes one session, sessions end, failures are bounded |
| delegated work (`harness_work.py`, `harness_client.py`) | locals of one call; runs in the Harness | submit once, poll, review | at most one run per work, "ready" only for a run that was reviewed and passed |
| development agent (`local_dev_agent.py`) | history, flags of the current message | ask, tool rounds, delegate work | one submission per message, honest result, history of answered messages only |
| local task pipeline (`local_task_*.py`, `local_operator_runtime.py`, `workbench_local_operator.py`) | a pair of files per task slug, no lock; review and approval results a caller keeps | write, review, approve, execute, each as a command or all in one call | only what a review found ready runs, unchanged since; a call nobody disturbs runs its own task; results tell what ran |
| records (`memory_context.py`, `approval_inbox.py`, `objective_state.py`, `context_pack.py`, `dev_loop_fixture.py`, `persisted_audit_log.py`, run log of `model.py`) | append-only JSONL files without a lock; the objective state, edited by hand | remember, forget, show; enqueue, show, loop; pack; audit; record a model run | a torn append costs at most itself and the next record, forgotten notes stay forgotten, the inbox is shown whole or not at all, the loop acts on what was shown or on what has the same digest |
| host (`daily_config.py`, runtime configuration, keys and report of `model.py`, `stack.py`) | two configuration files, key files, the processes on two ports | set, configure, create a key, report, start the stack | a configuration is an old or a new document, whole and private; a created key is kept until it is replaced by force; a started harness has the sandbox; "ready for chat" is backed |
| governed routing, relay and mobile launchers (`proxy.py`, `mobile.py`) | none; child processes, sockets | classify, relay, print | not modelled |
| Telegram, public browser, documents, reports, configuration, scripts, editor extension | none | I/O of one request | not modelled |

How they interact: the server's handler threads call the store, the session
table and the ledger directly, under the locks those bring along; commands and
server meet only in files; the page meets the server in requests whose answers
may come in any order; the agent calls `run_work`, which calls the Harness. The dispatchers ask the policy chain
first and the ledger after it; the ledger asks the chain again before it records a
consumption.

What is hard to test: two processes between the unlocked read and the write of
one ledger; a process that dies between a record and its effect; short and
failed writes; handler threads between two critical sections of one request;
an answer that comes after the state it belongs to was replaced; a submission
whose answer is lost; deadlines that pass in the middle of anything; ten stages that redact and test
one another's records in ways that nobody enumerates by hand.
`PROJECT.json` lists each such place with its line.

## 2. Modules

| module | models | state and code |
|---|---|---|
| `GrantLedger` | `authorization_recovery.py` and its callers | `events`/`ending` are the file and how its last line ends, `lockFile` the lock file, `pc`/`job` the local variables of each call, `runs` the handlers executed. One action per stretch of `collect_authorization_recovery` between two accesses to a file |
| `SingleUseGrant` | the promise: a grant is issued, then at most once consumed and executed, or revoked | `GrantLedger` implements it (`AbstractSpec`) |
| `DirectConversation` | the store and its HTTP handlers | `order` is the OrderedDict, `talk` the conversations; one action per critical section, `model` is the unlocked call of the model |
| `ConversationLog` | the promise: turns are atomic and each continues the log it saw | `DirectConversation` implements it: a turn takes effect in `FinishTurn` |
| `WorkbenchChat` | the page's direct chat, extending `DirectConversation` | `activeId`, `pending` are the globals of `app.js:22-23`, `task` is what each running async function awaits; a task is the client of the handler thread with its name |
| `MobileSession` | sessions, failure limit, pairing token | `pairFile` is the token file, `sessions` the table, `stamps` the failures, numbered; one action per critical section or file access |
| `HarnessWork` | `run_work` with the client, the network and the Harness | `wpc` the next request, `wire` the request under way, `work` the locals, `runs` the Harness' runs, `astray` submissions given up that may still arrive |
| `LocalDevAgent` | `ask()` of the agent, extending `HarnessWork` | `ask` the locals, `history` the exchanges kept, `result` the last answer |
| `LocalTask` | the governed task pipeline | `taskFile`, `outboxFile` are the two files of one slug, `reviews`, `approvals` the results kept by callers, `pc`/`job` the locals of each call; the gates are operators on records, each write is an opening that truncates and a filling, each read an action |
| `AuthorizationPolicy` | the records of the policy chain | no state: one operator per record, named after its module (`Decision`, `Capture`, `EffectiveOf`) |
| `AuthorizationChain` | one call of a front end (dispatcher, local MCP tool, n8n plan, panel) through the chain and the ledger | `call` the request and the grant it names, `made` the records so far, `stage` the next one, `answer` what the caller gets; one action per stage |
| `LocalRecords` | the append-only files and what reads them | `files` the writes that reached each file, each `whole`, `torn` or `unended` (the line feed is missing); `job` the locals of each call; one action per access to a file |
| `HostSetup` | configurations, keys, report, start of the stack | `names` maps paths to inodes and `inodes` says what they hold, so that a rename and a write to an open file meet as on a disk; `keys`, `harness`, `gateway`; one action per system call or request |
| `GrantLedgerProofs`, `AuthorizationChainProofs`, `LocalDevAgentProofs`, `LocalTaskProofs`, `DirectConversationProofs`, `MobileSessionProofs`, `LocalRecordsProofs`, `HostSetupProofs` | proofs of the module they are named after, and of the one composed with it (`HarnessWork`, `WorkbenchChat`) | see section 5 |
| `MC*` | constants and symmetry for TLC; `MCGrantLedger` assumes that the ledger's `Authorized` and `Allowlisted` are what `AuthorizationPolicy` says of its requests | |

`PROJECT.json` maps every definition to its lines. Operators that are introduced
as "Faulty variant" are the code with a plausible mistake in it. No
specification uses them: each shows that some property would notice the
mistake.

Data is abstracted to what decides: a request of the ledger is a model value
for everything its hashes cover (capability, action, parameters, identity);
the text of an exchange is its number and its length; a token is the number
of its creation. Times are ticks: a second is `SecondTicks` of them in the
ledger, because `_iso` cuts the expiry to whole seconds and the tests compare
finer ones. A task is the fields its gates decide by; of an outbox only the task
id is kept, and unsafe claims are made by the task record. What a caller of the
pipeline asks to execute is chosen where the executor first looks at it. An
identifier made by a digest is the material that is hashed, joined as the code joins
it, so that two are equal exactly when the hashed strings are. The chain joins with a
NUL, or fields that cannot hold the separator: the tuple of the fields. The records
join free texts with `|`, which the texts may hold: a text is the sequence of its words,
the parts between the bars, and joined texts are the concatenation of their words
(`ProposalId`, `Entry`). `Label` is `_safe_label` as a constant operator (the run has a
project name it changes into one memory accepts, and one it does not), and
`LineBreaks` are the words with a character at which `str.splitlines` splits. Actor, channel
and domain of a request pass through the chain alike and are one label. A
configuration is a size and the one field that is used elsewhere (the sandbox
image, the key file); the size matters because a short document written over a
longer one leaves its tail. Keys have one length. The history variables `told`
and `used` of the records and the host hold what callers were promised and count
against the bounds.

## 3. Runs

| run | question | bounds |
|---|---|---|
| `GrantLedger_interleaved` | contention for one grant, with crashes and write failures: at most one execution, revocation honoured | 2 threads + 1 command, 1 grant, 1 crash, 1 fault |
| `GrantLedger_requests` | executions match what was issued and lie inside the lifetime; refinement of `SingleUseGrant`; the lock file goes away, a permitted dispatch runs | 1 thread + 1 command, 3 requests (one not allowed), 1 fault, clock of 2 ticks for a lifetime of one second (2 ticks), an issuer that asks for more than the maximum |
| `AuthorizationChain_requests` | the verdict is exact, a grant binds every field of its request, a handler runs only on a consumed grant, the panel is honest | 13 wishes (a capability of each class) in 5 scopes by 6 identities with and without intent; three requests and their neighbours, one field changed, with the grants of the others |
| `DirectConversation_turns` | turns, resets, creations, evictions, trimming; the last exchange is kept; refinement of `ConversationLog` | 3 threads, 2 ids, capacity 2, 3 turns, 1 restart, lengths 3 and 4 against a limit of 6 |
| `WorkbenchChat_live` | a new conversation is empty; nothing stays waiting | 2 overlapping tasks, other clients, capacity 1, 2 turns, 1 restart, closed tab |
| `WorkbenchChat_overlap` | an announced new conversation is empty, with a message and the new conversation asking for their creations at once (violation) | 2 tasks |
| `MobileSession_sessions` | revoked and expired sessions are not served, a pairing token that was spent stays spent, how far threads can exceed the failure limit | 2 threads, 2 tokens, 2 sessions, limit 1, 3 failures, 1 tick against lifetimes of 1 |
| `HarnessWork_delivery` | one run per work, "ready" means reviewed | 2 works, 2 polls, 2 ticks, 1 misrouted answer |
| `LocalDevAgent_turns` | one submission per message, honest results, history, every message is answered | 2 messages, 2 rounds of 2 calls, 3 in total, 1 poll |
| `LocalTask_pipeline` | only reviewed records run, an undisturbed call runs its own task, results tell what ran | 2 calls, 4 tasks with two ids of one slug, 6 records only a hand writes, 1 failing write, 1 killed call, 1 edit, files and review of an earlier call |
| `LocalRecords_files` | torn appends, forgotten notes, the inbox, the loop | 2 threads, 6 menus of 2 to 4 calls with at most two proposals each, of which two have the same texts when joined, one has a bar, and one a line break; 1 fault (failed or short write, or a killed call), 1 edit, 2 seconds, 2 entries shown of at most 3 writes per file |
| `HostSetup_host` | configurations, keys, sandbox, report | 2 callers, 5 menus of 3 or 4 calls, 2 documents per configuration, of different size, 2 key files, 1 fault (failed write, killed call, or stopped process) |

The bounds are the smallest at which the cases of interest happen: a thread, a
second thread that dies with it and a command for contention in the ledger;
two requests for an execution of the wrong one; a conversation in a turn and
an idle one for eviction to choose between; lengths of which two short ones
fit and a long one does not, for trimming by size and, with three turns, by
count; a failure limit that one failure reaches, so that both threads can be
just below it together; two works for a late submission of the first to be
taken for the second's; two calls on one pair of files, an approval that may
be older than either, and a limit of two commands (five in the code) that one
task exceeds. The ids of conversations stand for 64 random bits:
`DirectConversation` lets an evicted id be drawn again, which its properties
survive; `WorkbenchChat` has enough ids never to draw one that is still known.
`Menus` is a bound too: the operations that meet in one behaviour of the records
or the host, and how many calls are made. Operations on different files do not
disturb each other, so each menu holds those that share one, and readers of them;
the configuration that is only written gets four calls, so that whole writes can
come before and after one that failed or two that overlapped. The chain keeps no state between calls: one call per
behaviour is all there is, and the calls are enumerated so that each class of
capability, scope and identity meets each other, and each grant the request that
differs from its own in one field.

Each `Max...` constant is a bound of the model and nothing else; limits of the
code have constants of their own, named after the code's.

The `CHECK_DEADLOCK FALSE` of some runs: the session, work, agent, record and host
models stop when their bounds are used up, a call of the chain ends with its
answer, the calls of the task pipeline are made once each, and the page stops when
its tab is closed.

### Violation

`NewStartsEmpty` restates a sentence of
`docs/product/pr_133_direct_conversation_session.md`, quoted under `findings`. *A
late answer brings its conversation back* (`app.js:1654`): the page has no
conversation, and one message and "Nova conversa" are started, in either order,
before the creation either of them asks the gateway for is answered. Nothing stops
the second: `directConversationPending` is set only when the message itself is
posted (`app.js:1635`). The page announces the new conversation, and then the answer
to the message sets the id of the conversation made for that message again, which
holds its exchange. With no message under way at the announcement the new
conversation is empty (`QuietNewStartsEmpty`).

### What does not hold, and is not claimed

Behaviours the models have because the code has them, each with what does hold:

* *Revoke decides without the lock* (`authorization_recovery.py:406`). A revoke that
  read the ledger before a consume wrote its record reports success on a consumed
  grant. The grant still runs at most once, and a consume that enters after the
  revocation was recorded never runs (`RevocationHonoured`).
* *The pairing token is read and removed in two steps* (`server.py:1500`). Two
  exchanges that overlap both make a session, and one that cannot remove the file
  (`server.py:1634`) makes a session and leaves the token in force. Once an exchange has
  removed the file, the token makes no session for a request that comes after
  (`PairTokenStaysSpent`).
* *The ledger defaults an absent scope to `local-status-read`, the chain to
  `adapter-dry-run`* (`authorization_recovery.py:302`, `LedgerRequest`). A grant issued
  without a scope is consumed by a request that names `local-status-read`;
  `GrantBindsRequest` says that the scope, so completed, is the same.
* *Different proposals can have one id* (`action_proposal.py:67`): data `a|b` with effect
  `c` is hashed as data `a` with effect `b|c`. Queued from one count in one second
  their entries share an id as well, and the loop takes the first.
  `LoopActsOnWhatWasShown` says that it acts on a proposal of the same id, and on the very one shown if no
  text of that one holds a bar; in the run such a collision happens.
* *A whole entry can close the inbox* (`approval_inbox.py:192`): it is written with
  U+2028 or U+0085 as they are, and read by lines that end there. The inbox stays
  blocked until it is repaired by hand, which `InboxAllOrNothing` allows. Memory and the
  logs escape what they write.
* *A yellow call can execute another call's green record*
  (`local_operator_runtime.py:234`), which replaced its own between the write and the
  review. That record was reviewed, is green and declares the command
  (`RunsWereReviewed`), and a call whose file nobody else writes runs its own task
  (`UndisturbedRunsItsTask`).
* *A short append is reported as success.* A note, tombstone or entry cut by a short
  write was answered as written; a tombstone that lacks only its line feed works
  until the next append joins its line and undoes it. `ForgetHolds` and
  `TornAppendIsContained` say that the loss ends there.
* *The inbox closes for good* after a torn line or at its size limit, and an entry
  that reached the file is then reported "blocked". `InboxAllOrNothing` says that it
  never shows a part instead.
* *The policy gate decides for the default identity*, so that a simulation is
  authorized for a caller whose own identity was refused; `VerdictIsExact` has
  this in `MaySimulate`, which does not ask for `Trusted`. Nothing runs for it.
* *The panel misses one status*: `permission_ux.py:17` lists
  `effective_for_local_mcp_safe_tool`, `effective_authorization.py:165` says
  `effective_for_mcp_local_safe_tool`, and an authorized tool is shown as "warn".
  `PanelIsHonest` claims one direction only.
* *Writers of one configuration share the name of the temporary file.* Two that
  overlap can leave a torn document and report success, or report an error for
  the document in force. `ConfigIsOldOrNew` holds while no two have overlapped.
* *stack-start with an unreadable configuration* starts a harness without the
  sandbox and says nothing; later starts find the port taken. `SandboxIsRestored`
  holds for a configuration that was reported set and that nobody else writes.

## 4. Fairness

* Threads and processes that are not killed keep running: the operating system
  schedules them. `GrantLedger!FairSpec` asks weak fairness of every step of a
  call, `WorkbenchChat!ChatFairSpec` of every step of a handler; no lock of
  the code is held while waiting for something, so weak fairness is enough.
  A call that finds the lock file taken fails at once and waits for nothing.
* The model call ends: the client has a timeout (at most 120 s).
* A page's task goes on when its answer has come; answers come, or the
  connection of a restarted gateway breaks.
* A request to the Harness is answered or fails: `urlopen` has a timeout. The
  Harness itself owes nothing: its runs may stay queued forever.

No liveness is claimed where the code does not provide it: a killed process
may leave the lock file behind, so the two parts of `CallsGetThrough` (the lock
file goes away, a permitted call runs its handler) promise nothing once a process
was killed. `NothingStaysWaiting` joins the end of every turn, of every request and
of the page's waiting. `AskEnds` covers the works an agent delegates, whose polls
and deadline are bounded. The records, the host and the chain wait for nothing but
the stack's deadlines, which the model lets pass at any moment; no liveness is
stated of them.

## 5. Proofs

Every theorem holds for all values of the constants that satisfy the assumptions of
the module that declares them; the `Max...` bounds stay parameters.

| module | theorems | what they state |
|---|---|---|
| `GrantLedgerProofs` | `TypeCorrect`, `LockExclusiveTheorem`, `AtMostOnceTheorem`, `RunsAreRecordedTheorem`, `RevocationHonouredTheorem`, `RunsWithinLifetimeTheorem`, `ImplementsSingleUseGrant` | every safety property of the ledger, and its refinement of `SingleUseGrant` |
| `AuthorizationChainProofs` | `ChainTheorem`, `VerdictIsExactTheorem`, `GrantBindsRequestTheorem`, `ToldTheorem`, `RunsAreBackedTheorem`, `PanelIsHonestTheorem` | every property of the chain, for every request and grant |
| `LocalDevAgentProofs` | `WorkTypeCorrect`, `AtMostOneRunTheorem`, `ReadyIsReviewedTheorem`; `AgentTypeCorrect`, `OneRunPerAskTheorem`, `ResultsAreHonestTheorem`, `HistoryIsAnsweredTheorem` | every safety property of delegated work; every safety property of the agent |
| `LocalTaskProofs` | `TypeCorrect`, `RunsWereReviewedTheorem`, `ResultsMatchRunsTheorem`, `UndisturbedTheorem` | every property of the pipeline |
| `DirectConversationProofs` | `TypeTheorem`, `BusyMeansOneTurnTheorem`, `LatestKeptTheorem`, `ImplementsConversationLog`, `QuietNewStartsEmptyTheorem` | every safety property of the store, its refinement of `ConversationLog`, and the new conversation of the page |
| `MobileSessionProofs` | `BaseTheorem`, `TypeTheorem`, `SessionsStayOutTheorem`, `PairTokenStaysSpentTheorem` | every property of sessions and pairing |
| `LocalRecordsProofs` | `TornAppendIsContainedTheorem`, `ForgetHoldsTheorem`, `InboxAllOrNothingTheorem`, `LoopActsOnWhatWasShownTheorem` | every property of the records |
| `HostSetupProofs` | `BaseTheorem`, `FilesTheorem`, `ConfigIsOldOrNewTheorem`, `KeyIsKeptTheorem`, `SandboxIsRestoredTheorem`, `ReportIsBackedTheorem` | every property of the host |

Seldom is a property inductive as it stands. What each proof adds:

**Ledger.** `AtMostOnce` says nothing of what a call between its record and its
handler holds. The invariant therefore
follows the permission: `LockExclusive` (two calls in the critical section
exclude each other, also after a crash has left the lock file behind);
`Deciding` (a call about to write its record has an unconsumed grant and what it
decided from is still true); `Tickets` (a call allowed to run its handler has
its record in the file and nobody has run it yet) and `TicketsDistinct` (no two
calls hold the same permission). `BaseInv` underneath says that ids are drawn
once (`IssuesDistinct`, `IssuedDrawn`, `IssuedOnce`), so that the record a grant
was issued by never changes when others are appended. For revocations
`SeenRecorded` says that the part of the file a call found on entry is still there,
and `KeptUnrevoked` that it holds no revocation of the grant if the call goes on; for
lifetimes `IssuerFirst` orders the issue before every call that uses the grant,
`IssuedBounded` caps the expiry, and `KeptAlive` carries the comparison made at the check to the run.
In the refinement a line that is appended whole is the abstract issue, revocation or
consumption, `RunHandler` is `Execute`, and every other step stutters.

**Policy chain.** `ChainInv` says that the records made so far are those of the
stages passed (`Reached`), each the function of this request that its
module computes (`Faithful`), and what a consumed grant has in common with the
request (`Spent`). The rest is about those functions: `NothingDeclared` and
`RedactionKeeps` (redaction neither hides nor adds anything that a contract
declares), `GateOutcomes` and one lemma per record (`RecordStatus` ...
`ValidationStatus`), joined in `Verdict`; `MatchingBinds` takes the id
of an effective authorization apart down to the request, whose scope the ledger has
completed. `PolicyAssumption` has what
this needs of the code's texts: none of the adapters and capabilities of the contracts
holds a secret marker, `ChainAssumption` that the names of the scopes are texts. As everywhere in the model, the hash itself is free of collisions.

**Work.** `AtMostOneRun` needs to know where a submission is: `OneRunEach`
(runs belong to works that were submitted), `NotPostedYet` (before the request
"create" the work has no submission), `OnTheWire` (while it is under way it has
no run and is not astray), `StraysWait` (one given up that has not arrived has
no run). At every moment a submission is in exactly one of these places, and
only leaving one of them creates a run. `ReadyIsReviewed` needs `OwnRun` (the run id
a work polls is that of its own run, whatever misrouted answers came) and `FinalAnswer`
(what the last answer said of a run that ended is what the run still is, as ended runs stand:
`RunsStand`).

**Agent.** Every step of the agent is a step of `run_work` or leaves it alone
(`AgentDelegates`), so that the invariants of the works carry over. On top,
`Submitted` and `Current` relate the locals of the message to the last work,
`OneWorkEach` says that no two works belong to one message, and `Unsubmitted`
that a result which says that nothing was attempted is about a message without a work. For the history, `IsEnd`
is kept by an answer whether or not the limit cuts the front off (`EndOfLonger`).

**Task pipeline.** A run is justified by a review that may lie many calls back.
`ReviewInv` follows the digest of what was reviewed: through the reviews kept in
files (`ReviewsKnown`), the approvals made from them (`ApprovalsKnown`), and the
approval a call is about to load its task with (`LoadsKnown`); each such digest
is that of a record in `passed`, the records some review found ready. The
loading compares the digest of what it reads with the approved one, so that what
a call is about to run (`PlansRunnable`) is in `passed` whatever was written in
between. The proof takes the digest to be free of collisions (`Digest` is
injective); it is SHA-256 over a canonical form in the code. `Outcome` relates the
place of a call to the commands it has run and how they ended; `Own` says what a
call nobody met finds in the file and holds, from its write to its run.

**Conversations.** `StoreInv` adds to the types that trimming leaves every
conversation within its limits (`Bounded`) and that a turn under way holds the very
history it will be appended to (`Reading`). `Chars`, `Trim` and
`Victim` are a recursive function and choices of a least element; their facts
follow from the least-number principle. In the refinement a creation is
`Open`, a reset `Clear`, `FinishTurn` is `Turn`, a restart `Forget`, an eviction closes a
conversation together with the creation that caused it, and every other step stutters.

**Page.** `ChatInv` adds to `StoreInv` where the handler of each task is (`Served`), that
an id on its way to the page is known to nobody else and its conversation empty
(`Unknown`), and that a quiet announcement excludes an outstanding answer (`Quiet`). The
theorem has the hypothesis `EnoughIds`: more ids than conversations, handlers and the page
can know at a time, so that the id drawn is a fresh one (`DrawnFacts`, by counting); the 64
random bits of an id stand behind it, and TLC evaluates it on the run's instance.

**Sessions.** The failures of a client within the window can pass the limit, as
threads check and record in two critical sections. `LimitInv` counts both: recent
stamps and the requests that were admitted and have not failed yet
(`Admitted`) stay below the limit plus the number of threads. `SessionsStayOut` goes one request at
a time (`StaysOut`) over what never changes again: the exchanges made and the expiry of their sessions
(`PastStands`). A spent token (`spent`: an exchange removed its file) is `Out`: the file neither
holds it nor is about to, and no step brings it back; `Spending` says of a request between its
comparison with the file and its session that its token was not spent when it came. A removal
that failed puts nothing into `spent`, and the property claims nothing of it.

**Records.** What reading finds is a recursive function of the file (`Kept`); that it
exists and which elements it keeps (`KeptFacts`) follows from the least-number principle
(`LeastNat`), and so what each reader shows (`ReadFacts`, `ActiveFacts`, `LoadFacts`).
Files only grow (`FilesGrow`), and in one that grows a record stays at its place and
stays spoiled if it was (`PlacesGrow`). `RecordsInv` has the kind of record each
file holds (`Held`), that a call which goes on after its append has its record in its file
(`Placed`), hence that everything reported is there (`Reported`), and for each call what it
knew when it began and what it shows (`Seen`, `Excused`, `Complete`, `Selected`). That the loop's entry is the one shown rests on the
id: joined texts are equal when the id is (`Selected`), and if the shown ones are one word each, there are as
many words as texts, so each is one word and the texts are equal (`PlainIds`). `TextsAssumption` has the types of
what callers and the objective state say. The
projects' files have names of their own: `RecordsAssumption` keeps the model's names of the
inbox and of the two logs, which lie in other directories, out of `Projects`.

**Host.** `Base` is types, what a call was given when it began, and that no two
writers share an inode while no two have overlapped (`Apart`). A key: a forced
creation is noticed by every call it meets (`ForcedMet`), of the others only one has the new
file open (`OneHolds`) and it holds its own key (`HeldKey`), so that what was told is there (`ToldKey`); `Calm`
is the frame of all other steps. A configuration: what a single writer has done so far
(`Progress`), what the file is between writers (`Undisturbed`, `Standing`), and the
promise to the caller (`Promised`); `Settled` is the frame. A stack start follows the document it has read through its
stages (`StackCall`), and a report that reached the key has seen the document that
names it (`Progress` again).

TLC has checked the same invariants on the runs' instances before they were
proved. `LockExclusive` and the invariants named here are stated by theorems or lemmas alone: no
run checks them again.

Every safety property of a run is stated by a theorem. What stays with TLC is liveness
under fairness (`CallsGetThrough`, `NothingStaysWaiting`, `AskEnds`): the prover treats
neither fairness nor ENABLED.

## 6. What is not modelled

Formatting, rendering and argument parsing; the payloads of handlers; network
transport below a request. The contents of a corrupted file beyond "cannot be
parsed". Loss of the host's page cache. A gateway without an access token, which
accepts every local request. The read-only tools of the agent, which have no effect.

Whole components, because they keep no state and nothing concurrent meets in them:
governed routing (classifies a message and calls the components above), the relay
and the bridge and mobile launchers, Telegram (one text in parts), the public
browser and the document tools, the read-only reports, the environment's
configuration, the editor extension and the scripts. Of `model.py` the host probes,
plan, task, eval and file discovery are such reports as well; of the page, the polling of
runs and the panels are rendering around single requests. `PROJECT.json` lists
every component with its state.

## 7. Plan

1. Done: the ledger and its abstract grant, the conversation store with its
   abstract log and the page, sessions and pairing, delegated work and the agent, the
   task pipeline; the policy chain and its composition with the ledger, the local
   records, the host; the first theorems.
2. Done: the safety properties of every run, and both refinements.
3. Left: an abstract specification of a file of records (what is reported is there to be
   read) that `LocalRecords` implements.
