----------------------------- MODULE GrantLedger -----------------------------
(***************************************************************************)
(* The persisted single-use authorization grants of the gateway            *)
(* (lai_gateway/authorization_recovery.py) together with the callers that  *)
(* run a local handler once a grant has been consumed                      *)
(* (adapter_dispatcher.py, mcp_local_tool.py, n8n_local_plan.py).          *)
(*                                                                         *)
(* HTTP handler threads and CLI processes share one append-only JSONL      *)
(* ledger and one lock file.  Only "consume" takes the lock; "issue" and   *)
(* "revoke" append without it, and "revoke" decides from the events it     *)
(* read on entry.  Every read, append, lock and unlock is a step of its    *)
(* own, so all their interleavings are explored.                           *)
(*                                                                         *)
(* A request stands for everything _exact_match compares: scope, adapter,  *)
(* capability, identity binding, action digest, parameters digest and      *)
(* effective authorization id.                                             *)
(***************************************************************************)
EXTENDS Integers, Sequences, FiniteSets

CONSTANTS
  Procs,          \* handler threads and CLI processes that call the ledger
  Hosts,          \* operating system processes they live in
  HostOf,         \* HostOf[p]: killing a host ends all of its threads
  Grants,         \* grant ids uuid4 may draw
  NoGrant,        \* the caller names no grant
  Requests,       \* requests as _exact_match compares them
  NoRequest,      \* placeholder of calls whose request is not used
  Authorized,     \* effective and local_non_dry_run_authorized requests
  Allowlisted,    \* requests whose target is in _ALLOWED_TARGETS
  Calls,          \* bound: the calls made in an instance
  NoTtl,          \* ttl_seconds = None
  DefaultTtl,     \* _DEFAULT_TTL_SECONDS
  MaxTtl,         \* _MAX_TTL_SECONDS
  SecondTicks,    \* clock ticks per second: timestamps are cut to seconds
  MaxClock,       \* bound: ticks of the wall clock
  MaxCrashes,     \* bound: killed hosts
  MaxFaults       \* bound: failed or short writes to the ledger

ASSUME GrantAssumption ==
  /\ NoGrant \notin Grants
  /\ NoRequest \notin Requests
  /\ Authorized \subseteq Requests
  /\ Allowlisted \subseteq Requests
  /\ HostOf \in [Procs -> Hosts]

\* What a caller can pass: ttl_seconds only matters to "issue", the request only
\* to "issue" and "consume", and only the front ends that run a handler after
\* a consumption set handler.
AllCalls ==
  [action : {"issue"}, grant : {NoGrant}, request : Requests,
   ttl : Int \cup {NoTtl}, handler : {FALSE}]
  \cup
  [action : {"check", "revoke"}, grant : Grants \cup {NoGrant},
   request : {NoRequest}, ttl : {NoTtl}, handler : {FALSE}]
  \cup
  [action : {"consume"}, grant : Grants \cup {NoGrant}, request : Requests,
   ttl : {NoTtl}, handler : BOOLEAN]

ASSUME CallAssumption == Calls \subseteq AllCalls

ASSUME TimeAssumption ==
  /\ NoTtl \notin Int
  /\ MaxTtl \in Nat
  /\ DefaultTtl \in 0..MaxTtl
  /\ SecondTicks \in Nat \ {0}
  /\ MaxClock \in Nat
  /\ MaxCrashes \in Nat
  /\ MaxFaults \in Nat

VARIABLES
  events,    \* the parsable lines of authorization-events.jsonl
  ending,    \* how the file ends: "line", "open" (newline missing), "broken"
  lockFile,  \* authorization-events.lock exists
  clock,     \* the wall clock, in ticks
  pc,        \* control point of each caller
  job,       \* the call each caller is serving
  drawn,     \* grant ids uuid4 has produced
  runs,      \* history: handler executions in order
  crashes,
  faults

vars == <<events, ending, lockFile, clock, pc, job, drawn, runs, crashes, faults>>

-----------------------------------------------------------------------------
(* Data *)

EventTypes == {"issued", "revoked", "consumed"}

Events == [type : EventTypes, grant : Grants, request : Requests,
           at : Nat, expires : Nat]

NoCall == [action |-> "none", grant |-> NoGrant, request |-> NoRequest,
           ttl |-> NoTtl, handler |-> FALSE]

\* now is the time sampled on entry; seen counts the events already recorded
\* when a consuming call entered (history only: no guard reads it).
Jobs == [call : Calls \cup {NoCall}, grant : Grants \cup {NoGrant},
         now : Nat, seen : Nat]

NoJob == [call |-> NoCall, grant |-> NoGrant, now |-> 0, seen |-> 0]

Locked == {"decide", "consume", "confirm", "refuse", "permit"}

Points == {"idle", "load", "issue", "revoke", "reread", "lock", "run"} \cup Locked

-----------------------------------------------------------------------------
(* _state_for, _bounded_ttl_seconds, _iso, _allowed_target, _exact_match *)

Recorded(type, g) ==
  \E i \in DOMAIN events : events[i].type = type /\ events[i].grant = g

IssuedEvent(g) ==
  events[CHOOSE i \in DOMAIN events :
           /\ events[i].type = "issued"
           /\ events[i].grant = g
           /\ \A j \in 1..(i - 1) : ~(events[j].type = "issued" /\ events[j].grant = g)]

\* Faulty variant: the boundary second still counts as alive.
ExpiredLate(g, now) == now > IssuedEvent(g).expires

Expired(g, now) == now >= IssuedEvent(g).expires

\* Faulty variants: a replay is not recognised; a revocation is not recognised.
ActiveDespiteConsumed(g, now) ==
  /\ g # NoGrant
  /\ Recorded("issued", g)
  /\ ~ Recorded("revoked", g)
  /\ ~ Expired(g, now)

ActiveDespiteRevoked(g, now) ==
  /\ g # NoGrant
  /\ Recorded("issued", g)
  /\ ~ Recorded("consumed", g)
  /\ ~ Expired(g, now)

Active(g, now) ==
  /\ g # NoGrant
  /\ Recorded("issued", g)
  /\ ~ Recorded("revoked", g)
  /\ ~ Recorded("consumed", g)
  /\ ~ Expired(g, now)

BoundedTtl(ttl) ==
  CASE ttl = NoTtl  -> DefaultTtl
    [] ttl \in Int /\ ttl < 0 -> 0
    [] ttl \in Int /\ ttl > MaxTtl -> MaxTtl
    [] OTHER -> ttl

WholeSeconds(t) == t - (t % SecondTicks)

ExpiresAt(now, ttl) == WholeSeconds(now + BoundedTtl(ttl) * SecondTicks)

\* Faulty variant: only the target is compared.
TargetMatch(g, r) == r \in Allowlisted

ExactMatch(g, r) == r \in Allowlisted /\ IssuedEvent(g).request = r

-----------------------------------------------------------------------------
(* One os.write to an O_APPEND descriptor whose count nobody checks.  A    *)
(* record appended to an unterminated line makes that line unparsable.     *)

Written(e) ==
  \/ /\ events' = IF ending = "line" THEN Append(events, e) ELSE events
     /\ ending' = IF ending = "line" THEN "line" ELSE "broken"
     /\ UNCHANGED faults
  \/ /\ faults < MaxFaults
     /\ faults' = faults + 1
     /\ \/ /\ ending' = "broken"
           /\ UNCHANGED events
        \/ /\ ending = "line"
           /\ events' = Append(events, e)
           /\ ending' = "open"

Goto(p, point) == pc' = [pc EXCEPT ![p] = point]

Return(p) ==
  /\ Goto(p, "idle")
  /\ job' = [job EXCEPT ![p] = NoJob]

File == <<events, ending>>
World == <<clock, drawn, runs, crashes>>

-----------------------------------------------------------------------------
(* collect_authorization_recovery: entry, and the read every action makes *)

\* A caller can only name an id uuid4 has produced.  The second conjunct is a
\* bound: no issue starts when the model has no id left for it.
Callable(call) ==
  /\ call.grant \in drawn \cup {NoGrant}
  /\ call.action = "issue" =>
       Cardinality({q \in Procs : pc[q] = "load" /\ job[q].call.action = "issue"})
         < Cardinality(Grants \ drawn)

Begin(p, call) ==
  /\ pc[p] = "idle"
  /\ Callable(call)
  /\ job' = [job EXCEPT ![p] = [call |-> call, grant |-> call.grant,
                                now |-> clock,
                                seen |-> IF call.action = "consume" THEN Len(events) ELSE 0]]
  /\ Goto(p, "load")
  /\ UNCHANGED <<File, lockFile, World, faults>>

CanIssue(r) == r \in Authorized /\ r \in Allowlisted

CanRevoke(g) ==
  /\ Recorded("issued", g)
  /\ ~ Recorded("consumed", g)
  /\ ~ Recorded("revoked", g)

\* Faulty variant: the drawn id is not put into the event.
LoadIssueWithoutId(p) ==
  /\ pc[p] = "load"
  /\ job[p].call.action = "issue"
  /\ ending # "broken"
  /\ CanIssue(job[p].call.request)
  /\ \E g \in Grants \ drawn : drawn' = drawn \cup {g}
  /\ Goto(p, "issue")
  /\ UNCHANGED <<File, lockFile, clock, runs, crashes, faults, job>>

LoadIssue(p) ==
  /\ pc[p] = "load"
  /\ job[p].call.action = "issue"
  /\ ending # "broken"
  /\ CanIssue(job[p].call.request)
  /\ \E g \in Grants \ drawn :
       /\ drawn' = drawn \cup {g}
       /\ job' = [job EXCEPT ![p].grant = g]
  /\ Goto(p, "issue")
  /\ UNCHANGED <<File, lockFile, clock, runs, crashes, faults>>

LoadRevoke(p) ==
  /\ pc[p] = "load"
  /\ job[p].call.action = "revoke"
  /\ ending # "broken"
  /\ CanRevoke(job[p].grant)
  /\ Goto(p, "revoke")
  /\ UNCHANGED <<File, lockFile, World, job, faults>>

LoadConsume(p) ==
  /\ pc[p] = "load"
  /\ job[p].call.action = "consume"
  /\ ending # "broken"
  /\ Goto(p, "lock")
  /\ UNCHANGED <<File, lockFile, World, job, faults>>

\* An unparsable line raises; a check, a refused issue and a revoke that has
\* nothing to do only report.
LoadReturn(p) ==
  /\ pc[p] = "load"
  /\ \/ ending = "broken"
     \/ job[p].call.action = "check"
     \/ job[p].call.action = "issue" /\ ~ CanIssue(job[p].call.request)
     \/ job[p].call.action = "revoke" /\ ~ CanRevoke(job[p].grant)
  /\ Return(p)
  /\ UNCHANGED <<File, lockFile, World, faults>>

-----------------------------------------------------------------------------
(* issue and revoke: an append without the lock, then a second read *)

IssueAppend(p) ==
  /\ pc[p] = "issue"
  /\ Written([type |-> "issued", grant |-> job[p].grant,
              request |-> job[p].call.request, at |-> job[p].now,
              expires |-> ExpiresAt(job[p].now, job[p].call.ttl)])
  /\ Goto(p, "reread")
  /\ UNCHANGED <<lockFile, World, job>>

RevokeAppend(p) ==
  /\ pc[p] = "revoke"
  /\ LET issued == IssuedEvent(job[p].grant)
     IN  Written([issued EXCEPT !.type = "revoked"])
  /\ Goto(p, "reread")
  /\ UNCHANGED <<lockFile, World, job>>

Reread(p) ==
  /\ pc[p] = "reread"
  /\ Return(p)
  /\ UNCHANGED <<File, lockFile, World, faults>>

-----------------------------------------------------------------------------
(* consume: everything from _with_lock to _release_lock *)

Lock(p) ==
  /\ pc[p] = "lock"
  /\ ~ lockFile
  /\ lockFile' = TRUE
  /\ Goto(p, "decide")
  /\ UNCHANGED <<File, World, job, faults>>

\* O_EXCL finds the file: FileExistsError leaves the call, nothing waits.
LockTaken(p) ==
  /\ pc[p] = "lock"
  /\ lockFile
  /\ Return(p)
  /\ UNCHANGED <<File, lockFile, World, faults>>

CanConsume(p) ==
  /\ ending # "broken"
  /\ Active(job[p].grant, job[p].now)
  /\ job[p].call.request \in Authorized
  /\ ExactMatch(job[p].grant, job[p].call.request)

Decide(p) ==
  /\ pc[p] = "decide"
  /\ Goto(p, IF CanConsume(p) THEN "consume" ELSE "refuse")
  /\ UNCHANGED <<File, lockFile, World, job, faults>>

ConsumeAppend(p) ==
  /\ pc[p] = "consume"
  /\ LET issued == IssuedEvent(job[p].grant)
     IN  Written([issued EXCEPT !.type = "consumed"])
  /\ Goto(p, "confirm")
  /\ UNCHANGED <<lockFile, World, job>>

Confirm(p) ==
  /\ pc[p] = "confirm"
  /\ Goto(p, IF ending = "broken" THEN "refuse" ELSE "permit")
  /\ UNCHANGED <<File, lockFile, World, job, faults>>

ReleaseRefused(p) ==
  /\ pc[p] = "refuse"
  /\ lockFile' = FALSE
  /\ Return(p)
  /\ UNCHANGED <<File, World, faults>>

\* The recovery endpoint only reports; the dispatcher and the MCP and n8n
\* front ends go on to run their handler.
ReleasePermitted(p) ==
  /\ pc[p] = "permit"
  /\ lockFile' = FALSE
  /\ IF job[p].call.handler
     THEN Goto(p, "run") /\ UNCHANGED job
     ELSE Return(p)
  /\ UNCHANGED <<File, World, faults>>

-----------------------------------------------------------------------------
(* execute_local_status_adapter, execute_local_mcp_adapter, *)
(* execute_local_n8n_plan_adapter                           *)

\* Faulty variant: the handler is retried with the same permission.
RunHandlerAgain(p) ==
  /\ pc[p] = "run"
  /\ Len(runs) < 3
  /\ runs' = Append(runs, [grant |-> job[p].grant, request |-> job[p].call.request,
                           now |-> job[p].now, seen |-> job[p].seen])
  /\ UNCHANGED <<File, lockFile, clock, drawn, crashes, faults, pc, job>>

RunHandler(p) ==
  /\ pc[p] = "run"
  /\ runs' = Append(runs, [grant |-> job[p].grant, request |-> job[p].call.request,
                           now |-> job[p].now, seen |-> job[p].seen])
  /\ Return(p)
  /\ UNCHANGED <<File, lockFile, clock, drawn, crashes, faults>>

-----------------------------------------------------------------------------
(* The environment *)

\* Faulty variant: the error path of a consume skips its "finally".
WriteFailsHoldingLock(p) ==
  /\ faults < MaxFaults
  /\ faults' = faults + 1
  /\ pc[p] \in {"issue", "revoke", "consume"}
  /\ Return(p)
  /\ UNCHANGED <<File, lockFile, World>>

\* os.open or os.write raises OSError: nothing is written, the call ends, and
\* a consume still releases its lock.
WriteFails(p) ==
  /\ faults < MaxFaults
  /\ faults' = faults + 1
  /\ \/ pc[p] \in {"issue", "revoke"} /\ Return(p)
     \/ pc[p] = "consume" /\ Goto(p, "refuse") /\ UNCHANGED job
  /\ UNCHANGED <<File, lockFile, World>>

Crash(h) ==
  /\ crashes < MaxCrashes
  /\ crashes' = crashes + 1
  /\ pc' = [p \in Procs |-> IF HostOf[p] = h THEN "idle" ELSE pc[p]]
  /\ job' = [p \in Procs |-> IF HostOf[p] = h THEN NoJob ELSE job[p]]
  /\ UNCHANGED <<File, lockFile, clock, drawn, runs, faults>>

Tick ==
  /\ clock < MaxClock
  /\ clock' = clock + 1
  /\ UNCHANGED <<File, lockFile, drawn, runs, crashes, pc, job, faults>>

-----------------------------------------------------------------------------

Init ==
  /\ events = << >>
  /\ ending = "line"
  /\ lockFile = FALSE
  /\ clock = 0
  /\ pc = [p \in Procs |-> "idle"]
  /\ job = [p \in Procs |-> NoJob]
  /\ drawn = {}
  /\ runs = << >>
  /\ crashes = 0
  /\ faults = 0

Proceed(p) ==
  \/ LoadIssue(p) \/ LoadRevoke(p) \/ LoadConsume(p) \/ LoadReturn(p)
  \/ IssueAppend(p) \/ RevokeAppend(p) \/ Reread(p)
  \/ Lock(p) \/ LockTaken(p) \/ Decide(p) \/ ConsumeAppend(p) \/ Confirm(p)
  \/ ReleaseRefused(p) \/ ReleasePermitted(p) \/ RunHandler(p)

Next ==
  \/ \E p \in Procs : \/ \E call \in Calls : Begin(p, call)
                      \/ Proceed(p)
                      \/ WriteFails(p)
  \/ \E h \in Hosts : Crash(h)
  \/ Tick

Spec == Init /\ [][Next]_vars

\* A call that was not killed keeps executing: threads are scheduled by the
\* operating system and no step of the call blocks.
FairSpec == Spec /\ \A p \in Procs : WF_vars(Proceed(p))
-----------------------------------------------------------------------------
(* Properties *)

TypeOK ==
  /\ events \in Seq(Events)
  /\ ending \in {"line", "open", "broken"}
  /\ lockFile \in BOOLEAN
  /\ clock \in Nat
  /\ pc \in [Procs -> Points]
  /\ job \in [Procs -> Jobs]
  /\ drawn \subseteq Grants
  /\ runs \in Seq([grant : Grants, request : Requests, now : Nat, seen : Nat])
  /\ crashes \in Nat
  /\ faults \in Nat

\* authorization_recovery.py:429-459: two callers are never between _with_lock
\* and _release_lock together, whatever was killed, and the lock file is there
\* for as long as one of them is (proved in GrantLedgerProofs).
LockExclusive ==
  \A p, q \in Procs :
    pc[p] \in Locked /\ pc[q] \in Locked => p = q /\ lockFile

\* "consumir grant exatamente uma vez antes do dispatch" and "bloquear replay"
\* (docs/product/pr_95_authorization_recovery.md): over every interleaving,
\* crash and failed write, no grant runs a handler twice.
AtMostOnce ==
  \A i, j \in DOMAIN runs : runs[i].grant = runs[j].grant => i = j

\* A handler never runs on the strength of a record nobody can read back: the
\* ledger holds the grant issued, and later consumed, for exactly the request
\* the handler served.
Backed(g, r) ==
  \E k, m \in DOMAIN events :
    /\ k < m
    /\ events[k].type = "issued"
    /\ events[m].type = "consumed"
    /\ \A n \in {k, m} : events[n].grant = g /\ events[n].request = r

RunsAreRecorded ==
  \A i \in DOMAIN runs : Backed(runs[i].grant, runs[i].request)

\* A revocation that is in the ledger when a consuming call enters is honoured:
\* that call never runs the handler.
RevocationHonoured ==
  \A i \in DOMAIN runs :
    \A k \in DOMAIN events :
      k <= runs[i].seen /\ events[k].type = "revoked" => events[k].grant # runs[i].grant

\* A handler only runs for a call that entered within the grant's life, and no
\* life exceeds _MAX_TTL_SECONDS whatever ttl_seconds the issuer asked for.
RunsWithinLifetime ==
  \A i \in DOMAIN runs :
    \A k \in DOMAIN events :
      events[k].type = "issued" /\ events[k].grant = runs[i].grant =>
        /\ events[k].at <= runs[i].now
        /\ runs[i].now < events[k].expires
        /\ events[k].expires <= events[k].at + MaxTtl * SecondTicks

\* Unless a process is killed, a lock file that was created is removed again, a
\* failed write included: the lock never wedges the ledger for good.
LockEventuallyFree == lockFile ~> ~ lockFile \/ crashes > 0

\* Unless a process is killed, a front end that was permitted to dispatch does
\* run its handler: a consumed grant is not silently wasted.
PermittedRuns ==
  \A g \in Grants :
    (\E p \in Procs : pc[p] = "permit" /\ job[p].grant = g /\ job[p].call.handler)
      ~> (\E i \in DOMAIN runs : runs[i].grant = g) \/ crashes > 0

\* The liveness of the ledger: every caller that has to get through does, and
\* leaves nothing behind that would keep the next one out.
CallsGetThrough == LockEventuallyFree /\ PermittedRuns

\* The ledger implements the abstract single-use grant.
Abstract ==
  INSTANCE SingleUseGrant WITH
    issuedFor <- [g \in Grants |->
                    IF Recorded("issued", g) THEN IssuedEvent(g).request ELSE NoRequest],
    revoked   <- {g \in Grants : Recorded("revoked", g)},
    consumed  <- {g \in Grants : Recorded("consumed", g)},
    executed  <- [i \in DOMAIN runs |-> <<runs[i].grant, runs[i].request>>]

AbstractSpec == Abstract!Spec
=============================================================================
