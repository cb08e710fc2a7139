-------------------------- MODULE AuthorizationChain --------------------------
(***************************************************************************)
(* One call of a front end that wants to use an adapter: the stages of the *)
(* policy in the order the code runs them, then the front end itself, with *)
(* the ledger of single-use grants as its counterpart (GrantLedger models  *)
(* the ledger; here it holds at most the grant the call names).            *)
(*                                                                         *)
(* Front ends: the adapter dispatcher (adapter_dispatcher.py), the local   *)
(* MCP tool (mcp_local_tool.py), the n8n plan (n8n_local_plan.py) and the  *)
(* permission panel (permission_ux.py).  The dispatcher and the panel run  *)
(* some stages more than once; the stages are functions of the request, so *)
(* the model runs each once.                                               *)
(***************************************************************************)
EXTENDS AuthorizationPolicy

CONSTANTS
  Calls,        \* bound: the calls made
  Holders,      \* bound: the requests a grant may have been issued for
  NoGrant       \* authorization_grant_id = None

VARIABLES
  call,      \* front end, request, action, the named grant, digest validity
  stage,     \* the stage that runs next
  made,      \* what the stages so far have made
  consumed,  \* the grant was consumed for this call
  answer     \* the status the caller gets, and whether a handler ran

vars == <<call, stage, made, consumed, answer>>

Tools == {"mcp_local", "n8n"}

\* _request_kwargs: a tool asks for its own target and nothing else.
ToolRequest(tool, context, parameters, who) ==
  LET target == CHOOSE t \in Targets : t[2] = tool
  IN  [capability |-> target[3], adapter |-> tool, context |-> context,
       action |-> target[3], parameters |-> parameters, intent |-> TRUE,
       approver |-> "user", scope |-> target[1], who |-> who]

\* The names of the scopes are texts, like those a request can bring.
ASSUME ChainAssumption ==
  /\ LocalScopes \subseteq STRING
  /\ Holders \subseteq RequestArguments /\ NoGrant \notin Holders
  /\ \A c \in Calls : c.request \in RequestArguments
  /\ \A c \in Calls : c.grant = NoGrant \/ c.grant \in Holders
  /\ \A c \in Calls : c.front \in Tools =>
       c.request = ToolRequest(c.front, c.request.context, c.request.parameters, c.request.who)

NoAnswer == [status |-> "none", ran |-> FALSE, panel |-> << >>]

Init ==
  /\ call \in Calls
  /\ stage = "start"
  /\ made = [s \in {} |-> 0]
  /\ consumed = FALSE
  /\ answer = NoAnswer

Stage(from, to, name, value) ==
  /\ stage = from
  /\ stage' = to
  /\ made' = [n \in DOMAIN made \cup {name} |-> IF n = name THEN value ELSE made[n]]
  /\ UNCHANGED <<call, consumed, answer>>

Answer(status, ran, panel) ==
  /\ stage' = "done"
  /\ answer' = [status |-> status, ran |-> ran, panel |-> panel]
  /\ UNCHANGED <<call, made>>

-----------------------------------------------------------------------------
(* The stages *)

\* The tools refuse what is not a sha256 digest before anything else.
RefuseDigest ==
  /\ stage = "start"
  /\ call.front \in Tools /\ ~ call.digest
  /\ Answer("blocked", FALSE, << >>)
  /\ UNCHANGED consumed

Evaluate ==
  /\ call.front \in Tools => call.digest
  /\ Stage("start", "record", "evaluation", Evaluation(call.request, DefaultIdentity))

Record == Stage("record", "propose", "record", AuthorizationRecord(made.evaluation))

Propose ==
  Stage("propose", "audit", "proposal",
        Proposal(made.evaluation, made.record, call.request.parameters))

Audit ==
  Stage("audit", "simulate", "trail", AuditTrail(made.evaluation, made.record, made.proposal))

Simulate == Stage("simulate", "capture", "dryRun", DryRun(made.proposal, made.trail))

CaptureApproval ==
  Stage("capture", "validate", "capture",
        Capture(made.dryRun, call.request.intent, call.request.approver))

Validate ==
  Stage("validate", "decide", "validation", Validation(made.capture, made.dryRun, made.record))

Decide == Stage("decide", "authorize", "decision", Decision(call.request, call.request.who))

Authorize ==
  Stage("authorize", "front", "effective", Effective(call.request, made, made.decision))

-----------------------------------------------------------------------------
(* The front ends *)

\* can_handle_local_status for a granted capability.
HandlerAvailable ==
  /\ made.decision.outcome = "allow"
  /\ made.decision.adapter = "local_status"
  /\ made.decision.capability \in {"local_status.status", "local_status.echo"}

AsksLedger ==
  /\ call.grant # NoGrant
  /\ call.action = "run"
  /\ call.front = "dispatcher" => HandlerAvailable /\ made.effective.scope = "local-status-read"
  /\ call.front # "panel"

\* collect_authorization_recovery "consume" of a grant that is active: it must
\* have been issued for exactly this request, and the request be authorized.
\* The grant was issued under the ledger's default scope, the request comes with
\* the scope the front end has resolved.
Consume ==
  /\ stage = "front"
  /\ AsksLedger
  /\ stage' = "answer"
  /\ \E held \in {EffectiveOf(LedgerRequest(call.grant))} :
       consumed' = /\ made.effective.local
                   /\ held.local
                   /\ GrantKey(call.grant, held) = GrantKey(call.request, made.effective)
  /\ UNCHANGED <<call, made, answer>>

\* A grant that was already used, revoked or has expired.
ConsumeRefused ==
  /\ stage = "front"
  /\ AsksLedger
  /\ stage' = "answer"
  /\ UNCHANGED <<call, made, consumed, answer>>

AskNobody ==
  /\ stage = "front"
  /\ ~ AsksLedger
  /\ stage' = "answer"
  /\ UNCHANGED <<call, made, consumed, answer>>

\* Dispatch of a request without a local handler: a plan at most.
LegacyStatus ==
  IF ~ Registered(made.decision.adapter) \/ made.effective.scope # DryRunScope
     \/ made.effective.status = "blocked" THEN "blocked"
  ELSE IF ~ made.effective.effective THEN "pending"
  ELSE IF call.action = "run" THEN "blocked"
  ELSE "planned_not_dispatched"

\* Faulty variant: a grant that was named is taken for one that was consumed.
LocalStatusUnconsumed ==
  IF call.action # "run" THEN "planned_local_handler"
  ELSE IF /\ made.effective.scope = "local-status-read"
          /\ made.effective.local
          /\ call.grant # NoGrant
  THEN "dispatched_local"
  ELSE "blocked"

\* Dispatch of a request the in-process handler can serve.
LocalStatus ==
  IF call.action # "run" THEN "planned_local_handler"
  ELSE IF /\ made.effective.scope = "local-status-read"
          /\ made.effective.local
          /\ consumed
  THEN "dispatched_local"
  ELSE "blocked"

DispatcherStatus == IF HandlerAvailable THEN LocalStatus ELSE LegacyStatus

Dispatch ==
  /\ stage = "answer"
  /\ call.front = "dispatcher"
  /\ Answer(DispatcherStatus, DispatcherStatus = "dispatched_local", << >>)
  /\ UNCHANGED consumed

\* A tool that plans reports the authorization and asks nobody; "issue" asks the
\* ledger for a grant, which it gives for an authorized request.
ToolStatus ==
  CASE call.action = "plan"  -> "planned"
    [] call.action = "issue" -> IF made.effective.local THEN "issued" ELSE "blocked"
    [] call.action = "run"   -> IF consumed THEN "executed" ELSE "blocked"
    [] OTHER                 -> "blocked"

RunMcpTool ==
  /\ stage = "answer"
  /\ call.front = "mcp_local"
  /\ Answer(ToolStatus, call.action = "run" /\ consumed, << >>)
  /\ UNCHANGED consumed

InspectN8nPlan ==
  /\ stage = "answer"
  /\ call.front = "n8n"
  /\ Answer(ToolStatus, call.action = "run" /\ consumed, << >>)
  /\ UNCHANGED consumed

\* Faulty variant: every effective_... status counts, whatever follows.
PanelStateNotDanger(status) ==
  IF status \in {"deny", "blocked", "expired", "missing", "rejected"} THEN "danger" ELSE "ready"

\* _state_for_status.
PanelState(status) ==
  IF status \in {"allow", "ready", "not_required", "effective_for_dry_run_safe_operation",
                 "effective_for_local_status_read", "effective_for_local_mcp_safe_tool",
                 "effective_for_n8n_local_plan", "planned_local_handler"} THEN "ready"
  ELSE IF status \in {"deny", "blocked", "expired", "missing", "rejected"} THEN "danger"
  ELSE "warn"

\* The panel's own record is made for the identity of the request, the
\* validation for the default one.
PanelStatuses ==
  << IF call.request.capability # "" \/ call.request.action # "" THEN "declared" ELSE "missing",
     IF made.decision.verified THEN "verified" ELSE "blocked",
     made.decision.outcome,
     AuthorizationRecord(Evaluation(call.request, call.request.who)).status,
     made.validation.status,
     made.effective.status,
     IF call.grant = NoGrant THEN "missing" ELSE "provided_unverified",
     "not_executed" >>

ShowPanel ==
  /\ stage = "answer"
  /\ call.front = "panel"
  /\ Answer("ready", FALSE,
            [i \in 1..Len(PanelStatuses) |-> PanelState(PanelStatuses[i])])
  /\ UNCHANGED consumed

Next ==
  \/ RefuseDigest \/ Evaluate \/ Record \/ Propose \/ Audit \/ Simulate
  \/ CaptureApproval \/ Validate \/ Decide \/ Authorize
  \/ Consume \/ ConsumeRefused \/ AskNobody
  \/ Dispatch \/ RunMcpTool \/ InspectN8nPlan \/ ShowPanel

Spec == Init /\ [][Next]_vars

-----------------------------------------------------------------------------
(* Properties *)

\* A principal as the specification of the chain sees it.
Trusted(who) ==
  /\ SafeText(who.source, "local-cli") \in TrustedSources
  /\ who.claim = NoClaim \/ SafeText(who.claim, "") = SafeText(who.principal, "local-user")
  /\ who.expected \in {"", "own"}

\* Exactly the three targets can be run, by a trusted principal.
MayRunLocally(request) ==
  /\ Trusted(request.who)
  /\ <<request.scope, request.adapter, request.capability>> \in Targets

\* A simulation is authorized by an approval of something that is declared and
\* not granted.
MaySimulate(request) ==
  LET contract == ContractOf(request.adapter)
  IN  /\ Text(request.scope, DryRunScope) = DryRunScope
      /\ request.intent
      /\ request.capability \in (contract.requested \cup contract.approval) \ contract.granted

\* Ten stages, two decisions (one redacted, for the default principal, one for
\* the caller) and five tests of one another end in exactly this verdict: no
\* approval, approver, context, action text or parameter makes a request run.
VerdictIsExact ==
  "effective" \in DOMAIN made =>
    /\ made.effective.local = MayRunLocally(call.request)
    /\ made.effective.effective = (MayRunLocally(call.request) \/ MaySimulate(call.request))

\* A grant is only consumed by the request it was issued for, as the decision
\* records it, whatever field of either request differs.  The two defaults of a
\* scope left out do not meet: a request has to name the scope it runs in, and
\* that is the one the ledger issued the grant for, named or by its default.
GrantBindsRequest ==
  consumed =>
    /\ Decision(call.grant, call.grant.who) = Decision(call.request, call.request.who)
    /\ call.grant.parameters = call.request.parameters
    /\ call.grant.intent = call.request.intent
    /\ SafeText(call.grant.approver, "user") = SafeText(call.request.approver, "user")
    /\ LedgerRequest(call.grant).scope = call.request.scope

\* A handler runs exactly when a grant was consumed for the call: none runs on a
\* grant that was only named, and no grant is spent on a call that is then
\* refused.  What ran was simulated before and is on the audit trail as allowed.
RunsAreBacked ==
  stage = "done" =>
    /\ answer.ran = consumed
    /\ answer.ran => /\ made.dryRun.status = "simulated"
                     /\ made.trail[1].status = "allow"
                     /\ made.trail[4].status = "not_executable"

\* The panel shows no authorization that is not there, calls a refused decision
\* dangerous all along, and never shows an execution.
PanelIsHonest ==
  stage = "done" /\ call.front = "panel" =>
    /\ answer.panel[6] = "ready" => made.effective.effective
    /\ ~ made.decision.verified => \A i \in 2..4 : answer.panel[i] = "danger"
    /\ answer.panel[7] # "ready" /\ answer.panel[8] = "warn"
=============================================================================
