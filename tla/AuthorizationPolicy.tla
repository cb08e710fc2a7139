------------------------- MODULE AuthorizationPolicy -------------------------
(***************************************************************************)
(* The policy of the gateway as functions of one request: who asks         *)
(* (identity.py), what the adapter contracts declare (adapters.py), what   *)
(* is decided (permission_decision.py, policy_evaluator.py), and the       *)
(* records made on the way to an effective authorization                   *)
(* (authorization_record.py, adapter_invocation.py, audit_events.py,       *)
(* adapter_dry_run.py, authorization_capture.py,                           *)
(* authorization_validation.py, effective_authorization.py).               *)
(*                                                                         *)
(* Identifiers are digests of what they name; here they are the tuple of   *)
(* that material, as two of them are equal exactly when it is.  Actor,     *)
(* channel and domain are treated alike and form one label, context; so    *)
(* do the four labels of a principal.  Labels are short: none is cut.      *)
(* The flags that every stage sets to the constant False, and the tests of *)
(* them (_unsafe_flags), are left out.                                     *)
(***************************************************************************)
EXTENDS Integers, Sequences, FiniteSets

CONSTANTS
  SecretShaped,   \* texts that hold one of _SECRET_MARKERS
  NoClaim         \* claimed_..._id = None

-----------------------------------------------------------------------------
(* Adapter contracts *)

Contract(requested, granted, approval) ==
  [requested |-> requested, granted |-> granted, approval |-> approval]

WantHuman == {"mcp.call_tool", "credentialed_tool", "filesystem_write", "network_side_effect"}

\* The adapters with a handler in the process, the MCP broker and the browser, the
\* only one whose lists overlap.
CoreContract(adapter) ==
  CASE adapter = "local_status" ->
         LET both == {"local_status.status", "local_status.echo"}
         IN  Contract(both, both, {})
    [] adapter = "mcp" ->
         Contract({"mcp.status", "mcp.list_tools", "mcp.policy_check"}, {}, WantHuman)
    [] adapter = "mcp_local" ->
         Contract({"mcp.local_echo_digest"}, {"mcp.local_echo_digest"}, WantHuman)
    [] adapter = "browser" ->
         Contract({"browser.plan", "browser.navigate_public", "browser.extract_public",
                   "browser.screenshot_public"}, {},
                  {"browser.navigate_public", "browser.authenticated_session",
                   "browser.form_submit", "browser.click_external",
                   "browser.download_file", "network_side_effect"})
    [] adapter = "n8n" ->
         Contract({"n8n.local_plan_digest", "n8n.plan_workflow", "n8n.inspect_workflow",
                   "n8n.validate_workflow", "n8n.dry_run_workflow"},
                  {"n8n.local_plan_digest"},
                  {"n8n.create_workflow", "n8n.update_workflow", "n8n.activate_workflow",
                   "n8n.execute_workflow", "n8n.credentialed_node", "n8n.webhook_public",
                   "network_side_effect"})

\* The contracts that only plan: nothing is granted.
PlannedContract(adapter) ==
  CASE adapter = "voice" ->
         Contract({"voice.plan", "voice.transcribe_local", "voice.synthesize_local",
                   "voice.route_command"}, {},
                  {"voice.capture_microphone", "voice.wake_word_listener",
                   "voice.send_transcript_external", "voice.invoke_action",
                   "voice.send_message", "voice.modify_calendar", "network_side_effect"})
    [] adapter = "model_lab" ->
         Contract({"model_lab.plan_eval", "model_lab.inspect_runtime",
                   "model_lab.read_model_metadata", "model_lab.dry_run_eval_plan"}, {},
                  {"model_lab.download_model", "model_lab.start_runtime",
                   "model_lab.run_benchmark", "model_lab.change_runtime_config",
                   "model_lab.access_gpu", "model_lab.upload_results",
                   "filesystem_write", "network_side_effect"})
    [] adapter = "social_career" ->
         Contract({"social_career.plan_content", "social_career.draft_post",
                   "social_career.inspect_pipeline",
                   "social_career.prepare_application_packet"}, {},
                  {"social_career.publish_post", "social_career.send_message",
                   "social_career.submit_application", "social_career.submit_form",
                   "social_career.use_credentialed_account", "network_side_effect"})
    [] adapter = "document_media" ->
         Contract({"document.plan_ingestion", "document.extract_text_local",
                   "document.summarize_local", "media.inspect_metadata_local"}, {},
                  {"document.read_external_path", "document.ocr", "media.transcribe",
                   "media.upload_external", "filesystem_write", "destructive_processing"})

CoreAdapters == {"local_status", "mcp", "mcp_local", "browser", "n8n"}
PlannedAdapters == {"voice", "model_lab", "social_career", "document_media"}

Registered(adapter) == adapter \in CoreAdapters \cup PlannedAdapters

\* collect_adapter_registry of one id: its contract, or one without a capability.
ContractOf(adapter) ==
  IF adapter \in CoreAdapters THEN CoreContract(adapter)
  ELSE IF adapter \in PlannedAdapters THEN PlannedContract(adapter)
  ELSE Contract({}, {}, {})

DeclaredBy(adapter) ==
  LET contract == ContractOf(adapter)
  IN  contract.requested \cup contract.granted \cup contract.approval

\* No text of the contracts, and no absent one, holds a secret marker.
ASSUME PolicyAssumption ==
  /\ "" \notin SecretShaped /\ NoClaim \notin SecretShaped
  /\ \A adapter \in CoreAdapters \cup PlannedAdapters :
       adapter \notin SecretShaped /\ DeclaredBy(adapter) \cap SecretShaped = {}

-----------------------------------------------------------------------------
(* Identity *)

Text(text, default) == IF text = "" THEN default ELSE text

SafeText(text, default) ==
  IF text \in SecretShaped THEN "[redacted]" ELSE Text(text, default)

TrustedSources ==
  {"local-cli", "gateway-loopback", "workbench-loopback", "private-gateway-token",
   "test-fixture"}

\* The identity arguments of a request: what "expected" binding id the caller
\* named is none, its own, or another.
Principals ==
  [principal : STRING, source : STRING, claim : {NoClaim} \cup STRING,
   expected : {"", "own", "foreign"}]

\* The identity arguments left out.
DefaultIdentity ==
  [principal |-> "", source |-> "", claim |-> NoClaim, expected |-> ""]

\* Faulty variant: the claims are recorded and not compared.
IdentityUnclaimed(who) ==
  [binding  |-> <<SafeText(who.principal, "local-user"), SafeText(who.source, "local-cli")>>,
   verified |-> /\ SafeText(who.source, "local-cli") \in TrustedSources
                /\ who.expected # "foreign"]

\* A claim is compared after both have become labels.
Identity(who) ==
  LET principal == SafeText(who.principal, "local-user")
      source    == SafeText(who.source, "local-cli")
      rejected  == who.claim # NoClaim /\ SafeText(who.claim, "") # principal
  IN  [binding  |-> <<principal, source>>,
       verified |-> /\ source \in TrustedSources
                    /\ ~ rejected
                    /\ who.expected # "foreign"]

\* The arguments of collect_effective_authorization.
RequestArguments ==
  [capability : STRING, adapter : STRING, context : STRING, action : STRING,
   parameters : STRING, intent : BOOLEAN, approver : STRING, scope : STRING,
   who : Principals]

-----------------------------------------------------------------------------
(* Decision and evaluation *)

Larger(a, b) == IF a >= b THEN a ELSE b

\* What the contract alone says of a capability.
Outcome(capability, adapter) ==
  LET contract == ContractOf(adapter)
  IN  IF capability = "missing" THEN "deny"
      ELSE IF capability \in contract.granted THEN "allow"
      ELSE IF capability \in contract.approval \cup contract.requested THEN "requires_approval"
      ELSE "deny"

Risk(capability, adapter) ==
  IF capability = "missing" THEN 0
  ELSE IF ~ Registered(adapter) \/ capability \in ContractOf(adapter).granted THEN 1
  ELSE IF capability \in ContractOf(adapter).approval THEN 4
  ELSE IF capability \in ContractOf(adapter).requested THEN 3
  ELSE 2

\* A permission decision; an unverified identity overrides the contract.
Decision(request, who) ==
  LET capability == Text(request.capability, "missing")
      context    == Text(request.context, "gateway")
      action     == Text(request.action, "unspecified")
      identity   == Identity(who)
      risk       == Risk(capability, request.adapter)
      outcome    == IF identity.verified THEN Outcome(capability, request.adapter) ELSE "deny"
  IN  [id         |-> <<outcome, capability, request.adapter, context, action, identity.binding>>,
       outcome    |-> outcome,
       capability |-> capability,
       granted    |-> IF outcome = "allow" THEN capability ELSE "none",
       adapter    |-> request.adapter,
       context    |-> context,
       action     |-> action,
       risk       |-> IF identity.verified THEN risk ELSE Larger(risk, 4),
       approval   |-> outcome = "requires_approval",
       binding    |-> identity.binding,
       verified   |-> identity.verified]

\* The evaluator redacts what looks like a secret before it decides.
Redacted(request) ==
  [request EXCEPT !.capability = SafeText(@, "missing"),
                  !.adapter    = SafeText(@, ""),
                  !.context    = SafeText(@, "gateway"),
                  !.action     = SafeText(@, "unspecified")]

Rules(decision) ==
  LET contract == ContractOf(decision.adapter)
      Check(b) == IF b THEN "pass" ELSE "fail"
  IN  [identity |-> Check(decision.verified),
       present  |-> Check(decision.capability # "missing"),
       adapter  |-> Check(Registered(decision.adapter)),
       declared |-> Check(decision.capability \in
                            contract.requested \cup contract.approval \cup contract.granted),
       granted  |-> Check(decision.capability \in contract.granted),
       human    |-> IF decision.approval THEN "requires_approval" ELSE "pass"]

Evaluation(request, who) ==
  LET decision == Decision(Redacted(request), who)
  IN  [id |-> <<decision.id, Rules(decision)>>, decision |-> decision]

-----------------------------------------------------------------------------
(* Records without effect: authorization record, invocation proposal, audit  *)
(* trail, dry run, capture of an approval and its validation                 *)

AuthorizationRecord(evaluation) ==
  LET status == CASE evaluation.decision.outcome = "requires_approval" -> "requires_human_approval"
                  [] evaluation.decision.outcome = "deny"  -> "blocked"
                  [] evaluation.decision.outcome = "allow" -> "not_required"
  IN  [id |-> <<evaluation.id, status>>, status |-> status]

Proposal(evaluation, record, parameters) ==
  LET status == IF ~ Registered(evaluation.decision.adapter) \/ record.status = "blocked"
                THEN "blocked"
                ELSE IF record.status = "requires_human_approval"
                THEN "requires_authorization"
                ELSE "not_executable"
  IN  [id |-> <<record.id, status, SafeText(parameters, "")>>,
       status |-> status, decision |-> evaluation.decision]

AuditEvent(sequence, type, status, subject) ==
  [sequence |-> sequence, type |-> type, status |-> status, subject |-> subject]

AuditTrail(evaluation, record, proposal) ==
  << AuditEvent(1, "permission_decision", evaluation.decision.outcome, evaluation.decision.id),
     AuditEvent(2, "policy_evaluation", "ready", evaluation.id),
     AuditEvent(3, "authorization_record", record.status, record.id),
     AuditEvent(4, "adapter_invocation_proposal", proposal.status, proposal.id) >>

DryRun(proposal, trail) ==
  LET status == IF proposal.status = "blocked" THEN "blocked" ELSE "simulated"
  IN  [id |-> <<proposal.id, trail, status>>, status |-> status,
       decision |-> proposal.decision, proposal |-> proposal.status]

Capture(dryRun, intent, approver) ==
  LET status == IF dryRun.status = "blocked" THEN "blocked"
                ELSE IF ~ dryRun.decision.approval THEN "not_required"
                ELSE IF ~ intent THEN "pending"
                ELSE "captured_non_effective"
  IN  [id |-> <<dryRun.id, status, intent, SafeText(approver, "user")>>, status |-> status,
       captured |-> status = "captured_non_effective"]

\* The gate repeats the tests of the stages before it.
Validation(capture, dryRun, record) ==
  LET status == IF "blocked" \in {capture.status, dryRun.status} THEN "blocked"
                ELSE IF ~ capture.captured THEN "pending"
                ELSE IF /\ dryRun.decision.outcome = "requires_approval"
                        /\ record.status = "requires_human_approval"
                        /\ dryRun.proposal = "requires_authorization"
                        /\ dryRun.status = "simulated"
                THEN "validated_non_effective"
                ELSE "blocked"
  IN  [id |-> <<capture.id, dryRun.id, status>>, status |-> status,
       validated |-> status = "validated_non_effective"]

-----------------------------------------------------------------------------
(* Effective authorization *)

DryRunScope == "adapter-dry-run"

\* _ALLOWED_TARGETS of the ledger, and the same constants of the scopes.
Targets ==
  { <<"local-status-read",   "local_status", "local_status.status">>,
    <<"mcp-local-safe-tool", "mcp_local",    "mcp.local_echo_digest">>,
    <<"n8n-local-plan",      "n8n",          "n8n.local_plan_digest">> }

LocalScopes == {target[1] : target \in Targets}

\* The scope that authorizes a simulation and nothing else.
DryRunScopeStatus(validation, dryRun) ==
  IF "blocked" \in {validation.status, dryRun.status} THEN "blocked"
  ELSE IF ~ validation.validated THEN "pending"
  ELSE "effective_for_dry_run_safe_operation"

EffectiveName(scope) ==
  CASE scope = "local-status-read"   -> "effective_for_local_status_read"
    [] scope = "mcp-local-safe-tool" -> "effective_for_mcp_local_safe_tool"
    [] scope = "n8n-local-plan"      -> "effective_for_n8n_local_plan"

\* The three scopes with a handler differ in their target only.
LocalScopeStatus(scope, decision) ==
  IF /\ decision.verified
     /\ <<scope, decision.adapter, decision.capability>> \in Targets
     /\ decision.outcome = "allow"
     /\ decision.granted = decision.capability
  THEN EffectiveName(scope)
  ELSE "blocked"

ScopeStatus(scope, validation, dryRun, decision) ==
  IF scope = DryRunScope THEN DryRunScopeStatus(validation, dryRun)
  ELSE IF scope \in LocalScopes THEN LocalScopeStatus(scope, decision)
  ELSE "blocked"

\* From the stages of the gate and the decision for the caller.
Effective(request, gate, decision) ==
  LET scope  == Text(request.scope, DryRunScope)
      status == ScopeStatus(scope, gate.validation, gate.dryRun, decision)
      local  == scope \in LocalScopes /\ status = EffectiveName(scope)
  IN  [id |-> <<gate.validation.id, gate.dryRun.id, decision.id, scope, status>>,
       status   |-> status,
       scope    |-> scope,
       decision |-> decision,
       effective |-> local \/ status = "effective_for_dry_run_safe_operation",
       local    |-> local]

-----------------------------------------------------------------------------
(* The whole chain at once, for callers that only want its verdict *)

\* The gate is asked without the identity arguments: it decides for the default
\* principal, whoever asks.
Gate(request) ==
  LET evaluation == Evaluation(request, DefaultIdentity)
      record     == AuthorizationRecord(evaluation)
      proposal   == Proposal(evaluation, record, request.parameters)
      dryRun     == DryRun(proposal, AuditTrail(evaluation, record, proposal))
      capture    == Capture(dryRun, request.intent, request.approver)
  IN  [dryRun |-> dryRun, validation |-> Validation(capture, dryRun, record)]

EffectiveOf(request) == Effective(request, Gate(request), Decision(request, request.who))

\* The ledger has a default of its own for a scope left out, and resolves it
\* before it runs the chain.
LedgerRequest(request) == [request EXCEPT !.scope = Text(@, "local-status-read")]

\* Faulty variant: the effective authorization id is not compared.
GrantKeyWithoutId(request, effective) ==
  <<effective.scope, effective.decision.adapter, effective.decision.capability,
    effective.decision.binding, effective.decision.action, request.parameters>>

\* What the ledger compares between the issue of a grant and its use.
GrantKey(request, effective) ==
  <<effective.scope, effective.decision.adapter, effective.decision.capability,
    effective.decision.binding, effective.decision.action, request.parameters,
    effective.id>>
=============================================================================
