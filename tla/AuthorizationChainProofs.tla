----------------------- MODULE AuthorizationChainProofs -----------------------
(* The properties of AuthorizationChain for every set of requests and grants. *)
EXTENDS AuthorizationChain, TLAPS

-----------------------------------------------------------------------------
(* What the contracts and the labels say *)

Approvable(capability, adapter) ==
  LET contract == ContractOf(adapter)
  IN  capability \in (contract.requested \cup contract.approval) \ contract.granted

\* No contract declares what stands for an absent or redacted text.
LEMMA CoreDeclares ==
  ASSUME NEW a \in CoreAdapters, NEW c \in {"", "missing", "[redacted]"}
  PROVE  c \notin DeclaredBy(a)
  BY DEF CoreAdapters, DeclaredBy, ContractOf, CoreContract, Contract, WantHuman

LEMMA PlannedDeclares ==
  ASSUME NEW a \in PlannedAdapters, NEW c \in {"", "missing", "[redacted]"}
  PROVE  c \notin DeclaredBy(a)
  BY DEF PlannedAdapters, CoreAdapters, DeclaredBy, ContractOf, PlannedContract, Contract

LEMMA OthersDeclare ==
  ASSUME NEW a, ~ Registered(a)
  PROVE  ContractOf(a) = Contract({}, {}, {}) /\ DeclaredBy(a) = {}
  BY DEF Registered, DeclaredBy, ContractOf, Contract

LEMMA NothingDeclared ==
  ASSUME NEW a, NEW c \in {"", "missing", "[redacted]"}
  PROVE  c \notin DeclaredBy(a)
  BY CoreDeclares, PlannedDeclares, OthersDeclare DEF Registered

\* The three targets are granted by their contracts.
LEMMA TargetsGranted ==
  ASSUME NEW t \in Targets
  PROVE  /\ Registered(t[2])
         /\ t[3] \in ContractOf(t[2]).granted
         /\ t[1] \in LocalScopes /\ t[1] # "" /\ t[1] # DryRunScope
<1>1. CASE t = <<"local-status-read", "local_status", "local_status.status">>
  BY <1>1 DEF Targets, LocalScopes, DryRunScope, Registered, CoreAdapters, ContractOf,
              CoreContract, Contract
<1>2. CASE t = <<"mcp-local-safe-tool", "mcp_local", "mcp.local_echo_digest">>
  BY <1>2 DEF Targets, LocalScopes, DryRunScope, Registered, CoreAdapters, ContractOf,
              CoreContract, Contract
<1>3. CASE t = <<"n8n-local-plan", "n8n", "n8n.local_plan_digest">>
  BY <1>3 DEF Targets, LocalScopes, DryRunScope, Registered, CoreAdapters, ContractOf,
              CoreContract, Contract
<1> QED BY <1>1, <1>2, <1>3 DEF Targets

\* What a scope with a handler is called when it is effective tells it apart
\* from a refusal and from the simulation.
LEMMA EffectiveNames ==
  ASSUME NEW scope \in LocalScopes
  PROVE  /\ EffectiveName(scope) \notin
              {"blocked", "pending", "effective_for_dry_run_safe_operation"}
         /\ scope # DryRunScope
  BY DEF LocalScopes, Targets, EffectiveName, DryRunScope

-----------------------------------------------------------------------------
(* Identity and decision *)

LEMMA Verification ==
  ASSUME NEW who \in Principals
  PROVE  Identity(who).verified <=> Trusted(who)
  BY DEF Identity, Trusted, Principals

LEMMA DefaultVerified == Identity(DefaultIdentity).verified
  BY PolicyAssumption DEF Identity, DefaultIdentity, SafeText, Text, TrustedSources

LEMMA DecisionFields ==
  ASSUME NEW r, NEW who, NEW d, d = Decision(r, who)
  PROVE  /\ d.verified = Identity(who).verified
         /\ d.capability = Text(r.capability, "missing")
         /\ d.adapter = r.adapter
         /\ d.outcome = IF d.verified THEN Outcome(d.capability, d.adapter) ELSE "deny"
         /\ d.granted = IF d.outcome = "allow" THEN d.capability ELSE "none"
         /\ d.approval = (d.outcome = "requires_approval")
  BY DEF Decision

\* A target that a verified principal asks for is allowed.
LEMMA TargetAllowed ==
  ASSUME NEW t \in Targets
  PROVE  Outcome(t[3], t[2]) = "allow" /\ t[3] # "missing" /\ t[3] # ""
<1>1. t[3] \in ContractOf(t[2]).granted
  BY TargetsGranted
<1>2. t[3] \in DeclaredBy(t[2])
  BY <1>1 DEF DeclaredBy
<1>3. t[3] # "missing" /\ t[3] # ""
  BY <1>2, NothingDeclared
<1> QED BY <1>1, <1>3 DEF Outcome

LEMMA LocalVerdict ==
  ASSUME NEW r \in RequestArguments, NEW gate
  PROVE  LET e == Effective(r, gate, Decision(r, r.who))
         IN  /\ e.local = MayRunLocally(r)
             /\ e.scope = Text(r.scope, DryRunScope)
<1> DEFINE d      == Decision(r, r.who)
           scope  == Text(r.scope, DryRunScope)
           status == ScopeStatus(scope, gate.validation, gate.dryRun, d)
           local  == scope \in LocalScopes /\ status = EffectiveName(scope)
           target == <<scope, d.adapter, d.capability>>
<1>1. /\ Effective(r, gate, d).local = local
      /\ Effective(r, gate, d).scope = scope
  BY DEF Effective
<1>2. local <=> d.verified /\ target \in Targets /\ d.outcome = "allow" /\ d.granted = d.capability
  <2>1. CASE scope \in LocalScopes
    <3>1. status = LocalScopeStatus(scope, d)
      BY <2>1, EffectiveNames DEF ScopeStatus
    <3> HIDE DEF d, scope, status
    <3> QED BY <2>1, <3>1, EffectiveNames DEF LocalScopeStatus
  <2>2. CASE scope \notin LocalScopes
    <3>1. target \notin Targets
      BY <2>2, TargetsGranted DEF Targets
    <3> QED BY <2>2, <3>1
  <2> QED BY <2>1, <2>2
<1>3. /\ d.verified <=> Trusted(r.who)
      /\ d.adapter = r.adapter
      /\ d.capability = Text(r.capability, "missing")
      /\ d.outcome = IF d.verified THEN Outcome(d.capability, d.adapter) ELSE "deny"
      /\ d.granted = IF d.outcome = "allow" THEN d.capability ELSE "none"
  BY DecisionFields, Verification DEF RequestArguments
<1>4. d.verified /\ target \in Targets => d.outcome = "allow" /\ d.granted = d.capability
  <2> HIDE DEF d
  <2> QED BY <1>3, TargetAllowed
<1>5. target \in Targets <=> <<r.scope, r.adapter, r.capability>> \in Targets
  <2>1. target \in Targets => scope # "" /\ scope # DryRunScope /\ d.capability # "missing"
    BY TargetsGranted, TargetAllowed
  <2>2. <<r.scope, r.adapter, r.capability>> \in Targets => r.scope # "" /\ r.capability # ""
    BY TargetsGranted, TargetAllowed
  <2> HIDE DEF d
  <2> QED BY <2>1, <2>2, <1>3 DEF Text
<1> QED BY <1>1, <1>2, <1>3, <1>4, <1>5 DEF MayRunLocally

-----------------------------------------------------------------------------
(* The stages of the gate, each as a function of the request *)

EvaluationOf(r) == Evaluation(r, DefaultIdentity)
RecordOf(r)     == AuthorizationRecord(EvaluationOf(r))
ProposalOf(r)   == Proposal(EvaluationOf(r), RecordOf(r), r.parameters)
TrailOf(r)      == AuditTrail(EvaluationOf(r), RecordOf(r), ProposalOf(r))
DryRunOf(r)     == DryRun(ProposalOf(r), TrailOf(r))
CaptureOf(r)    == Capture(DryRunOf(r), r.intent, r.approver)
ValidationOf(r) == Validation(CaptureOf(r), DryRunOf(r), RecordOf(r))
DecisionOf(r)   == Decision(r, r.who)

LEMMA GateInStages ==
  ASSUME NEW r
  PROVE  /\ Gate(r) = [dryRun |-> DryRunOf(r), validation |-> ValidationOf(r)]
         /\ EffectiveOf(r) = Effective(r, Gate(r), DecisionOf(r))
  BY DEF Gate, EffectiveOf, DecisionOf, ValidationOf, CaptureOf, DryRunOf, TrailOf, ProposalOf,
         RecordOf, EvaluationOf

\* What the gate decides about, once the request's texts are redacted.
GateOutcome(r) == EvaluationOf(r).decision.outcome

LEMMA RedactedFields ==
  ASSUME NEW r \in RequestArguments
  PROVE  /\ Redacted(r).capability = SafeText(r.capability, "missing")
         /\ Redacted(r).adapter = SafeText(r.adapter, "")
  BY DEF Redacted, RequestArguments

\* Redacting a request neither hides nor adds anything a contract declares.
LEMMA RedactionKeeps ==
  ASSUME NEW r \in RequestArguments, NEW capability, NEW adapter,
         capability = Text(SafeText(r.capability, "missing"), "missing"),
         adapter = SafeText(r.adapter, "")
  PROVE  /\ capability \in DeclaredBy(adapter) <=> r.capability \in DeclaredBy(r.adapter)
         /\ capability \in DeclaredBy(adapter) =>
              capability = r.capability /\ adapter = r.adapter /\ capability # "missing"
<1>1. CASE r.adapter \in SecretShaped
  <2>1. ~ Registered(r.adapter) /\ adapter = "[redacted]"
    BY <1>1, PolicyAssumption DEF Registered, SafeText
  <2>2. ~ Registered(adapter)
    BY <2>1 DEF Registered, CoreAdapters, PlannedAdapters
  <2> QED BY <2>1, <2>2, OthersDeclare
<1>2. CASE r.adapter \notin SecretShaped
  <2>1. adapter = r.adapter
    BY <1>2 DEF SafeText, Text
  <2>2. DeclaredBy(adapter) \cap SecretShaped = {}
    BY <2>1, PolicyAssumption, OthersDeclare DEF Registered
  <2>3. "" \notin DeclaredBy(adapter) /\ "missing" \notin DeclaredBy(adapter)
        /\ "[redacted]" \notin DeclaredBy(adapter)
    BY NothingDeclared
  <2>4. CASE r.capability \in SecretShaped
    <3>1. capability = "[redacted]"
      BY <2>4 DEF SafeText, Text
    <3> QED BY <2>1, <2>2, <2>3, <2>4, <3>1
  <2>5. CASE r.capability \notin SecretShaped
    <3>1. capability = IF r.capability = "" THEN "missing" ELSE r.capability
      BY <2>5 DEF SafeText, Text
    <3> QED BY <2>1, <2>3, <3>1
  <2> QED BY <2>4, <2>5
<1> QED BY <1>1, <1>2

LEMMA OutcomeSays ==
  ASSUME NEW c, NEW a, c # "missing"
  PROVE  /\ Outcome(c, a) = "requires_approval" <=> Approvable(c, a)
         /\ Outcome(c, a) = "allow" <=> c \in ContractOf(a).granted
         /\ Outcome(c, a) \in {"allow", "deny", "requires_approval"}
         /\ Outcome(c, a) # "deny" <=> c \in DeclaredBy(a)
  BY DEF Outcome, Approvable, DeclaredBy

\* The gate decides as the contract of what was asked says.
LEMMA GateOutcomes ==
  ASSUME NEW r \in RequestArguments
  PROVE  /\ GateOutcome(r) \in {"allow", "deny", "requires_approval"}
         /\ GateOutcome(r) = "requires_approval" <=> Approvable(r.capability, r.adapter)
         /\ GateOutcome(r) = "allow" <=> r.capability \in ContractOf(r.adapter).granted
         /\ EvaluationOf(r).decision.approval = (GateOutcome(r) = "requires_approval")
         /\ GateOutcome(r) # "deny" => Registered(EvaluationOf(r).decision.adapter)
<1> DEFINE d == EvaluationOf(r).decision
<1>1. d = Decision(Redacted(r), DefaultIdentity)
  BY DEF EvaluationOf, Evaluation
<1>2. /\ d.verified
      /\ d.capability = Text(SafeText(r.capability, "missing"), "missing")
      /\ d.adapter = SafeText(r.adapter, "")
      /\ d.outcome = Outcome(d.capability, d.adapter)
      /\ d.approval = (d.outcome = "requires_approval")
  <2> HIDE DEF d
  <2> DEFINE redacted == Redacted(r)
  <2>1. redacted.capability = SafeText(r.capability, "missing")
        /\ redacted.adapter = SafeText(r.adapter, "")
    BY RedactedFields
  <2> HIDE DEF redacted
  <2>2. d = Decision(redacted, DefaultIdentity)
    BY <1>1 DEF redacted
  <2>3. /\ d.verified = Identity(DefaultIdentity).verified
        /\ d.capability = Text(redacted.capability, "missing")
        /\ d.adapter = redacted.adapter
        /\ d.outcome = IF d.verified THEN Outcome(d.capability, d.adapter) ELSE "deny"
        /\ d.approval = (d.outcome = "requires_approval")
    BY <2>2, DecisionFields
  <2> QED BY <2>1, <2>3, DefaultVerified
<1> HIDE DEF d
<1>3. /\ d.capability \in DeclaredBy(d.adapter) <=> r.capability \in DeclaredBy(r.adapter)
      /\ d.capability \in DeclaredBy(d.adapter) =>
           d.capability = r.capability /\ d.adapter = r.adapter /\ d.capability # "missing"
  BY <1>2, RedactionKeeps
<1>4. d.outcome # "deny" => Registered(d.adapter)
  <2>1. d.outcome # "deny" => d.capability \in DeclaredBy(d.adapter)
    BY <1>2 DEF Outcome, DeclaredBy
  <2> QED BY <2>1, OthersDeclare
<1>5. CASE d.capability \in DeclaredBy(d.adapter)
  <2>1. d.capability = r.capability /\ d.adapter = r.adapter /\ d.capability # "missing"
    BY <1>3, <1>5
  <2>2. /\ d.outcome = "requires_approval" <=> Approvable(r.capability, r.adapter)
        /\ d.outcome = "allow" <=> r.capability \in ContractOf(r.adapter).granted
        /\ d.outcome \in {"allow", "deny", "requires_approval"}
    BY <1>2, <2>1, OutcomeSays
  <2> QED BY <1>2, <1>4, <2>2 DEF GateOutcome, d
<1>6. CASE d.capability \notin DeclaredBy(d.adapter)
  <2>1. d.outcome = "deny"
    BY <1>2, <1>6 DEF Outcome, DeclaredBy
  <2>2. ~ Approvable(r.capability, r.adapter) /\ r.capability \notin ContractOf(r.adapter).granted
    BY <1>3, <1>6 DEF Approvable, DeclaredBy
  <2> QED BY <1>2, <1>4, <2>1, <2>2 DEF GateOutcome, d
<1> QED BY <1>5, <1>6

LEMMA RecordStatus ==
  ASSUME NEW r \in RequestArguments
  PROVE  /\ GateOutcome(r) = "requires_approval" => RecordOf(r).status = "requires_human_approval"
         /\ GateOutcome(r) = "deny"  => RecordOf(r).status = "blocked"
         /\ GateOutcome(r) = "allow" => RecordOf(r).status = "not_required"
  BY GateOutcomes DEF RecordOf, AuthorizationRecord, GateOutcome

LEMMA ProposalStatus ==
  ASSUME NEW r \in RequestArguments
  PROVE  /\ GateOutcome(r) = "requires_approval" =>
              ProposalOf(r).status = "requires_authorization"
         /\ GateOutcome(r) = "deny"  => ProposalOf(r).status = "blocked"
         /\ GateOutcome(r) = "allow" => ProposalOf(r).status = "not_executable"
         /\ ProposalOf(r).decision = EvaluationOf(r).decision
  BY GateOutcomes, RecordStatus DEF ProposalOf, Proposal

LEMMA TrailStatus ==
  ASSUME NEW r
  PROVE  TrailOf(r)[1].status = GateOutcome(r) /\ TrailOf(r)[4].status = ProposalOf(r).status
  BY DEF TrailOf, AuditTrail, AuditEvent, GateOutcome

LEMMA DryRunStatus ==
  ASSUME NEW r \in RequestArguments
  PROVE  /\ DryRunOf(r).status = IF GateOutcome(r) = "deny" THEN "blocked" ELSE "simulated"
         /\ DryRunOf(r).decision = EvaluationOf(r).decision
         /\ DryRunOf(r).proposal = ProposalOf(r).status
  BY GateOutcomes, ProposalStatus DEF DryRunOf, DryRun

LEMMA CaptureStatus ==
  ASSUME NEW r \in RequestArguments
  PROVE  /\ CaptureOf(r).captured <=> GateOutcome(r) = "requires_approval" /\ r.intent
         /\ CaptureOf(r).status = "blocked" <=> GateOutcome(r) = "deny"
<1>1. /\ EvaluationOf(r).decision.approval = (GateOutcome(r) = "requires_approval")
      /\ GateOutcome(r) \in {"allow", "deny", "requires_approval"}
  BY GateOutcomes
<1>2. /\ DryRunOf(r).status = IF GateOutcome(r) = "deny" THEN "blocked" ELSE "simulated"
      /\ DryRunOf(r).decision = EvaluationOf(r).decision
  BY DryRunStatus
<1>3. r.intent \in BOOLEAN
  BY DEF RequestArguments
<1> QED BY <1>1, <1>2, <1>3 DEF CaptureOf, Capture

LEMMA ValidationStatus ==
  ASSUME NEW r \in RequestArguments
  PROVE  /\ ValidationOf(r).validated <=> GateOutcome(r) = "requires_approval" /\ r.intent
         /\ ValidationOf(r).validated => ValidationOf(r).status # "blocked"
<1>1. GateOutcome(r) = "requires_approval" =>
        /\ EvaluationOf(r).decision.outcome = "requires_approval"
        /\ RecordOf(r).status = "requires_human_approval"
        /\ DryRunOf(r).proposal = "requires_authorization"
        /\ DryRunOf(r).status = "simulated"
        /\ DryRunOf(r).decision = EvaluationOf(r).decision
  BY RecordStatus, ProposalStatus, DryRunStatus DEF GateOutcome
<1>2. /\ CaptureOf(r).captured <=> GateOutcome(r) = "requires_approval" /\ r.intent
      /\ CaptureOf(r).status = "blocked" <=> GateOutcome(r) = "deny"
  BY CaptureStatus
<1> QED BY <1>1, <1>2 DEF ValidationOf, Validation

LEMMA EffectiveFields ==
  ASSUME NEW r, NEW gate, NEW d, NEW e, e = Effective(r, gate, d)
  PROVE  LET scope  == Text(r.scope, DryRunScope)
             status == ScopeStatus(scope, gate.validation, gate.dryRun, d)
         IN  /\ e.status = status
             /\ e.scope = scope
             /\ e.decision = d
             /\ e.local = (scope \in LocalScopes /\ status = EffectiveName(scope))
             /\ e.effective = (e.local \/ status = "effective_for_dry_run_safe_operation")
             /\ e.id = <<gate.validation.id, gate.dryRun.id, d.id, scope, status>>
  BY DEF Effective

\* The verdict on a request.
LEMMA Verdict ==
  ASSUME NEW r \in RequestArguments
  PROVE  /\ EffectiveOf(r).local = MayRunLocally(r)
         /\ EffectiveOf(r).effective = (MayRunLocally(r) \/ MaySimulate(r))
         /\ EffectiveOf(r).scope = Text(r.scope, DryRunScope)
<1> DEFINE e     == EffectiveOf(r)
           scope == Text(r.scope, DryRunScope)
<1>1. /\ Gate(r).dryRun = DryRunOf(r)
      /\ Gate(r).validation = ValidationOf(r)
      /\ e = Effective(r, Gate(r), Decision(r, r.who))
  BY GateInStages DEF DecisionOf
<1>2. e.local = MayRunLocally(r) /\ e.scope = scope
  BY <1>1, LocalVerdict
<1>3. /\ e.status = ScopeStatus(scope, ValidationOf(r), DryRunOf(r), Decision(r, r.who))
      /\ e.effective = (e.local \/ e.status = "effective_for_dry_run_safe_operation")
  <2> HIDE DEF e
  <2> QED BY <1>1, EffectiveFields
<1>4. e.status = "effective_for_dry_run_safe_operation" <=> MaySimulate(r)
  <2>1. MaySimulate(r) <=>
          scope = DryRunScope /\ r.intent /\ GateOutcome(r) = "requires_approval"
    BY GateOutcomes DEF MaySimulate, Approvable
  <2>2. CASE scope = DryRunScope
    <3>1. e.status = DryRunScopeStatus(ValidationOf(r), DryRunOf(r))
      BY <1>3, <2>2 DEF ScopeStatus
    <3>2. ValidationOf(r).validated => DryRunOf(r).status # "blocked"
      BY ValidationStatus, DryRunStatus
    <3> QED BY <2>1, <2>2, <3>1, <3>2, ValidationStatus DEF DryRunScopeStatus
  <2>3. CASE scope \in LocalScopes
    <3>1. e.status = LocalScopeStatus(scope, Decision(r, r.who)) /\ scope # DryRunScope
      BY <1>3, <2>3, EffectiveNames DEF ScopeStatus
    <3> QED BY <2>1, <2>3, <3>1, EffectiveNames DEF LocalScopeStatus
  <2>4. CASE scope # DryRunScope /\ scope \notin LocalScopes
    BY <1>3, <2>1, <2>4 DEF ScopeStatus
  <2> QED BY <2>2, <2>3, <2>4
<1> HIDE DEF e
<1>5. e.effective = (MayRunLocally(r) \/ MaySimulate(r))
  BY <1>2, <1>3, <1>4
<1> QED BY <1>2, <1>5 DEF e

-----------------------------------------------------------------------------
(* The chain makes exactly these records *)

AllMade == {"evaluation", "record", "proposal", "trail", "dryRun", "capture", "validation",
            "decision", "effective"}

\* What is made when a stage begins.
MadeBefore(s) ==
  CASE s = "start"     -> {}
    [] s = "record"    -> {"evaluation"}
    [] s = "propose"   -> {"evaluation", "record"}
    [] s = "audit"     -> {"evaluation", "record", "proposal"}
    [] s = "simulate"  -> {"evaluation", "record", "proposal", "trail"}
    [] s = "capture"   -> {"evaluation", "record", "proposal", "trail", "dryRun"}
    [] s = "validate"  -> AllMade \ {"validation", "decision", "effective"}
    [] s = "decide"    -> AllMade \ {"decision", "effective"}
    [] s = "authorize" -> AllMade \ {"effective"}
    [] OTHER           -> AllMade

Policy == {"start", "record", "propose", "audit", "simulate", "capture", "validate", "decide",
           "authorize"}

ValueOf(name, r) ==
  CASE name = "evaluation" -> EvaluationOf(r)
    [] name = "record"     -> RecordOf(r)
    [] name = "proposal"   -> ProposalOf(r)
    [] name = "trail"      -> TrailOf(r)
    [] name = "dryRun"     -> DryRunOf(r)
    [] name = "capture"    -> CaptureOf(r)
    [] name = "validation" -> ValidationOf(r)
    [] name = "decision"   -> DecisionOf(r)
    [] name = "effective"  -> EffectiveOf(r)

Reached ==
  /\ call \in Calls
  /\ stage \in Policy \cup {"front", "answer", "done"}
  /\ stage # "done" => DOMAIN made = MadeBefore(stage)
  /\ stage = "done" => DOMAIN made \in {{}, AllMade}

\* Every record made is the one of this request.
Faithful == \A name \in DOMAIN made : made[name] = ValueOf(name, call.request)

\* What the ledger has issued a grant for.
Issued(grant) == EffectiveOf(LedgerRequest(grant))

Matching(grant, r) == GrantKey(grant, Issued(grant)) = GrantKey(r, EffectiveOf(r))

\* A consumed grant allows what it was issued for, which is this request.
Spent ==
  /\ consumed \in BOOLEAN
  /\ stage \notin {"answer", "done"} => ~ consumed
  /\ consumed => /\ AsksLedger
                 /\ DOMAIN made = AllMade
                 /\ call.grant \in Holders
                 /\ Issued(call.grant).local
                 /\ EffectiveOf(call.request).local
                 /\ Matching(call.grant, call.request)

ChainInv == Reached /\ Faithful /\ Spent

StageStep == Evaluate \/ Record \/ Propose \/ Audit \/ Simulate \/ CaptureApproval \/ Validate
             \/ Decide \/ Authorize

LEMMA Made ==
  ASSUME ChainInv
  PROVE  LET r == call.request
         IN  /\ "evaluation" \in DOMAIN made => made.evaluation = EvaluationOf(r)
             /\ "record" \in DOMAIN made => made.record = RecordOf(r)
             /\ "proposal" \in DOMAIN made => made.proposal = ProposalOf(r)
             /\ "trail" \in DOMAIN made => made.trail = TrailOf(r)
             /\ "dryRun" \in DOMAIN made => made.dryRun = DryRunOf(r)
             /\ "capture" \in DOMAIN made => made.capture = CaptureOf(r)
             /\ "validation" \in DOMAIN made => made.validation = ValidationOf(r)
             /\ "decision" \in DOMAIN made => made.decision = DecisionOf(r)
             /\ "effective" \in DOMAIN made => made.effective = EffectiveOf(r)
  BY DEF ChainInv, Faithful, ValueOf

LEMMA Adds ==
  ASSUME ChainInv, NEW from, NEW to, NEW name \in AllMade, Stage(from, to, name, ValueOf(name, call.request)),
         from \in Policy, to \in Policy \cup {"front"},
         MadeBefore(to) = MadeBefore(from) \cup {name}
  PROVE  ChainInv'
<1> DEFINE value == ValueOf(name, call.request)
<1>1. /\ stage = from /\ stage' = to /\ call' = call /\ consumed' = consumed
      /\ made' = [n \in DOMAIN made \cup {name} |-> IF n = name THEN value ELSE made[n]]
  BY DEF Stage
<1>2. /\ stage # "done" /\ stage \notin {"answer", "done"}
      /\ stage' \notin {"answer", "done"}
  BY <1>1 DEF Policy
<1>3. Reached'
  BY <1>1, <1>2 DEF ChainInv, Reached
<1>4. Faithful'
  BY <1>1 DEF ChainInv, Faithful
<1>5. Spent'
  BY <1>1, <1>2 DEF ChainInv, Spent
<1> QED BY <1>3, <1>4, <1>5 DEF ChainInv

LEMMA GateOnly ==
  ASSUME NEW r, NEW d, NEW g, NEW h, g.validation = h.validation, g.dryRun = h.dryRun
  PROVE  Effective(r, g, d) = Effective(r, h, d)
  BY DEF Effective

LEMMA StagesMake ==
  ASSUME ChainInv, StageStep
  PROVE  ChainInv'
<1> DEFINE r == call.request
<1>0. stage \in Policy /\ DOMAIN made = MadeBefore(stage)
  BY DEF ChainInv, Reached, StageStep, Evaluate, Record, Propose, Audit, Simulate, CaptureApproval,
         Validate, Decide, Authorize, Stage, Policy
<1>1. CASE Evaluate
  <2>1. Stage("start", "record", "evaluation", ValueOf("evaluation", r))
    BY <1>1 DEF Evaluate, ValueOf, EvaluationOf
  <2> QED BY <2>1, Adds DEF AllMade, Policy, MadeBefore
<1>2. CASE Record
  <2>1. made.evaluation = EvaluationOf(r)
    BY <1>0, <1>2, Made DEF Record, Stage, MadeBefore
  <2>2. Stage("record", "propose", "record", ValueOf("record", r))
    BY <1>2, <2>1 DEF Record, ValueOf, RecordOf
  <2> QED BY <2>2, Adds DEF AllMade, Policy, MadeBefore
<1>3. CASE Propose
  <2>1. made.evaluation = EvaluationOf(r) /\ made.record = RecordOf(r)
    BY <1>0, <1>3, Made DEF Propose, Stage, MadeBefore
  <2>2. Stage("propose", "audit", "proposal", ValueOf("proposal", r))
    BY <1>3, <2>1 DEF Propose, ValueOf, ProposalOf
  <2> QED BY <2>2, Adds DEF AllMade, Policy, MadeBefore
<1>4. CASE Audit
  <2>1. /\ made.evaluation = EvaluationOf(r) /\ made.record = RecordOf(r)
        /\ made.proposal = ProposalOf(r)
    BY <1>0, <1>4, Made DEF Audit, Stage, MadeBefore
  <2>2. Stage("audit", "simulate", "trail", ValueOf("trail", r))
    BY <1>4, <2>1 DEF Audit, ValueOf, TrailOf
  <2> QED BY <2>2, Adds DEF AllMade, Policy, MadeBefore
<1>5. CASE Simulate
  <2>1. made.proposal = ProposalOf(r) /\ made.trail = TrailOf(r)
    BY <1>0, <1>5, Made DEF Simulate, Stage, MadeBefore
  <2>2. Stage("simulate", "capture", "dryRun", ValueOf("dryRun", r))
    BY <1>5, <2>1 DEF Simulate, ValueOf, DryRunOf
  <2> QED BY <2>2, Adds DEF AllMade, Policy, MadeBefore
<1>6. CASE CaptureApproval
  <2>1. made.dryRun = DryRunOf(r)
    BY <1>0, <1>6, Made DEF CaptureApproval, Stage, MadeBefore
  <2>2. Stage("capture", "validate", "capture", ValueOf("capture", r))
    BY <1>6, <2>1 DEF CaptureApproval, ValueOf, CaptureOf
  <2> QED BY <2>2, Adds DEF AllMade, Policy, MadeBefore
<1>7. CASE Validate
  <2>1. /\ made.capture = CaptureOf(r) /\ made.dryRun = DryRunOf(r)
        /\ made.record = RecordOf(r)
    BY <1>0, <1>7, Made DEF Validate, Stage, MadeBefore, AllMade
  <2>2. Stage("validate", "decide", "validation", ValueOf("validation", r))
    BY <1>7, <2>1 DEF Validate, ValueOf, ValidationOf
  <2> QED BY <2>2, Adds DEF AllMade, Policy, MadeBefore
<1>8. CASE Decide
  <2>1. Stage("decide", "authorize", "decision", ValueOf("decision", r))
    BY <1>8 DEF Decide, ValueOf, DecisionOf
  <2> QED BY <2>1, Adds DEF AllMade, Policy, MadeBefore
<1>9. CASE Authorize
  <2>1. /\ made.validation = ValidationOf(r) /\ made.dryRun = DryRunOf(r)
        /\ made.decision = DecisionOf(r)
    BY <1>0, <1>9, Made DEF Authorize, Stage, MadeBefore, AllMade
  <2>2. Effective(r, made, made.decision) = EffectiveOf(r)
    <3>1. Gate(r).validation = ValidationOf(r) /\ Gate(r).dryRun = DryRunOf(r)
      BY GateInStages
    <3>2. Effective(r, made, DecisionOf(r)) = Effective(r, Gate(r), DecisionOf(r))
      BY <2>1, <3>1, GateOnly
    <3> QED BY <2>1, <3>2, GateInStages
  <2>3. Stage("authorize", "front", "effective", ValueOf("effective", r))
    BY <1>9, <2>2 DEF Authorize, ValueOf
  <2> QED BY <2>3, Adds DEF AllMade, Policy, MadeBefore
<1> QED BY <1>1, <1>2, <1>3, <1>4, <1>5, <1>6, <1>7, <1>8, <1>9 DEF StageStep

LEMMA ChainInit == Init => ChainInv
  BY DEF Init, ChainInv, Reached, Faithful, Spent, Policy, MadeBefore

\* Asking the ledger.
LEMMA LedgerKeeps ==
  ASSUME ChainInv, Consume \/ ConsumeRefused \/ AskNobody
  PROVE  ChainInv'
<1> DEFINE r == call.request
<1>1. /\ stage = "front" /\ stage' = "answer"
      /\ call' = call /\ made' = made
  BY DEF Consume, ConsumeRefused, AskNobody
<1>2. Reached' /\ Faithful'
  BY <1>1 DEF ChainInv, Reached, Faithful, MadeBefore, Policy
<1>3. DOMAIN made = AllMade /\ ~ consumed /\ consumed \in BOOLEAN
  BY <1>1 DEF ChainInv, Reached, Spent, MadeBefore
<1>4. CASE Consume
  <2>1. made.effective = EffectiveOf(r)
    BY <1>3, Made DEF AllMade
  <2>2. consumed' = (/\ made.effective.local
                     /\ Issued(call.grant).local
                     /\ GrantKey(call.grant, Issued(call.grant)) = GrantKey(r, made.effective))
    BY <1>4 DEF Consume, Issued
  <2>3. /\ consumed' \in BOOLEAN
        /\ consumed' => /\ EffectiveOf(r).local
                        /\ Issued(call.grant).local
                        /\ Matching(call.grant, r)
    BY <2>1, <2>2 DEF Matching
  <2>4. AsksLedger /\ call.grant \in Holders
    BY <1>4, ChainAssumption DEF Consume, AsksLedger, ChainInv, Reached
  <2>5. AsksLedger'
    BY <1>1, <2>4 DEF AsksLedger, HandlerAvailable
  <2>6. Spent'
    BY <1>1, <1>3, <2>3, <2>4, <2>5 DEF Spent
  <2> QED BY <1>2, <2>6 DEF ChainInv
<1>5. CASE ConsumeRefused \/ AskNobody
  <2>1. consumed' = consumed
    BY <1>5 DEF ConsumeRefused, AskNobody
  <2>2. Spent'
    BY <1>1, <1>3, <2>1 DEF Spent
  <2> QED BY <1>2, <2>2 DEF ChainInv
<1> QED BY <1>4, <1>5

FrontStep == RefuseDigest \/ Dispatch \/ RunMcpTool \/ InspectN8nPlan \/ ShowPanel

LEMMA FrontKeeps ==
  ASSUME ChainInv, FrontStep
  PROVE  ChainInv'
<1>1. /\ stage \in {"start", "answer"} /\ stage' = "done"
      /\ call' = call /\ made' = made /\ consumed' = consumed
  BY DEF FrontStep, RefuseDigest, Dispatch, RunMcpTool, InspectN8nPlan, ShowPanel, Answer
<1>2. DOMAIN made \in {{}, AllMade}
  BY <1>1 DEF ChainInv, Reached, MadeBefore
<1>3. Reached' /\ Faithful'
  BY <1>1, <1>2 DEF ChainInv, Reached, Faithful
<1>4. AsksLedger' = AsksLedger
  BY <1>1 DEF AsksLedger, HandlerAvailable
<1>5. stage = "start" => ~ consumed
  BY DEF ChainInv, Spent
<1>6. Spent'
  BY <1>1, <1>4 DEF ChainInv, Spent
<1> QED BY <1>3, <1>6 DEF ChainInv

LEMMA ChainStep == ChainInv /\ [Next]_vars => ChainInv'
<1> SUFFICES ASSUME ChainInv, [Next]_vars
             PROVE  ChainInv'
  OBVIOUS
<1>1. CASE UNCHANGED vars
  BY <1>1 DEF vars, ChainInv, Reached, Faithful, Spent, AsksLedger, HandlerAvailable
<1>2. CASE Next
  BY <1>2, StagesMake, LedgerKeeps, FrontKeeps DEF Next, StageStep, FrontStep
<1> QED BY <1>1, <1>2

\* Whatever is asked, the records of the chain are the ones of the request asked,
\* and a grant is spent only for its own request (collect_effective_authorization,
\* effective_authorization.py:328).
THEOREM ChainTheorem == Spec => []ChainInv
<1>1. Init => ChainInv
  BY ChainInit
<1>2. ChainInv /\ [Next]_vars => ChainInv'
  BY ChainStep
<1> QED BY <1>1, <1>2, PTL DEF Spec

-----------------------------------------------------------------------------
(* The verdict *)

\* Ten stages end in exactly the verdict that the caller's identity, the target
\* and an approval of something declared allow, for any request
\* (_scope_status, effective_authorization.py:190).
THEOREM VerdictIsExactTheorem == Spec => []VerdictIsExact
<1>1. ChainInv => VerdictIsExact
  <2> SUFFICES ASSUME ChainInv, "effective" \in DOMAIN made
               PROVE  /\ made.effective.local = MayRunLocally(call.request)
                      /\ made.effective.effective =
                           (MayRunLocally(call.request) \/ MaySimulate(call.request))
    BY DEF VerdictIsExact
  <2>1. made.effective = EffectiveOf(call.request)
    BY Made
  <2>2. call.request \in RequestArguments
    BY ChainAssumption DEF ChainInv, Reached
  <2> QED BY <2>1, <2>2, Verdict
<1> QED BY <1>1, ChainTheorem, PTL

-----------------------------------------------------------------------------
(* Grants and requests *)

LEMMA DecisionId ==
  ASSUME NEW r, NEW who, NEW d, d = Decision(r, who)
  PROVE  d.id = <<d.outcome, d.capability, d.adapter, d.context, d.action, d.binding>>
  BY DEF Decision

\* The id of a verified decision determines all of it.
LEMMA DecisionFromId ==
  ASSUME NEW r, NEW who, NEW s, NEW by,
         Identity(who).verified, Identity(by).verified,
         Decision(r, who).id = Decision(s, by).id
  PROVE  Decision(r, who) = Decision(s, by)
<1> DEFINE d == Decision(r, who)
           e == Decision(s, by)
           Of(o, c, a, x, n, b) ==
             [id |-> <<o, c, a, x, n, b>>, outcome |-> o, capability |-> c,
              granted |-> IF o = "allow" THEN c ELSE "none", adapter |-> a, context |-> x,
              action |-> n, risk |-> Risk(c, a), approval |-> o = "requires_approval",
              binding |-> b, verified |-> TRUE]
<1>1. d.verified /\ e.verified
  BY DecisionFields
<1>2. d = Of(d.outcome, d.capability, d.adapter, d.context, d.action, d.binding)
  BY DEF Decision
<1>3. e = Of(e.outcome, e.capability, e.adapter, e.context, e.action, e.binding)
  BY DEF Decision
<1>4. /\ d.outcome = e.outcome /\ d.capability = e.capability /\ d.adapter = e.adapter
      /\ d.context = e.context /\ d.action = e.action /\ d.binding = e.binding
  <2>1. /\ d.id = <<d.outcome, d.capability, d.adapter, d.context, d.action, d.binding>>
        /\ e.id = <<e.outcome, e.capability, e.adapter, e.context, e.action, e.binding>>
        /\ d.id = e.id
    BY DecisionId
  <2> HIDE DEF d, e
  <2> QED BY <2>1
<1> HIDE DEF d, e, Of
<1>5. d = e
  BY <1>2, <1>3, <1>4
<1> QED BY <1>5 DEF d, e

LEMMA CaptureId ==
  ASSUME NEW r
  PROVE  CaptureOf(r).id =
           <<DryRunOf(r).id, CaptureOf(r).status, r.intent, SafeText(r.approver, "user")>>
  BY DEF CaptureOf, Capture

LEMMA ValidationId ==
  ASSUME NEW r
  PROVE  ValidationOf(r).id = <<CaptureOf(r).id, DryRunOf(r).id, ValidationOf(r).status>>
  BY DEF ValidationOf, Validation

LEMMA EffectiveId ==
  ASSUME NEW r
  PROVE  /\ EffectiveOf(r).id = <<ValidationOf(r).id, DryRunOf(r).id, DecisionOf(r).id,
                                  Text(r.scope, DryRunScope), EffectiveOf(r).status>>
         /\ EffectiveOf(r).decision = DecisionOf(r)
         /\ EffectiveOf(r).scope = Text(r.scope, DryRunScope)
<1> DEFINE e == EffectiveOf(r)
<1>1. /\ Gate(r).dryRun = DryRunOf(r) /\ Gate(r).validation = ValidationOf(r)
      /\ e = Effective(r, Gate(r), DecisionOf(r))
  BY GateInStages
<1> HIDE DEF e
<1>2. /\ e.id = <<ValidationOf(r).id, DryRunOf(r).id, DecisionOf(r).id,
                  Text(r.scope, DryRunScope), e.status>>
      /\ e.decision = DecisionOf(r)
      /\ e.scope = Text(r.scope, DryRunScope)
  BY <1>1, EffectiveFields
<1> QED BY <1>2 DEF e

\* The id of an effective authorization covers the request.
LEMMA SameIdBinds ==
  ASSUME NEW g \in RequestArguments, NEW r \in RequestArguments,
         EffectiveOf(g).local, EffectiveOf(r).local, EffectiveOf(g).id = EffectiveOf(r).id
  PROVE  /\ DecisionOf(g) = DecisionOf(r)
         /\ g.intent = r.intent
         /\ SafeText(g.approver, "user") = SafeText(r.approver, "user")
         /\ g.scope = r.scope
<1>1. EffectiveOf(g).id = EffectiveOf(r).id
  OBVIOUS
<1>2. /\ ValidationOf(g).id = ValidationOf(r).id
      /\ DecisionOf(g).id = DecisionOf(r).id
      /\ Text(g.scope, DryRunScope) = Text(r.scope, DryRunScope)
  BY <1>1, EffectiveId
<1>3. CaptureOf(g).id = CaptureOf(r).id
  BY <1>2, ValidationId
<1>4. g.intent = r.intent /\ SafeText(g.approver, "user") = SafeText(r.approver, "user")
  BY <1>3, CaptureId
<1>5. Identity(g.who).verified /\ Identity(r.who).verified
  <2>1. Trusted(g.who) /\ Trusted(r.who)
    BY Verdict DEF MayRunLocally
  <2>2. g.who \in Principals /\ r.who \in Principals
    BY DEF RequestArguments
  <2> QED BY <2>1, <2>2, Verification
<1>6. DecisionOf(g) = DecisionOf(r)
  BY <1>2, <1>5, DecisionFromId DEF DecisionOf
<1>7. g.scope = r.scope
  <2>1. <<g.scope, g.adapter, g.capability>> \in Targets /\ <<r.scope, r.adapter, r.capability>> \in Targets
    BY Verdict DEF MayRunLocally
  <2>2. g.scope # "" /\ r.scope # ""
    BY <2>1 DEF Targets
  <2> QED BY <1>2, <2>2 DEF Text
<1> QED BY <1>4, <1>6, <1>7

\* The ledger changes nothing of a request but a scope left out.
LEMMA LedgerRequestFacts ==
  ASSUME NEW g \in RequestArguments
  PROVE  LET h == LedgerRequest(g)
         IN  /\ h \in RequestArguments
             /\ DecisionOf(h) = DecisionOf(g)
             /\ h.intent = g.intent /\ h.approver = g.approver
<1> DEFINE h == LedgerRequest(g)
<1>0. h = [g EXCEPT !.scope = Text(g.scope, "local-status-read")]
      /\ Text(g.scope, "local-status-read") \in STRING
  <2>1. h = [g EXCEPT !.scope = Text(g.scope, "local-status-read")]
    BY ZenonT(20) DEF LedgerRequest
  <2>2. g.scope \in STRING
    BY DEF RequestArguments
  <2>3. "local-status-read" \in STRING
    <3>1. "local-status-read" \in LocalScopes
      <4>1. <<"local-status-read", "local_status", "local_status.status">> \in Targets
        BY DEF Targets
      <4> QED BY <4>1 DEF LocalScopes
    <3> QED BY <3>1, ChainAssumption
  <2>4. Text(g.scope, "local-status-read") \in STRING
    BY <2>2, <2>3, Zenon DEF Text
  <2> QED BY <2>1, <2>4
<1>1. /\ h \in RequestArguments
      /\ h.intent = g.intent /\ h.approver = g.approver /\ h.who = g.who
      /\ h.capability = g.capability /\ h.adapter = g.adapter
      /\ h.context = g.context /\ h.action = g.action
  <2> HIDE DEF h
  <2> QED BY <1>0 DEF RequestArguments
<1>2. Decision(h, g.who) = Decision(g, g.who)
  <2> HIDE DEF h
  <2> QED BY <1>1 DEF Decision
<1> QED BY <1>1, <1>2 DEF DecisionOf

LEMMA MatchingBinds ==
  ASSUME NEW g \in RequestArguments, NEW r \in RequestArguments,
         Issued(g).local, EffectiveOf(r).local, Matching(g, r)
  PROVE  /\ DecisionOf(g) = DecisionOf(r)
         /\ g.parameters = r.parameters
         /\ g.intent = r.intent
         /\ SafeText(g.approver, "user") = SafeText(r.approver, "user")
         /\ LedgerRequest(g).scope = r.scope
<1>1. Issued(g).id = EffectiveOf(r).id /\ g.parameters = r.parameters
  BY DEF Matching, GrantKey
<1>2. LedgerRequest(g) \in RequestArguments
  BY LedgerRequestFacts
<1>3. /\ DecisionOf(LedgerRequest(g)) = DecisionOf(r)
      /\ LedgerRequest(g).intent = r.intent
      /\ SafeText(LedgerRequest(g).approver, "user") = SafeText(r.approver, "user")
      /\ LedgerRequest(g).scope = r.scope
  BY <1>1, <1>2, SameIdBinds DEF Issued
<1> QED BY <1>1, <1>3, LedgerRequestFacts

\* A grant is consumed only by the request it was issued for, whatever field of
\* the two differs, in the scope the ledger issued it for (_exact_match and
\* _effective_for_request, authorization_recovery.py:236 and 297).
THEOREM GrantBindsRequestTheorem == Spec => []GrantBindsRequest
<1>1. ChainInv => GrantBindsRequest
  <2> SUFFICES ASSUME ChainInv, consumed
               PROVE  GrantBindsRequest
    BY DEF GrantBindsRequest
  <2>1. call.request \in RequestArguments /\ call.grant \in RequestArguments
    BY ChainAssumption DEF ChainInv, Reached, Spent
  <2>2. /\ Issued(call.grant).local /\ EffectiveOf(call.request).local
        /\ Matching(call.grant, call.request)
    BY DEF ChainInv, Spent
  <2> QED BY <2>1, <2>2, MatchingBinds DEF GrantBindsRequest, DecisionOf
<1> QED BY <1>1, ChainTheorem, PTL

-----------------------------------------------------------------------------
(* Runs and the panel *)

\* What the caller was told, once the call is over.
Told ==
  stage = "done" =>
    /\ answer.ran = consumed
    /\ call.front = "panel" =>
         /\ DOMAIN made = AllMade
         /\ answer.panel = [i \in 1..Len(PanelStatuses) |-> PanelState(PanelStatuses[i])]

\* The dispatcher runs its handler exactly when the grant was consumed.
LEMMA DispatchedWhenConsumed ==
  ASSUME ChainInv, stage = "answer", call.front = "dispatcher"
  PROVE  (DispatcherStatus = "dispatched_local") = consumed
<1>1. consumed \in BOOLEAN
  BY DEF ChainInv, Spent
<1>2. CASE consumed
  <2>1. /\ AsksLedger
        /\ "effective" \in DOMAIN made /\ EffectiveOf(call.request).local
    BY <1>2 DEF ChainInv, Spent, AllMade
  <2>2. made.effective.local
    BY <2>1, Made
  <2> QED BY <1>2, <2>1, <2>2 DEF AsksLedger, DispatcherStatus, LocalStatus
<1>3. CASE ~ consumed
  BY <1>3, <1>1 DEF DispatcherStatus, LocalStatus, LegacyStatus
<1> QED BY <1>1, <1>2, <1>3

LEMMA ToldStep == ChainInv /\ Told /\ [Next]_vars => Told'
<1> SUFFICES ASSUME ChainInv, Told, [Next]_vars
             PROVE  Told'
  OBVIOUS
<1>0. consumed \in BOOLEAN /\ (consumed => AsksLedger)
  BY DEF ChainInv, Spent
<1>1. CASE UNCHANGED vars
  BY <1>1 DEF vars, Told, PanelStatuses
<1>2. CASE StageStep
  <2>1. stage' # "done"
    BY <1>2 DEF StageStep, Evaluate, Record, Propose, Audit, Simulate, CaptureApproval, Validate,
                Decide, Authorize, Stage
  <2> QED BY <2>1 DEF Told
<1>3. CASE Consume \/ ConsumeRefused \/ AskNobody
  BY <1>3 DEF Told, Consume, ConsumeRefused, AskNobody
<1>4. CASE RefuseDigest
  <2>1. answer'.ran = FALSE /\ consumed' = consumed /\ ~ consumed /\ call'.front # "panel"
    BY <1>4 DEF RefuseDigest, Answer, Tools, ChainInv, Spent
  <2> QED BY <1>0, <2>1 DEF Told
<1>5. CASE Dispatch
  <2>1. /\ answer'.ran = (DispatcherStatus = "dispatched_local")
        /\ consumed' = consumed /\ call'.front = "dispatcher"
    BY <1>5 DEF Dispatch, Answer
  <2>2. (DispatcherStatus = "dispatched_local") = consumed
    BY <1>5, DispatchedWhenConsumed DEF Dispatch
  <2> QED BY <2>1, <2>2 DEF Told
<1>6. CASE RunMcpTool \/ InspectN8nPlan
  <2>1. /\ answer'.ran = (call.action = "run" /\ consumed)
        /\ consumed' = consumed /\ call'.front # "panel"
    BY <1>6 DEF RunMcpTool, InspectN8nPlan, Answer
  <2>2. (call.action = "run" /\ consumed) = consumed
    BY <1>0 DEF AsksLedger
  <2> QED BY <2>1, <2>2 DEF Told
<1>7. CASE ShowPanel
  <2>1. /\ answer'.ran = FALSE /\ consumed' = consumed /\ call' = call /\ made' = made
        /\ answer'.panel = [i \in 1..Len(PanelStatuses) |-> PanelState(PanelStatuses[i])]
    BY <1>7 DEF ShowPanel, Answer
  <2>2. consumed = FALSE
    BY <1>0, <1>7 DEF AsksLedger, ShowPanel
  <2>3. DOMAIN made = AllMade
    BY <1>7 DEF ShowPanel, ChainInv, Reached, MadeBefore
  <2>4. PanelStatuses' = PanelStatuses
    BY <2>1 DEF PanelStatuses
  <2> QED BY <2>1, <2>2, <2>3, <2>4 DEF Told
<1> QED BY <1>1, <1>2, <1>3, <1>4, <1>5, <1>6, <1>7 DEF Next, StageStep

THEOREM ToldTheorem == Spec => []Told
<1>1. Init => Told
  BY DEF Init, Told
<1> QED BY <1>1, ToldStep, ChainTheorem, PTL DEF Spec

\* A request that may run is one the gate found allowed and simulated.
LEMMA LocalIsSimulated ==
  ASSUME NEW r \in RequestArguments, EffectiveOf(r).local
  PROVE  /\ DryRunOf(r).status = "simulated"
         /\ TrailOf(r)[1].status = "allow"
         /\ TrailOf(r)[4].status = "not_executable"
<1>1. <<r.scope, r.adapter, r.capability>> \in Targets
  BY Verdict DEF MayRunLocally
<1>2. r.capability \in ContractOf(r.adapter).granted
  BY <1>1, TargetsGranted
<1>3. GateOutcome(r) = "allow"
  BY <1>2, GateOutcomes
<1> QED BY <1>3, DryRunStatus, TrailStatus, ProposalStatus

\* A handler runs exactly when a grant was consumed for the call, and what runs
\* was simulated and put on the audit trail as allowed (dispatch_adapter,
\* run_mcp_local_tool, inspect_n8n_local_plan).
THEOREM RunsAreBackedTheorem == Spec => []RunsAreBacked
<1>1. ChainInv /\ Told => RunsAreBacked
  <2> SUFFICES ASSUME ChainInv, Told, stage = "done"
               PROVE  RunsAreBacked
    BY DEF RunsAreBacked
  <2>1. answer.ran = consumed
    BY DEF Told
  <2>2. ASSUME consumed
        PROVE  /\ made.dryRun.status = "simulated"
               /\ made.trail[1].status = "allow"
               /\ made.trail[4].status = "not_executable"
    <3>1. /\ call.request \in RequestArguments /\ EffectiveOf(call.request).local
          /\ DOMAIN made = AllMade
      BY <2>2, ChainAssumption DEF ChainInv, Reached, Spent
    <3>2. made.dryRun = DryRunOf(call.request) /\ made.trail = TrailOf(call.request)
      BY <3>1, Made DEF AllMade
    <3> QED BY <3>1, <3>2, LocalIsSimulated
  <2> QED BY <2>1, <2>2 DEF RunsAreBacked
<1> QED BY <1>1, ChainTheorem, ToldTheorem, PTL

\* The states the panel can show in a row.
LEMMA PanelStates ==
  /\ PanelState("deny") = "danger" /\ PanelState("blocked") = "danger"
  /\ PanelState("missing") # "ready" /\ PanelState("provided_unverified") # "ready"
  /\ PanelState("not_executed") = "warn"
  /\ PanelState("pending") # "ready"
  BY DEF PanelState

\* A status that is not the one of an authorization is not shown ready.
LEMMA EffectiveRow ==
  ASSUME NEW r \in RequestArguments, PanelState(EffectiveOf(r).status) = "ready"
  PROVE  EffectiveOf(r).effective
<1> DEFINE e      == EffectiveOf(r)
           scope  == Text(r.scope, DryRunScope)
<1>1. /\ Gate(r).dryRun = DryRunOf(r) /\ Gate(r).validation = ValidationOf(r)
      /\ e = Effective(r, Gate(r), DecisionOf(r))
  BY GateInStages
<1> HIDE DEF e
<1>2. /\ e.status = ScopeStatus(scope, ValidationOf(r), DryRunOf(r), DecisionOf(r))
      /\ e.local = (scope \in LocalScopes /\ e.status = EffectiveName(scope))
      /\ e.effective = (e.local \/ e.status = "effective_for_dry_run_safe_operation")
  BY <1>1, EffectiveFields
<1>3. e.status # "blocked" /\ e.status # "pending"
  BY PanelStates DEF e, PanelState
<1>4. e.status = "effective_for_dry_run_safe_operation" \/ e.local
  BY <1>2, <1>3 DEF ScopeStatus, DryRunScopeStatus, LocalScopeStatus
<1> QED BY <1>2, <1>4 DEF e

\* For an identity that is not verified every row about a decision is a refusal.
LEMMA UnverifiedRefused ==
  ASSUME NEW r, ~ DecisionOf(r).verified
  PROVE  /\ DecisionOf(r).outcome = "deny"
         /\ AuthorizationRecord(Evaluation(r, r.who)).status = "blocked"
<1>1. ~ Identity(r.who).verified /\ DecisionOf(r).outcome = "deny"
  <2> DEFINE d == DecisionOf(r)
  <2>1. d = Decision(r, r.who)
    BY DEF DecisionOf
  <2> HIDE DEF d
  <2>2. /\ d.verified = Identity(r.who).verified
        /\ d.outcome = IF d.verified THEN Outcome(d.capability, d.adapter) ELSE "deny"
    BY <2>1, DecisionFields
  <2> QED BY <2>2 DEF d
<1>2. Evaluation(r, r.who).decision.outcome = "deny"
  <2> DEFINE d == Decision(Redacted(r), r.who)
  <2>1. d.verified = Identity(r.who).verified
        /\ d.outcome = IF d.verified THEN Outcome(d.capability, d.adapter) ELSE "deny"
    BY DecisionFields
  <2> HIDE DEF d
  <2>2. d.outcome = "deny"
    BY <1>1, <2>1
  <2> QED BY <2>2 DEF Evaluation, d
<1> QED BY <1>1, <1>2 DEF AuthorizationRecord

\* The panel shows no authorization that is not there, and never an execution
\* (collect_permission_ux, permission_ux.py).
THEOREM PanelIsHonestTheorem == Spec => []PanelIsHonest
<1>1. ChainInv /\ Told => PanelIsHonest
  <2> SUFFICES ASSUME ChainInv, Told, stage = "done", call.front = "panel"
               PROVE  PanelIsHonest
    BY DEF PanelIsHonest
  <2> DEFINE r == call.request
             P == PanelStatuses
  <2>1. r \in RequestArguments
    BY ChainAssumption DEF ChainInv, Reached
  <2>2. /\ DOMAIN made = AllMade
        /\ answer.panel = [i \in 1..Len(P) |-> PanelState(P[i])]
    BY DEF Told
  <2>3. /\ made.decision = DecisionOf(r)
        /\ made.effective = EffectiveOf(r)
    BY <2>2, Made DEF AllMade
  <2>4. /\ Len(P) = 8
        /\ P[2] = IF made.decision.verified THEN "verified" ELSE "blocked"
        /\ P[3] = made.decision.outcome
        /\ P[4] = AuthorizationRecord(Evaluation(r, r.who)).status
        /\ P[6] = made.effective.status
        /\ P[7] = IF call.grant = NoGrant THEN "missing" ELSE "provided_unverified"
        /\ P[8] = "not_executed"
    BY DEF PanelStatuses
  <2> HIDE DEF P
  <2>5. \A i \in 1..8 : answer.panel[i] = PanelState(P[i])
    BY <2>2, <2>4
  <2>6. answer.panel[6] = "ready" => made.effective.effective
    BY <2>1, <2>3, <2>4, <2>5, EffectiveRow
  <2>7. ASSUME ~ made.decision.verified
        PROVE  \A i \in 2..4 : answer.panel[i] = "danger"
    <3>1. P[2] = "blocked" /\ P[3] = "deny" /\ P[4] = "blocked"
      BY <2>3, <2>4, <2>7, UnverifiedRefused
    <3>2. answer.panel[2] = "danger" /\ answer.panel[3] = "danger" /\ answer.panel[4] = "danger"
      BY <2>5, <3>1, PanelStates
    <3> QED BY <3>2
  <2>8. answer.panel[7] # "ready" /\ answer.panel[8] = "warn"
    BY <2>4, <2>5, PanelStates
  <2> QED BY <2>6, <2>7, <2>8 DEF PanelIsHonest
<1> QED BY <1>1, ChainTheorem, ToldTheorem, PTL

=============================================================================
