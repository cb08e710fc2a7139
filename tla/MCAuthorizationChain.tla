------------------------ MODULE MCAuthorizationChain ------------------------
(* Instances of AuthorizationChain for TLC. *)
EXTENDS AuthorizationChain

Secrets == {"sk-1", "sk-2"}

Who(principal, source, claim, expected) ==
  [principal |-> principal, source |-> source, claim |-> claim, expected |-> expected]

People ==
  { DefaultIdentity,
    Who("ana", "gateway-loopback", "ana", "own"),
    Who("ana", "local-cli", "bob", ""),
    Who("ana", "elsewhere", NoClaim, ""),
    Who("ana", "local-cli", NoClaim, "foreign"),
    Who("sk-1", "local-cli", "", "") }

\* A capability of each class: granted, declared, wanting a human, both of the
\* latter, foreign to the contract, missing, secret-shaped; and adapters that
\* are missing or unknown.
Wishes ==
  { <<"local_status", "local_status.status">>, <<"local_status", "local_status.echo">>,
    <<"mcp_local", "mcp.local_echo_digest">>, <<"mcp_local", "network_side_effect">>,
    <<"n8n", "n8n.local_plan_digest">>, <<"n8n", "n8n.plan_workflow">>,
    <<"browser", "browser.navigate_public">>, <<"voice", "voice.plan">>,
    <<"document_media", "voice.plan">>, <<"n8n", "">>, <<"n8n", "sk-1">>,
    <<"", "local_status.status">>, <<"nowhere", "mcp.status">> }

Request(wish, scope, who, intent) ==
  [adapter |-> wish[1], capability |-> wish[2], context |-> "", action |-> "", parameters |-> "p",
   intent |-> intent, approver |-> "", scope |-> scope, who |-> who]

Scopes == {"", "elsewhere"} \cup LocalScopes

Plain(fronts, actions) ==
  [front : fronts, action : actions, grant : {NoGrant}, digest : {TRUE},
   request : {Request(w, s, p, i) : w \in Wishes, s \in Scopes, p \in People, i \in BOOLEAN}]

StatusRequest == Request(<<"local_status", "local_status.status">>, "local-status-read",
                         Who("ana", "gateway-loopback", "ana", "own"), TRUE)
McpRequest    == ToolRequest("mcp_local", "gateway", "p", DefaultIdentity)
PlanRequest   == ToolRequest("n8n", "gateway", "p", DefaultIdentity)

\* A request and its neighbours: one field differs.
Near(r) ==
  { r, [r EXCEPT !.context = "workbench"], [r EXCEPT !.parameters = "sk-1"],
    [r EXCEPT !.parameters = "sk-2"], [r EXCEPT !.who.principal = "bob", !.who.claim = NoClaim],
    [r EXCEPT !.who.source = "test-fixture"], [r EXCEPT !.who.source = "elsewhere"] }

\* For the dispatcher, whose caller chooses these as well.
NearStatus ==
  Near(StatusRequest) \cup
  { [StatusRequest EXCEPT !.intent = FALSE], [StatusRequest EXCEPT !.approver = "user"],
    [StatusRequest EXCEPT !.approver = "ana"], [StatusRequest EXCEPT !.action = "sk-1"],
    [StatusRequest EXCEPT !.action = "sk-2"],
    [StatusRequest EXCEPT !.capability = "local_status.echo"], [StatusRequest EXCEPT !.scope = ""] }

MCHolders == NearStatus \cup Near(McpRequest) \cup Near(PlanRequest)

ToolCalls(tool, requests) ==
  [front : {tool}, action : {"plan", "issue", "run", "erase"}, grant : requests \cup {NoGrant},
   digest : BOOLEAN, request : requests]

MCCalls ==
  Plain({"dispatcher"}, {"look", "run"}) \cup Plain({"panel"}, {"look"})
    \cup [front : {"dispatcher"}, action : {"look", "run"}, grant : MCHolders, digest : {TRUE},
          request : NearStatus]
    \cup ToolCalls("mcp_local", Near(McpRequest))
    \cup ToolCalls("n8n", Near(PlanRequest))
    \cup [front : {"panel"}, action : {"look"}, grant : {StatusRequest}, digest : {TRUE},
          request : NearStatus \cup Near(McpRequest)]
=============================================================================
