---------------------------- MODULE MCGrantLedger ----------------------------
(* Instances of GrantLedger for TLC. *)
EXTENDS GrantLedger, TLC

CONSTANTS p1, p2, p3, server, cli, g1, g2, local_status, mcp_local, dry_run

\* p1 and p2 are threads of one server, p3 is a CLI process.
ThreadAndCli     == p1 :> server @@ p3 :> cli
TwoThreadsOneCli == p1 :> server @@ p2 :> server @@ p3 :> cli
ThreadSymmetry   == Permutations({p1, p2})

IssueCalls(reqs, ttls) ==
  [action : {"issue"}, grant : {NoGrant}, request : reqs, ttl : ttls, handler : {FALSE}]
LookCalls(actions, ids) ==
  [action : actions, grant : ids, request : {NoRequest}, ttl : {NoTtl}, handler : {FALSE}]
ConsumeCalls(ids, reqs, handlers) ==
  [action : {"consume"}, grant : ids, request : reqs, ttl : {NoTtl}, handler : handlers]

\* Everybody issues, revokes and consumes, with and without a handler; one
\* request is not authorized.
Contended ==
  IssueCalls(Requests, {NoTtl})
    \cup LookCalls({"revoke"}, Grants)
    \cup ConsumeCalls(Grants, {local_status}, BOOLEAN)

\* Every action, an excessive lifetime, two targets and a request that is not
\* authorized.
Mixed ==
  IssueCalls({local_status}, {MaxTtl + 1})
    \cup LookCalls({"check"}, {NoGrant})
    \cup LookCalls({"revoke"}, Grants)
    \cup ConsumeCalls(Grants, {local_status, mcp_local}, {TRUE})
    \cup ConsumeCalls({NoGrant}, {dry_run}, {TRUE})

\* The requests as the policy sees them: the sets the
\* instances give the ledger are what its verdicts say.
Policy == INSTANCE AuthorizationPolicy WITH SecretShaped <- {}, NoClaim <- NoRequest

PolicyRequest(r) ==
  LET Target(adapter, capability, scope) ==
        [adapter |-> adapter, capability |-> capability, scope |-> scope, context |-> "",
         action |-> "", parameters |-> "", intent |-> TRUE, approver |-> "",
         who |-> Policy!DefaultIdentity]
  IN  CASE r = local_status -> Target("local_status", "local_status.status", "local-status-read")
        [] r = mcp_local    -> Target("mcp_local", "mcp.local_echo_digest", "mcp-local-safe-tool")
        [] r = dry_run      -> Target("n8n", "n8n.plan_workflow", "adapter-dry-run")

TargetOf(q) == <<q.scope, q.adapter, q.capability>>

ASSUME AuthorizedByPolicy ==
  Authorized = {r \in Requests : Policy!EffectiveOf(PolicyRequest(r)).local}
ASSUME AllowedByPolicy ==
  Allowlisted = {r \in Requests : TargetOf(PolicyRequest(r)) \in Policy!Targets}
=============================================================================
