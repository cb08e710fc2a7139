CONSTANTS
  p1 = p1  p2 = p2  p3 = p3  server = server  cli = cli
  g1 = g1  g2 = g2  local_status = local_status  mcp_local = mcp_local  dry_run = dry_run
  Procs = {p1, p3}
  Hosts = {server, cli}
  HostOf <- ThreadAndCli
  Grants = {g1}
  NoGrant = NoGrant
  Requests = {local_status, mcp_local, dry_run}
  NoRequest = NoRequest
  Authorized = {local_status, mcp_local}
  Allowlisted = {local_status, mcp_local}
  Calls <- Mixed
  NoTtl = NoTtl
  DefaultTtl = 1
  MaxTtl = 1
  SecondTicks = 2
  MaxClock = 2
  MaxCrashes = 0
  MaxFaults = 1
SPECIFICATION FairSpec
INVARIANTS
  RunsAreRecorded
  RunsWithinLifetime
PROPERTIES
  AbstractSpec
  CallsGetThrough
