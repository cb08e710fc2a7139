CONSTANTS
  p1 = p1  p2 = p2  p3 = p3  server = server  cli = cli
  g1 = g1  g2 = g2  local_status = local_status  mcp_local = mcp_local  dry_run = dry_run
  Procs = {p1, p2, p3}
  Hosts = {server, cli}
  HostOf <- TwoThreadsOneCli
  Grants = {g1}
  NoGrant = NoGrant
  Requests = {local_status, dry_run}
  NoRequest = NoRequest
  Authorized = {local_status}
  Allowlisted = {local_status}
  Calls <- Contended
  NoTtl = NoTtl
  DefaultTtl = 1
  MaxTtl = 2
  SecondTicks = 2
  MaxClock = 0
  MaxCrashes = 1
  MaxFaults = 1
SPECIFICATION Spec
INVARIANTS
  TypeOK
  AtMostOnce
  RevocationHonoured
SYMMETRY ThreadSymmetry
