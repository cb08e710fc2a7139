---------------------------- MODULE MobileSession ----------------------------
(***************************************************************************)
(* Pairing, mobile sessions and the failure limit of the private gateway   *)
(* (lai_gateway/server.py, lai_gateway/tokens.py).                         *)
(*                                                                         *)
(* Handler threads share the sessions and the failure stamps under one     *)
(* lock, but a request takes that lock several times, and the pairing      *)
(* token is a file that the threads read and remove without any lock while *)
(* the command line replaces or removes it.                                *)
(*                                                                         *)
(* One clock stands for time.time() and time.monotonic().  A pairing token *)
(* is known by the number of its creation, a session by the number of its  *)
(* exchange, the stamp of a failure by its number, and the permanent       *)
(* gateway token by Permanent.                                             *)
(***************************************************************************)
EXTENDS Integers, Sequences, FiniteSets

CONSTANTS
  Threads,        \* HTTP handler threads
  Clients,        \* client addresses
  Permanent,      \* the gateway access token
  Wrong,          \* a bearer token that is none of the gateway's
  FailureLimit,   \* _AUTH_FAILURE_LIMIT
  Window,         \* _AUTH_FAILURE_WINDOW_SECONDS
  SessionTtl,     \* _MOBILE_SESSION_TTL_SECONDS
  PairTtl,        \* ttl_seconds of a pairing token
  Operations,     \* bound: the endpoints clients call
  MaxPairs,       \* bound: pairing tokens created
  MaxSessions,    \* bound: sessions exchanged
  MaxFailures,    \* bound: stamps of failures recorded
  MaxClock        \* bound: ticks of the clock

ASSUME SessionAssumption ==
  /\ IsFiniteSet(Threads)
  /\ Clients # {}
  /\ FailureLimit \in Nat \ {0}
  /\ Window \in Nat \ {0}
  /\ SessionTtl \in Nat \ {0}
  /\ PairTtl \in Nat \ {0}
  /\ Operations \subseteq {"api", "exchange", "revoke"}
  /\ MaxPairs \in Nat
  /\ MaxSessions \in Nat
  /\ MaxFailures \in Nat
  /\ MaxClock \in Nat
  /\ Permanent \notin Int
  /\ Wrong \notin Int \cup {Permanent}

VARIABLES
  pairFile,     \* the pairing token file: Absent, Empty, or a token's number
  created,      \* when each pairing token was created
  spent,        \* history: the pairing tokens whose file an exchange removed
  sessions,     \* mobile_sessions: the live session numbers
  expires,      \* when each session expires
  ended,        \* history: sessions that were revoked
  stamps,       \* auth_failures of each client: only how many matters, so a set
  failed,       \* number of failures recorded
  clock,
  pc,
  job           \* the request of each thread

pairing == <<pairFile, created, spent>>
minted == <<sessions, expires, ended>>
failures == <<stamps, failed>>
vars == <<pairing, minted, failures, clock, pc, job>>

Absent == 0
Empty == -1

Pairs == 1..Len(created)
SessionIds == 1..Len(expires)

\* A session is presented as a negative number, so that one kind of token is
\* never mistaken for another.
Bearers == {Permanent, Wrong} \cup Pairs \cup {-s : s \in SessionIds}

\* since is when the thread took its last step; entered, late and ended are
\* history: when the request came, whether its token had been spent and which
\* sessions had been revoked by then.
NoJob == [client |-> CHOOSE c \in Clients : TRUE, token |-> Wrong,
          since |-> 0, entered |-> 0, late |-> FALSE, ended |-> {}]

\* A request that has failed only remembers its client.
Goto(p, point) ==
  /\ pc' = [pc EXCEPT ![p] = point]
  /\ job' = [job EXCEPT ![p] =
               IF point = "fail" THEN [NoJob EXCEPT !.client = job[p].client, !.since = clock]
               ELSE [@ EXCEPT !.since = clock]]

Reply(p) ==
  /\ pc' = [pc EXCEPT ![p] = "idle"]
  /\ job' = [job EXCEPT ![p] = NoJob]

\* Every handler reads the clock before it takes the lock: anywhere between
\* its last step and this one.
Read(p) == job[p].since..clock

-----------------------------------------------------------------------------
(* _auth_rate_limited, _record_auth_failure, _clear_auth_failures *)

Recent(c, now) == {s \in stamps[c] : now - s.at < Window}

\* Faulty variant: one failure too many is let through.
LimitedLate(c, now) == Cardinality(Recent(c, now)) > FailureLimit

Limited(c, now) == Cardinality(Recent(c, now)) >= FailureLimit

Prune(c, now) == stamps' = [stamps EXCEPT ![c] = Recent(c, now)]

Request(p, op, c, token) ==
  /\ pc[p] = "idle"
  /\ pc' = [pc EXCEPT ![p] = op]
  /\ job' = [job EXCEPT ![p] = [client |-> c, token |-> token, since |-> clock,
                                entered |-> clock,
                                late |-> token \in spent,
                                ended |-> IF token \in Pairs THEN {} ELSE ended]]
  /\ UNCHANGED <<pairing, minted, failures, clock>>

Refuse(p) ==
  /\ pc[p] \in {"api", "exchange", "revoke"}
  /\ \E now \in Read(p) : Limited(job[p].client, now) /\ Prune(job[p].client, now)
  /\ Reply(p)
  /\ UNCHANGED <<pairing, minted, failed, clock>>

\* Where each endpoint goes once the client is not limited.  The permanent
\* token needs no session; an exchange always reads the pairing file.
Onward(p) ==
  CASE pc[p] = "exchange" -> "check"
    [] pc[p] # "exchange" /\ job[p].token = Permanent -> "clear"
    [] pc[p] = "api" /\ job[p].token # Permanent -> "lookup"
    [] pc[p] = "revoke" /\ job[p].token # Permanent -> "pop"

Admit(p) ==
  /\ pc[p] \in {"api", "exchange", "revoke"}
  /\ \E now \in Read(p) : ~ Limited(job[p].client, now) /\ Prune(job[p].client, now)
  /\ Goto(p, Onward(p))
  /\ UNCHANGED <<pairing, minted, failed, clock>>

RecordFailure(p) ==
  /\ pc[p] = "fail"
  /\ failed' = failed + 1
  /\ \E now \in Read(p) :
       stamps' = [stamps EXCEPT ![job[p].client] =
                    Recent(job[p].client, now) \cup {[no |-> failed + 1, at |-> now]}]
  /\ Reply(p)
  /\ UNCHANGED <<pairing, minted, clock>>

ClearFailures(p) ==
  /\ pc[p] = "clear"
  /\ stamps' = [stamps EXCEPT ![job[p].client] = {}]
  /\ Reply(p)
  /\ UNCHANGED <<pairing, minted, failed, clock>>

-----------------------------------------------------------------------------
(* _is_valid_mobile_session and _pop_mobile_session *)

\* Faulty variant: sessions are kept past the second they expire in.
UnexpiredLate(now) == {s \in sessions : expires[s] + 1 > now}

Unexpired(now) == {s \in sessions : expires[s] > now}

\* The sessions, one or none, that the request's token is the key of.
Presented(p) == {s \in SessionIds : job[p].token = -s}

Found(p, mine) == Goto(p, IF mine # {} THEN "clear" ELSE "fail")

Lookup(p) ==
  /\ pc[p] = "lookup"
  /\ \E now \in Read(p) :
       /\ sessions' = Unexpired(now)
       /\ Found(p, Unexpired(now) \cap Presented(p))
  /\ UNCHANGED <<pairing, expires, ended, failures, clock>>

Pop(p) ==
  /\ pc[p] = "pop"
  /\ \E now \in Read(p) :
       LET mine == Unexpired(now) \cap Presented(p)
       IN  /\ sessions' = Unexpired(now) \ mine
           /\ ended' = ended \cup mine
           /\ Found(p, mine)
  /\ UNCHANGED <<pairing, expires, failures, clock>>

-----------------------------------------------------------------------------
(* _exchange_mobile_session: check_gateway_pairing_token_file reads the     *)
(* file and looks at its mode, then the file is read again for the token    *)

Expired == clock >= created[pairFile] + PairTtl

WithoutPair(p) == IF job[p].token = Permanent THEN "mint" ELSE "fail"

CheckPair(p) ==
  /\ pc[p] = "check"
  /\ Goto(p, IF pairFile \notin Pairs THEN WithoutPair(p)
             ELSE IF Expired THEN "statold" ELSE "stat")
  /\ UNCHANGED <<pairing, minted, failures, clock>>

\* Path.stat of a file that has gone raises FileNotFoundError, which is not
\* the GatewayError the caller expects: the request dies unanswered.  That the
\* token has expired is only reported behind it.
StatGone(p) ==
  /\ pc[p] \in {"stat", "statold"}
  /\ pairFile = Absent
  /\ Reply(p)
  /\ UNCHANGED <<pairing, minted, failures, clock>>

StatPair(p) ==
  /\ pc[p] \in {"stat", "statold"}
  /\ pairFile # Absent
  /\ Goto(p, IF pc[p] = "stat" THEN "read" ELSE WithoutPair(p))
  /\ UNCHANGED <<pairing, minted, failures, clock>>

ReadPair(p) ==
  /\ pc[p] = "read"
  /\ Goto(p, IF pairFile \in Pairs /\ job[p].token = pairFile THEN "unlink"
             ELSE WithoutPair(p))
  /\ UNCHANGED <<pairing, minted, failures, clock>>

\* Faulty variant: the token counts as used up, and its file is left to expire.
UnlinkNothing(p) ==
  /\ pc[p] = "unlink"
  /\ spent' = spent \cup {job[p].token}
  /\ Goto(p, "mint")
  /\ UNCHANGED <<pairFile, created, minted, failures, clock>>

\* The path is removed, whatever file it names by now; none is fine too.
Unlink(p) ==
  /\ pc[p] = "unlink"
  /\ pairFile' = Absent
  /\ spent' = spent \cup {job[p].token}
  /\ Goto(p, "mint")
  /\ UNCHANGED <<created, minted, failures, clock>>

\* A file that cannot be removed stays, with its token, and the exchange goes on
\* as if it had been.
UnlinkFails(p) ==
  /\ pc[p] = "unlink"
  /\ pairFile # Absent
  /\ Goto(p, "mint")
  /\ UNCHANGED <<pairing, minted, failures, clock>>

\* The expiry is read before the lock is taken, the time to prune at under it.
Mint(p) ==
  /\ pc[p] = "mint"
  /\ sessions' = Unexpired(clock) \cup {Len(expires) + 1}
  /\ \E now \in Read(p) : expires' = Append(expires, now + SessionTtl)
  /\ Goto(p, "clear")
  /\ UNCHANGED <<pairing, ended, failures, clock>>

-----------------------------------------------------------------------------
(* The command line, one at a time: pair create truncates or creates the    *)
(* file, then writes it; pair revoke removes it                             *)

PairCreate ==
  /\ pairFile # Empty
  /\ Len(created) < MaxPairs
  /\ created' = Append(created, clock)
  /\ pairFile' = Empty
  /\ UNCHANGED <<spent, minted, failures, clock, pc, job>>

\* What is written to a file unlinked meanwhile is never seen.
PairWrite ==
  /\ pairFile = Empty
  /\ pairFile' = Len(created)
  /\ UNCHANGED <<created, spent, minted, failures, clock, pc, job>>

PairRevoke ==
  /\ pairFile # Absent
  /\ pairFile' = Absent
  /\ UNCHANGED <<created, spent, minted, failures, clock, pc, job>>

Tick ==
  /\ clock < MaxClock
  /\ clock' = clock + 1
  /\ UNCHANGED <<pairing, minted, failures, pc, job>>

-----------------------------------------------------------------------------

Init ==
  /\ pairFile = Absent
  /\ created = << >>
  /\ sessions = {}
  /\ spent = {}
  /\ expires = << >>
  /\ ended = {}
  /\ stamps = [c \in Clients |-> {}]
  /\ failed = 0
  /\ clock = 0
  /\ pc = [p \in Threads |-> "idle"]
  /\ job = [p \in Threads |-> NoJob]

\* The bounds on sessions and failures are kept by taking no request that
\* could exceed them.
Room(op) ==
  LET busy == Cardinality({p \in Threads : pc[p] # "idle"})
  IN  /\ failed + busy < MaxFailures
      /\ op = "exchange" => Len(expires) + busy < MaxSessions

\* Only an exchange reads pairing tokens, and it reads no sessions: there a
\* token of the other kind is as good as a wrong one.
Telling(op) ==
  {Permanent, Wrong} \cup IF op = "exchange" THEN Pairs ELSE {-s : s \in SessionIds}

Arrive(p) ==
  \E op \in Operations, c \in Clients :
    Room(op) /\ \E token \in Telling(op) : Request(p, op, c, token)

Handler(p) ==
  \/ Refuse(p) \/ Admit(p) \/ RecordFailure(p) \/ ClearFailures(p)
  \/ Lookup(p) \/ Pop(p)
  \/ CheckPair(p) \/ StatGone(p) \/ StatPair(p) \/ ReadPair(p)
  \/ Unlink(p) \/ UnlinkFails(p) \/ Mint(p)

Next ==
  \/ \E p \in Threads : Arrive(p) \/ Handler(p)
  \/ PairCreate \/ PairWrite \/ PairRevoke
  \/ Tick

Spec == Init /\ [][Next]_vars

-----------------------------------------------------------------------------
(* Properties *)

Points == {"idle", "api", "exchange", "revoke", "clear", "fail", "lookup", "pop",
           "check", "stat", "statold", "read", "unlink", "mint"}

\* Types; only sessions that were exchanged are live, and none that was revoked.
\* "repeated failed API auth attempts return 429" (README.md:221): the limit is
\* tested and the failure recorded under the lock, but not in one piece, and
\* each with a clock read before it.  What the threads can add between a test
\* and its record is all that can exceed the limit.
TypeOK ==
  /\ pairFile \in Pairs \cup {Absent, Empty}
  /\ created \in Seq(Nat)
  /\ sessions \subseteq SessionIds \ ended
  /\ ended \subseteq SessionIds
  /\ spent \subseteq Pairs
  /\ expires \in Seq(Nat)
  /\ stamps \in [Clients -> SUBSET [no : 1..failed, at : Nat]]
  /\ \A c \in Clients : Cardinality(Recent(c, clock)) < FailureLimit + Cardinality(Threads)
  /\ pc \in [Threads -> Points]
  /\ \A p \in Threads : job[p].token \in Bearers

\* A session that is over stays out: no request is served that came when its
\* session had been revoked or had expired, whichever clocks the other threads
\* prune the table with.
SessionsStayOut ==
  \A p \in Threads : pc[p] = "clear" =>
    /\ Presented(p) \cap job[p].ended = {}
    /\ \A s \in Presented(p) : job[p].entered < expires[s]

\* A pairing token is spent from the moment an exchange has removed its file: no
\* request that comes after that gets a session for it, whatever the command line
\* creates, removes and rewrites meanwhile and however many other exchanges have
\* read the file already.  A file that could not be removed spends nothing: the
\* code then makes the session all the same, and the token can be used again.
PairTokenStaysSpent ==
  \A p \in Threads : pc[p] = "mint" => ~ job[p].late
=============================================================================
