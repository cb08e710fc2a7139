------------------------- MODULE MobileSessionProofs -------------------------
(***************************************************************************)
(* Proofs about MobileSession for every set of handler threads and clients *)
(* and every limit: type correctness with the bound on the failures that   *)
(* slip through, sessions that stay out once they are over, and pairing    *)
(* tokens that stay spent.                                                 *)
(***************************************************************************)
EXTENDS MobileSession, FiniteSetTheorems, TLAPS

-----------------------------------------------------------------------------
(* What the invariants are about *)

LEMMA AppendFacts ==
  ASSUME NEW S, NEW s \in Seq(S), NEW e \in S
  PROVE  /\ Append(s, e) \in Seq(S)
         /\ Len(s) \in Nat
         /\ DOMAIN s = 1..Len(s)
         /\ Len(Append(s, e)) = Len(s) + 1
         /\ DOMAIN Append(s, e) = 1..(Len(s) + 1)
         /\ \A i \in 1..Len(s) : Append(s, e)[i] = s[i]
         /\ Append(s, e)[Len(s) + 1] = e
OBVIOUS

Tokens == {Permanent, Wrong} \cup Int

Requests == [client : Clients, token : Tokens, since : Nat, entered : Nat,
             late : BOOLEAN, ended : SUBSET Nat]

Threaded ==
  /\ pc \in [Threads -> Points]
  /\ job \in [Threads -> Requests]
  /\ clock \in Nat

Paired ==
  /\ created \in Seq(Nat)
  /\ pairFile \in Pairs \cup {Absent, Empty}
  /\ spent \subseteq Pairs

Minted ==
  /\ expires \in Seq(Nat)
  /\ sessions \subseteq SessionIds \ ended
  /\ ended \subseteq SessionIds

Stamped ==
  /\ failed \in Nat
  /\ stamps \in [Clients -> SUBSET [no : 1..failed, at : Nat]]
  /\ \A c \in Clients : IsFiniteSet(stamps[c])

\* A request presents a token that was there when it came, and remembers of the
\* clock, of the tokens spent and of the sessions revoked no more than there was.
Sensible ==
  \A p \in Threads :
    /\ job[p].token \in Bearers
    /\ job[p].entered <= job[p].since /\ job[p].since <= clock
    /\ job[p].late => job[p].token \in spent
    /\ job[p].ended \subseteq ended
    /\ pc[p] = "unlink" => job[p].token \in Pairs
    /\ pc[p] = "mint" => job[p].token \in Pairs \cup {Permanent}

BaseInv == Threaded /\ Paired /\ Minted /\ Stamped /\ Sensible

LEMMA NoJobFacts ==
  /\ NoJob \in Requests
  /\ NoJob.client \in Clients /\ NoJob.token = Wrong /\ NoJob.since = 0
  /\ NoJob.entered = 0 /\ ~ NoJob.late /\ NoJob.ended = {}
<1>1. (CHOOSE c \in Clients : TRUE) \in Clients
  BY SessionAssumption
<1> QED
  BY <1>1 DEF NoJob, Requests, Tokens

\* The tokens that can be presented only grow in number.
LEMMA BearersGrow ==
  ASSUME Len(created) \in Nat, Len(created') \in Nat, Len(created) <= Len(created'),
         Len(expires) \in Nat, Len(expires') \in Nat, Len(expires) <= Len(expires')
  PROVE  /\ Pairs \subseteq Pairs' /\ SessionIds \subseteq SessionIds'
         /\ Bearers \subseteq Bearers'
<1>1. Pairs \subseteq Pairs' /\ SessionIds \subseteq SessionIds'
  BY DEF Pairs, SessionIds
<1> QED
  BY <1>1 DEF Bearers

\* What a request keeps when it goes on.
Same(p) ==
  /\ job'[p].token = job[p].token /\ job'[p].entered = job[p].entered
  /\ job'[p].late = job[p].late /\ job'[p].ended = job[p].ended

Cleared(p) ==
  /\ job'[p].token = Wrong /\ job'[p].entered = 0
  /\ ~ job'[p].late /\ job'[p].ended = {}

Others(p) == \A q \in Threads \ {p} : pc'[q] = pc[q] /\ job'[q] = job[q]

LEMMA GotoFacts ==
  ASSUME Threaded, NEW p \in Threads, NEW point \in Points, Goto(p, point), UNCHANGED clock
  PROVE  /\ Threaded' /\ Others(p)
         /\ pc'[p] = point
         /\ job'[p].client = job[p].client /\ job'[p].since = clock
         /\ point # "fail" => Same(p)
         /\ point = "fail" => Cleared(p)
<1>1. job[p] \in Requests /\ job \in [Threads -> Requests] /\ pc \in [Threads -> Points]
      /\ clock \in Nat
  BY DEF Threaded
<1>2. pc' \in [Threads -> Points] /\ pc'[p] = point
      /\ \A q \in Threads \ {p} : pc'[q] = pc[q]
  BY <1>1 DEF Goto
<1>3. CASE point = "fail"
  <2>1. job' = [job EXCEPT ![p] = [NoJob EXCEPT !.client = job[p].client, !.since = clock]]
    BY <1>3 DEF Goto
  <2> DEFINE j == [NoJob EXCEPT !.client = job[p].client, !.since = clock]
  <2>2. /\ j \in Requests /\ j.client = job[p].client /\ j.since = clock
        /\ j.token = Wrong /\ j.entered = 0 /\ ~ j.late /\ j.ended = {}
    BY <1>1, NoJobFacts DEF Requests
  <2> HIDE DEF j
  <2> QED BY <1>1, <1>2, <1>3, <2>1, <2>2 DEF j, Threaded, Others, Cleared
<1>4. CASE point # "fail"
  <2>1. job' = [job EXCEPT ![p] = [job[p] EXCEPT !.since = clock]]
    BY <1>4 DEF Goto
  <2> DEFINE j == [job[p] EXCEPT !.since = clock]
  <2>2. /\ j \in Requests /\ j.client = job[p].client /\ j.since = clock
        /\ j.token = job[p].token /\ j.entered = job[p].entered
        /\ j.late = job[p].late /\ j.ended = job[p].ended
    BY <1>1 DEF Requests
  <2> HIDE DEF j
  <2> QED BY <1>1, <1>2, <1>4, <2>1, <2>2 DEF j, Threaded, Others, Same
<1> QED BY <1>3, <1>4

LEMMA ReplyFacts ==
  ASSUME Threaded, NEW p \in Threads, Reply(p), UNCHANGED clock
  PROVE  Threaded' /\ Others(p) /\ pc'[p] = "idle" /\ job'[p] = NoJob
BY NoJobFacts DEF Threaded, Reply, Others, Points

\* The request that comes.
LEMMA RequestFacts ==
  ASSUME BaseInv, NEW p \in Threads, Arrive(p)
  PROVE  /\ UNCHANGED <<pairing, minted, failures, clock>>
         /\ Threaded' /\ Others(p)
         /\ pc[p] = "idle" /\ pc'[p] \in {"api", "exchange", "revoke"}
         /\ job'[p].token \in Bearers /\ job'[p].entered = clock /\ job'[p].since = clock
         /\ job'[p].late => job'[p].token \in spent
         /\ job'[p].ended \in {{}, ended}
<1>0. PICK op \in Operations, c \in Clients : \E token \in Telling(op) : Request(p, op, c, token)
  BY DEF Arrive
<1>1. PICK token \in Telling(op) : Request(p, op, c, token)
  BY <1>0
<1> DEFINE j == [client |-> c, token |-> token, since |-> clock, entered |-> clock,
                 late |-> token \in spent,
                 ended |-> IF token \in Pairs THEN {} ELSE ended]
<1>2. token \in Bearers /\ op \in {"api", "exchange", "revoke"}
  BY SessionAssumption DEF Telling, Bearers
<1>3. Len(expires) \in Nat /\ Len(created) \in Nat /\ ended \in SUBSET Nat
  BY DEF BaseInv, Minted, Paired, SessionIds
<1>4. token \in Tokens
  BY <1>2, <1>3 DEF Bearers, Tokens, Pairs, SessionIds
<1>5. j \in Requests
  BY <1>3, <1>4 DEF BaseInv, Threaded, Requests
<1>6. pc' = [pc EXCEPT ![p] = op] /\ job' = [job EXCEPT ![p] = j]
  BY <1>1 DEF Request
<1>7. /\ j.token = token /\ j.entered = clock /\ j.since = clock
      /\ j.late => j.token \in spent
      /\ j.ended \in {{}, ended}
  OBVIOUS
<1> HIDE DEF j
<1>8. Threaded' /\ Others(p)
  BY <1>1, <1>2, <1>5, <1>6 DEF BaseInv, Threaded, Others, Points, Request
<1>9. pc[p] = "idle" /\ pc'[p] = op /\ job'[p] = j
  BY <1>1, <1>6 DEF Request, BaseInv, Threaded
<1> QED BY <1>1, <1>2, <1>7, <1>8, <1>9 DEF Request

-----------------------------------------------------------------------------
(* Type correctness of all but the limit *)

LEMMA BaseInit == Init => BaseInv
<1> SUFFICES ASSUME Init PROVE BaseInv
  OBVIOUS
<1> USE NoJobFacts DEF Init
<1>1. Threaded /\ Paired /\ Minted
  BY DEF Threaded, Paired, Minted, Points, Pairs, SessionIds
<1>2. Stamped
  BY FS_EmptySet DEF Stamped
<1>3. Sensible
  BY DEF Sensible, Bearers
<1> QED BY <1>1, <1>2, <1>3 DEF BaseInv

\* What the other requests remember stays sensible while everything grows.
LEMMA SensibleStays ==
  ASSUME BaseInv, NEW p \in Threads, Others(p), UNCHANGED clock,
         Bearers \subseteq Bearers', Pairs \subseteq Pairs',
         ended \subseteq ended', spent \subseteq spent',
         \/ Same(p) /\ job'[p].since = clock
         \/ Cleared(p) /\ job'[p].since = clock
         \/ job'[p] = NoJob,
         pc'[p] = "unlink" => job'[p].token \in Pairs,
         pc'[p] = "mint" => job'[p].token \in Pairs \cup {Permanent}
  PROVE  Sensible'
<1>1. \A q \in Threads : job[q] \in Requests
  BY DEF BaseInv, Threaded
<1>2. Wrong \in Bearers /\ clock \in Nat
  BY DEF Bearers, BaseInv, Threaded
<1>3. ASSUME NEW q \in Threads \ {p}
      PROVE  /\ job'[q].token \in Bearers'
             /\ job'[q].entered <= job'[q].since /\ job'[q].since <= clock'
             /\ job'[q].late => job'[q].token \in spent'
             /\ job'[q].ended \subseteq ended'
             /\ pc'[q] = "unlink" => job'[q].token \in Pairs'
             /\ pc'[q] = "mint" => job'[q].token \in Pairs' \cup {Permanent}
  BY <1>1, <1>3 DEF Others, BaseInv, Sensible, Requests
<1>4. /\ job'[p].token \in Bearers'
      /\ job'[p].entered <= job'[p].since /\ job'[p].since <= clock'
      /\ job'[p].late => job'[p].token \in spent'
      /\ job'[p].ended \subseteq ended'
      /\ pc'[p] = "unlink" => job'[p].token \in Pairs'
      /\ pc'[p] = "mint" => job'[p].token \in Pairs' \cup {Permanent}
  BY <1>1, <1>2, NoJobFacts DEF BaseInv, Sensible, Same, Cleared, Requests
<1> QED BY <1>3, <1>4 DEF Sensible

\* Where a handler goes, it goes with its request or with its client alone.
Goes(p) ==
  \/ \E point \in Points \ {"unlink", "mint"} : Goto(p, point)
  \/ Goto(p, "unlink") /\ job[p].token \in Pairs
  \/ Goto(p, "mint") /\ job[p].token \in Pairs \cup {Permanent}
  \/ Reply(p)

LEMMA GoesFacts ==
  ASSUME BaseInv, NEW p \in Threads, Goes(p), UNCHANGED clock
  PROVE  /\ Threaded' /\ Others(p)
         /\ \/ Same(p) /\ job'[p].since = clock
            \/ Cleared(p) /\ job'[p].since = clock
            \/ job'[p] = NoJob
         /\ pc'[p] = "unlink" => job'[p].token \in Pairs
         /\ pc'[p] = "mint" => job'[p].token \in Pairs \cup {Permanent}
<1>0. Threaded /\ {"unlink", "mint"} \subseteq Points
  BY DEF BaseInv, Points
<1>1. CASE \E point \in Points \ {"unlink", "mint"} : Goto(p, point)
  BY <1>0, <1>1, GotoFacts
<1>2. CASE \/ Goto(p, "unlink") /\ job[p].token \in Pairs
           \/ Goto(p, "mint") /\ job[p].token \in Pairs \cup {Permanent}
  BY <1>0, <1>2, GotoFacts DEF Same
<1>3. CASE Reply(p)
  BY <1>0, <1>3, ReplyFacts
<1> QED BY <1>1, <1>2, <1>3 DEF Goes

LEMMA OnwardFacts ==
  ASSUME NEW p \in Threads, pc[p] \in {"api", "exchange", "revoke"}
  PROVE  Onward(p) \in {"check", "clear", "lookup", "pop"}
BY DEF Onward

LEMMA GoesNext ==
  ASSUME BaseInv, NEW p \in Threads, Handler(p)
  PROVE  Goes(p) /\ UNCHANGED clock
<1>1. CASE Refuse(p) \/ RecordFailure(p) \/ ClearFailures(p) \/ StatGone(p)
  BY <1>1 DEF Refuse, RecordFailure, ClearFailures, StatGone, Goes
<1>2. CASE Admit(p)
  BY <1>2, OnwardFacts DEF Admit, Goes, Points
<1>3. CASE Lookup(p) \/ Pop(p)
  BY <1>3 DEF Lookup, Pop, Found, Goes, Points
<1>4. CASE CheckPair(p) \/ StatPair(p) \/ ReadPair(p)
  BY <1>4 DEF CheckPair, StatPair, ReadPair, WithoutPair, Goes, Points
<1>5. CASE Unlink(p) \/ UnlinkFails(p) \/ Mint(p)
  BY <1>5 DEF Unlink, UnlinkFails, Mint, Goes, Points, BaseInv, Sensible
<1> QED BY <1>1, <1>2, <1>3, <1>4, <1>5 DEF Handler

\* What a handler does to the sessions.
LEMMA MintedNext ==
  ASSUME BaseInv, NEW p \in Threads, Handler(p)
  PROVE  /\ Minted'
         /\ Len(expires) \in Nat /\ Len(expires') \in Nat
         /\ Len(expires) <= Len(expires')
         /\ \A i \in 1..Len(expires) : expires'[i] = expires[i]
         /\ ended \subseteq ended'
         /\ UNCHANGED created
<1>0. /\ expires \in Seq(Nat) /\ Len(expires) \in Nat
      /\ job[p] \in Requests /\ clock \in Nat /\ job[p].token \in Bearers
  BY DEF BaseInv, Minted, Threaded, Paired, Sensible
<1>1. CASE Mint(p)
  <2>1. PICK now \in Read(p) :
          /\ expires' = Append(expires, now + SessionTtl)
          /\ sessions' = Unexpired(clock) \cup {Len(expires) + 1}
          /\ UNCHANGED <<created, ended>>
    BY <1>1 DEF Mint, pairing
  <2>2. now + SessionTtl \in Nat
    BY <1>0, SessionAssumption DEF Read, Requests
  <2>3. /\ expires' \in Seq(Nat) /\ Len(expires') = Len(expires) + 1
        /\ \A i \in 1..Len(expires) : expires'[i] = expires[i]
    BY <1>0, <2>1, <2>2, AppendFacts
  <2>4. sessions' \subseteq SessionIds' \ ended' /\ ended' \subseteq SessionIds'
    <3>1. SessionIds' = 1..(Len(expires) + 1)
      BY <2>3 DEF SessionIds
    <3>2. SessionIds = 1..Len(expires) /\ ended \subseteq SessionIds
          /\ sessions \subseteq SessionIds \ ended
      BY DEF SessionIds, BaseInv, Minted
    <3>3. sessions' \subseteq sessions \cup {Len(expires) + 1} /\ ended' = ended
      BY <2>1 DEF Unexpired
    <3> QED BY <1>0, <3>1, <3>2, <3>3
  <2> QED BY <1>0, <2>1, <2>3, <2>4 DEF Minted
<1>2. CASE ~ Mint(p)
  <2>1. UNCHANGED <<created, expires>>
    BY <1>2 DEF Handler, Refuse, Admit, RecordFailure, ClearFailures, Lookup, Pop, CheckPair,
       StatGone, StatPair, ReadPair, Unlink, UnlinkFails, pairing, minted
  <2>2. \/ UNCHANGED <<sessions, ended>>
        \/ \E mine \in SUBSET sessions : \E now :
             /\ sessions' = Unexpired(now) \ mine
             /\ ended' = ended \cup mine
    <3>1. CASE Lookup(p)
      <4>1. \E now : sessions' = Unexpired(now) \ {} /\ ended' = ended \cup {}
        BY <3>1 DEF Lookup
      <4> QED BY <4>1
    <3>2. CASE Pop(p)
      BY <3>2 DEF Pop, Unexpired
    <3>3. CASE ~ Lookup(p) /\ ~ Pop(p)
      BY <1>2, <3>3 DEF Handler, Refuse, Admit, RecordFailure, ClearFailures, CheckPair,
         StatGone, StatPair, ReadPair, Unlink, UnlinkFails, minted
    <3> QED BY <3>1, <3>2, <3>3
  <2>3. sessions' \subseteq SessionIds \ ended' /\ ended' \subseteq SessionIds
        /\ ended \subseteq ended'
    BY <2>2 DEF BaseInv, Minted, Unexpired
  <2>4. SessionIds' = SessionIds
    BY <2>1 DEF SessionIds
  <2> QED BY <1>0, <2>1, <2>3, <2>4 DEF BaseInv, Minted
<1> QED BY <1>1, <1>2

\* What a handler does to the stamps of failures.
LEMMA StampsNext ==
  ASSUME BaseInv, NEW p \in Threads, Handler(p)
  PROVE  /\ Stamped'
         /\ failed <= failed'
         /\ \/ /\ pc[p] = "fail" /\ pc'[p] = "idle"
               /\ \E new : \A c \in Clients :
                    stamps'[c] \subseteq stamps[c] \cup IF c = job[p].client THEN {new} ELSE {}
            \/ \A c \in Clients : stamps'[c] \subseteq stamps[c]
<1>0. /\ failed \in Nat /\ stamps \in [Clients -> SUBSET [no : 1..failed, at : Nat]]
      /\ \A c \in Clients : IsFiniteSet(stamps[c])
      /\ job[p] \in Requests /\ clock \in Nat /\ job[p].client \in Clients
      /\ pc \in [Threads -> Points]
  BY DEF BaseInv, Stamped, Threaded, Requests
<1>1. \A c \in Clients : \A now : Recent(c, now) \in SUBSET stamps[c]
  BY DEF Recent
<1>2. CASE RecordFailure(p)
  <2>1. PICK now \in Read(p) :
          stamps' = [stamps EXCEPT ![job[p].client] =
                       Recent(job[p].client, now) \cup {[no |-> failed + 1, at |-> now]}]
    BY <1>2 DEF RecordFailure
  <2> DEFINE new == [no |-> failed + 1, at |-> now]
  <2>2. failed' = failed + 1 /\ pc[p] = "fail" /\ pc'[p] = "idle"
    BY <1>0, <1>2 DEF RecordFailure, Reply
  <2>3. new \in [no : 1..(failed + 1), at : Nat]
    BY <1>0 DEF Read, Requests
  <2>4. [no : 1..failed, at : Nat] \subseteq [no : 1..(failed + 1), at : Nat]
    BY <1>0
  <2> HIDE DEF new
  <2>5. \A c \in Clients : stamps'[c] \subseteq stamps[c] \cup IF c = job[p].client THEN {new} ELSE {}
    BY <1>0, <1>1, <2>1 DEF new
  <2>6. stamps' \in [Clients -> SUBSET [no : 1..(failed + 1), at : Nat]]
    <3>1. \A c \in Clients : stamps'[c] \subseteq [no : 1..(failed + 1), at : Nat]
      BY <1>0, <2>3, <2>4, <2>5
    <3>2. DOMAIN stamps' = Clients /\ stamps' = [c \in Clients |-> stamps'[c]]
      BY <1>0, <2>1
    <3> QED BY <3>1, <3>2
  <2>7. ASSUME NEW c \in Clients PROVE IsFiniteSet(stamps'[c])
    <3>1. IsFiniteSet(stamps[c] \cup {new})
      BY <1>0, FS_AddElement
    <3>2. stamps'[c] \subseteq stamps[c] \cup {new}
      BY <2>5
    <3> QED BY <3>1, <3>2, FS_Subset
  <2>8. [no : 1..(failed + 1), at : Nat] = [no : 1..failed', at : Nat] /\ failed' \in Nat
    BY <1>0, <2>2
  <2>9. stamps' \in [Clients -> SUBSET [no : 1..failed', at : Nat]]
    BY <2>6, <2>8
  <2>10. Stamped'
    BY <2>7, <2>8, <2>9 DEF Stamped
  <2>11. failed <= failed'
    BY <1>0, <2>2
  <2> QED BY <2>2, <2>5, <2>10, <2>11
<1>3. CASE ~ RecordFailure(p)
  <2>1. failed' = failed
    BY <1>3 DEF Handler, Refuse, Admit, ClearFailures, Lookup, Pop, CheckPair,
       StatGone, StatPair, ReadPair, Unlink, UnlinkFails, Mint, failures
  <2>2. \/ stamps' = stamps
        \/ \E s \in SUBSET stamps[job[p].client] :
             stamps' = [stamps EXCEPT ![job[p].client] = s]
    <3>1. CASE Refuse(p) \/ Admit(p)
      BY <1>0, <1>1, <3>1 DEF Refuse, Admit, Prune
    <3>2. CASE ClearFailures(p)
      BY <3>2 DEF ClearFailures
    <3>3. CASE ~ (Refuse(p) \/ Admit(p) \/ ClearFailures(p))
      BY <1>3, <3>3 DEF Handler, Lookup, Pop, CheckPair,
         StatGone, StatPair, ReadPair, Unlink, UnlinkFails, Mint, failures
    <3> QED BY <3>1, <3>2, <3>3
  <2>3. \A c \in Clients : stamps'[c] \subseteq stamps[c]
    BY <1>0, <2>2
  <2>4. stamps' \in [Clients -> SUBSET [no : 1..failed, at : Nat]]
    BY <1>0, <2>2
  <2>5. \A c \in Clients : IsFiniteSet(stamps'[c])
    BY <1>0, <2>3, FS_Subset
  <2> QED BY <1>0, <2>1, <2>3, <2>4, <2>5 DEF Stamped
<1> QED BY <1>2, <1>3

LEMMA BaseNext ==
  ASSUME BaseInv, [Next]_vars
  PROVE  BaseInv'
<1> USE DEF BaseInv
<1>0. /\ Len(created) \in Nat /\ Len(expires) \in Nat /\ clock \in Nat
      /\ job \in [Threads -> Requests] /\ pc \in [Threads -> Points]
  BY DEF Paired, Minted, Threaded
<1>1. ASSUME NEW p \in Threads, Arrive(p) PROVE BaseInv'
  <2>1. /\ UNCHANGED <<pairing, minted, failures, clock>> /\ Threaded' /\ Others(p)
        /\ pc'[p] \in {"api", "exchange", "revoke"}
        /\ job'[p].token \in Bearers /\ job'[p].entered = clock /\ job'[p].since = clock
        /\ job'[p].late => job'[p].token \in spent
        /\ job'[p].ended \in {{}, ended}
    BY <1>1, RequestFacts
  <2>2. Pairs' = Pairs /\ SessionIds' = SessionIds /\ Bearers' = Bearers
    BY <2>1 DEF Pairs, SessionIds, Bearers, pairing, minted
  <2>3. Paired' /\ Minted' /\ Stamped'
    BY <2>1, <2>2 DEF Paired, Minted, Stamped, pairing, minted, failures
  <2>4. Sensible'
    BY <1>0, <2>1, <2>2 DEF Sensible, Others, minted, pairing
  <2> QED BY <2>1, <2>3, <2>4
<1>2. ASSUME NEW p \in Threads, Handler(p) PROVE BaseInv'
  <2>1. Goes(p) /\ UNCHANGED clock
    BY <1>2, GoesNext
  <2>2. /\ Threaded' /\ Others(p)
        /\ \/ Same(p) /\ job'[p].since = clock
           \/ Cleared(p) /\ job'[p].since = clock
           \/ job'[p] = NoJob
        /\ pc'[p] = "unlink" => job'[p].token \in Pairs
        /\ pc'[p] = "mint" => job'[p].token \in Pairs \cup {Permanent}
    BY <2>1, GoesFacts
  <2>3. /\ Minted' /\ Len(expires') \in Nat
        /\ Len(expires) <= Len(expires')
        /\ ended \subseteq ended' /\ UNCHANGED created
    BY <1>2, MintedNext
  <2>4. Pairs \subseteq Pairs' /\ Bearers \subseteq Bearers' /\ Pairs' = Pairs
    BY <1>0, <2>3, BearersGrow DEF Pairs
  <2>6. pairFile' \in {pairFile, Absent} /\ spent \subseteq spent' /\ spent' \subseteq Pairs
    BY <1>2 DEF Handler, Refuse, Admit, RecordFailure, ClearFailures, Lookup, Pop, CheckPair,
       StatGone, StatPair, ReadPair, Unlink, UnlinkFails, Mint, pairing, Paired, Sensible
  <2>5. Sensible'
    BY <1>0, <2>1, <2>2, <2>3, <2>4, <2>6, SensibleStays
  <2>7. Paired'
    BY <2>3, <2>4, <2>6 DEF Paired
  <2> QED BY <1>2, <2>2, <2>3, <2>5, <2>7, StampsNext
<1>3. CASE PairCreate \/ PairWrite \/ PairRevoke
  <2>1. UNCHANGED <<spent, minted, failures, clock, pc, job>>
    BY <1>3 DEF PairCreate, PairWrite, PairRevoke
  <2>2. /\ created' \in Seq(Nat) /\ Len(created') \in Nat /\ Len(created) <= Len(created')
        /\ pairFile' \in {Empty, Absent, Len(created)}
    BY <1>0, <1>3, AppendFacts DEF PairCreate, PairWrite, PairRevoke, Paired
  <2>3. Len(expires') = Len(expires) /\ SessionIds' = SessionIds
    BY <2>1 DEF minted, SessionIds
  <2>4. Pairs \subseteq Pairs' /\ Bearers \subseteq Bearers'
    BY <1>0, <2>2, <2>3, BearersGrow
  <2>5. Paired'
    BY <1>0, <2>1, <2>2, <2>4 DEF Paired, Pairs, Absent
  <2>6. Threaded' /\ Stamped'
    BY <2>1 DEF Threaded, Stamped, failures
  <2>7. Minted'
    BY <2>1, <2>3, <2>4 DEF Minted, minted
  <2>8. Sensible'
    BY <2>1, <2>3, <2>4 DEF Sensible, minted
  <2> QED BY <2>5, <2>6, <2>7, <2>8
<1>4. CASE Tick \/ UNCHANGED vars
  <2>1. UNCHANGED <<pairing, minted, failures, pc, job>> /\ clock' \in {clock, clock + 1}
    BY <1>4 DEF Tick, vars
  <2>2. Pairs' = Pairs /\ SessionIds' = SessionIds /\ Bearers' = Bearers
    BY <2>1 DEF Pairs, SessionIds, Bearers, pairing, minted
  <2>3. Threaded' /\ Paired' /\ Minted' /\ Stamped'
    BY <1>0, <2>1, <2>2 DEF Threaded, Paired, Minted, Stamped, pairing, minted, failures
  <2>4. Sensible'
    BY <1>0, <2>1, <2>2 DEF Sensible, minted, pairing, Requests
  <2> QED BY <2>3, <2>4
<1> QED BY <1>1, <1>2, <1>3, <1>4 DEF Next

THEOREM BaseTheorem == Spec => []BaseInv
<1>1. Init => BaseInv
  BY BaseInit
<1>2. BaseInv /\ [Next]_vars => BaseInv'
  BY BaseNext
<1> QED BY <1>1, <1>2, PTL DEF Spec

-----------------------------------------------------------------------------
(* The failure limit: what slips through is what the threads have let in    *)

Inside == Points \ {"idle", "api", "exchange", "revoke"}

\* The requests of a client that the limit has let through and that are still
\* under way: each may yet record a failure.
Admitted(c) == {p \in Threads : pc[p] \in Inside /\ job[p].client = c}

LimitInv ==
  \A c \in Clients :
    Cardinality(Recent(c, clock)) + Cardinality(Admitted(c))
      <= FailureLimit - 1 + Cardinality(Threads)

LEMMA LimitFinite ==
  ASSUME Stamped, NEW c \in Clients, NEW now \in Nat
  PROVE  /\ IsFiniteSet(Recent(c, now)) /\ Cardinality(Recent(c, now)) \in Nat
         /\ IsFiniteSet(Admitted(c)) /\ Cardinality(Admitted(c)) \in Nat
         /\ Cardinality(Admitted(c)) <= Cardinality(Threads)
         /\ Cardinality(Threads) \in Nat
<1>1. IsFiniteSet(stamps[c]) /\ Recent(c, now) \subseteq stamps[c]
  BY DEF Stamped, Recent
<1>2. IsFiniteSet(Threads) /\ Admitted(c) \subseteq Threads
  BY SessionAssumption DEF Admitted
<1> QED BY <1>1, <1>2, FS_Subset, FS_CardinalityType

\* Nothing is forgotten that a smaller number of stamps or of requests needs.
LEMMA LimitShrinks ==
  ASSUME Stamped, LimitInv, clock \in Nat, clock' \in Nat, NEW c \in Clients,
         Recent(c, clock)' \subseteq Recent(c, clock),
         Admitted(c)' \subseteq Admitted(c)
  PROVE  (Cardinality(Recent(c, clock)) + Cardinality(Admitted(c))
            <= FailureLimit - 1 + Cardinality(Threads))'
<1>1. /\ IsFiniteSet(Recent(c, clock)) /\ Cardinality(Recent(c, clock)) \in Nat
      /\ IsFiniteSet(Admitted(c)) /\ Cardinality(Admitted(c)) \in Nat
      /\ Cardinality(Threads) \in Nat
  BY LimitFinite
<1>2. /\ Cardinality(Recent(c, clock)') <= Cardinality(Recent(c, clock))
      /\ Cardinality(Admitted(c)') <= Cardinality(Admitted(c))
      /\ Cardinality(Recent(c, clock)') \in Nat /\ Cardinality(Admitted(c)') \in Nat
  <2>1. IsFiniteSet(Recent(c, clock)') /\ IsFiniteSet(Admitted(c)')
    BY <1>1, FS_Subset
  <2> QED BY <1>1, <2>1, FS_Subset, FS_CardinalityType
<1>3. Cardinality(Recent(c, clock)) + Cardinality(Admitted(c))
        <= FailureLimit - 1 + Cardinality(Threads)
  BY DEF LimitInv
<1>4. FailureLimit \in Nat
  BY SessionAssumption
<1>5. Cardinality(Recent(c, clock)') + Cardinality(Admitted(c)')
        <= FailureLimit - 1 + Cardinality(Threads)
  BY <1>1, <1>2, <1>3, <1>4
<1> QED BY <1>5

LEMMA LimitNext ==
  ASSUME BaseInv, LimitInv, [Next]_vars
  PROVE  LimitInv'
<1>0. /\ Stamped /\ Stamped' /\ clock \in Nat /\ clock' \in Nat
      /\ job \in [Threads -> Requests] /\ pc \in [Threads -> Points]
      /\ FailureLimit \in Nat
  BY BaseNext, SessionAssumption DEF BaseInv, Threaded
<1> DEFINE Bound(c) == Cardinality(Recent(c, clock)) + Cardinality(Admitted(c))
                         <= FailureLimit - 1 + Cardinality(Threads)
<1> SUFFICES ASSUME NEW c \in Clients PROVE Bound(c)'
  BY DEF LimitInv
<1>1. ASSUME NEW p \in Threads, Arrive(p) PROVE Bound(c)'
  <2>1. /\ UNCHANGED <<failures, clock>> /\ Others(p)
        /\ pc'[p] \in {"api", "exchange", "revoke"}
    BY <1>1, RequestFacts
  <2>2. Recent(c, clock)' \subseteq Recent(c, clock) /\ Admitted(c)' \subseteq Admitted(c)
    BY <2>1 DEF Recent, Admitted, failures, Inside, Others
  <2> QED BY <1>0, <2>2, LimitShrinks
<1>2. ASSUME NEW p \in Threads, Handler(p) PROVE Bound(c)'
  <2>1. Goes(p) /\ UNCHANGED clock
    BY <1>2, GoesNext
  <2>2. Others(p)
    BY <2>1, GoesFacts
  <2>3. pc'[p] \in Inside => job'[p].client = job[p].client
    <3>1. CASE Reply(p)
      BY <1>0, <3>1 DEF Reply, Inside
    <3>2. ASSUME NEW point \in Points, Goto(p, point) PROVE job'[p].client = job[p].client
      BY <2>1, <3>2, GotoFacts DEF BaseInv
    <3>3. {"unlink", "mint"} \subseteq Points
      BY DEF Points
    <3> QED BY <2>1, <3>1, <3>2, <3>3 DEF Goes
  <2>4. CASE Admit(p)
    <3>1. PICK now \in Read(p) : ~ Limited(job[p].client, now) /\ Prune(job[p].client, now)
      BY <2>4 DEF Admit
    <3>2. now \in Nat /\ now <= clock /\ job[p].client \in Clients
      BY <1>0 DEF Read, Requests
    <3>3. CASE c # job[p].client
      <4>1. Recent(c, clock)' \subseteq Recent(c, clock)
        BY <1>0, <2>1, <3>1, <3>3 DEF Prune, Recent, Stamped
      <4>2. Admitted(c)' \subseteq Admitted(c)
        BY <2>2, <2>3, <3>3 DEF Admitted, Others
      <4> QED BY <1>0, <4>1, <4>2, LimitShrinks
    <3>4. CASE c = job[p].client
      <4>1. stamps'[c] = Recent(c, now)
        BY <1>0, <3>1, <3>2, <3>4 DEF Prune, Stamped
      <4>2. Recent(c, clock)' \subseteq Recent(c, now)
        BY <4>1 DEF Recent
      <4>3. /\ IsFiniteSet(Recent(c, now)) /\ Cardinality(Recent(c, now)) \in Nat
        BY <1>0, <3>2, LimitFinite
      <4>4. Cardinality(Recent(c, now)) <= FailureLimit - 1
        BY <1>0, <3>1, <3>4, <4>3 DEF Limited
      <4>5. Cardinality(Recent(c, clock)') <= Cardinality(Recent(c, now))
            /\ Cardinality(Recent(c, clock)') \in Nat
        BY <4>2, <4>3, FS_Subset, FS_CardinalityType
      <4>6. IsFiniteSet(Threads) /\ Admitted(c)' \subseteq Threads
        BY SessionAssumption DEF Admitted
      <4>7. Cardinality(Admitted(c)') <= Cardinality(Threads)
            /\ Cardinality(Admitted(c)') \in Nat /\ Cardinality(Threads) \in Nat
        BY <4>6, FS_Subset, FS_CardinalityType
      <4>8. Cardinality(Recent(c, clock)') + Cardinality(Admitted(c)')
              <= FailureLimit - 1 + Cardinality(Threads)
        BY <1>0, <4>3, <4>4, <4>5, <4>7
      <4> QED BY <4>8
    <3> QED BY <3>3, <3>4
  <2>5. CASE ~ Admit(p)
    <3>1. pc'[p] \in Inside => pc[p] \in Inside
      <4>1. CASE Refuse(p)
        BY <1>0, <4>1 DEF Refuse, Reply, Inside
      <4>2. CASE ~ Refuse(p)
        BY <1>2, <2>5, <4>2 DEF Handler, RecordFailure, ClearFailures, Lookup, Pop, CheckPair,
           StatGone, StatPair, ReadPair, Unlink, UnlinkFails, Mint, Inside, Points
      <4> QED BY <4>1, <4>2
    <3>2. Admitted(c)' \subseteq Admitted(c)
      BY <2>2, <2>3, <3>1 DEF Admitted, Others
    <3>3. CASE \A d \in Clients : stamps'[d] \subseteq stamps[d]
      <4>1. Recent(c, clock)' \subseteq Recent(c, clock)
        BY <2>1, <3>3 DEF Recent
      <4> QED BY <1>0, <3>2, <4>1, LimitShrinks
    <3>4. ASSUME NEW new, pc[p] = "fail", pc'[p] = "idle",
                 \A d \in Clients :
                   stamps'[d] \subseteq stamps[d] \cup IF d = job[p].client THEN {new} ELSE {}
          PROVE  Bound(c)'
      <4>1. CASE c # job[p].client
        <5>1. Recent(c, clock)' \subseteq Recent(c, clock)
          BY <2>1, <3>4, <4>1 DEF Recent
        <5> QED BY <1>0, <3>2, <5>1, LimitShrinks
      <4>2. CASE c = job[p].client
        <5>1. Recent(c, clock)' \subseteq Recent(c, clock) \cup {new}
          BY <2>1, <3>4, <4>2 DEF Recent
        <5>2. Admitted(c)' \subseteq Admitted(c) \ {p} /\ p \in Admitted(c)
          BY <3>2, <3>4, <4>2 DEF Admitted, Inside, Points
        <5>3. /\ IsFiniteSet(Recent(c, clock)) /\ Cardinality(Recent(c, clock)) \in Nat
              /\ IsFiniteSet(Admitted(c)) /\ Cardinality(Admitted(c)) \in Nat
              /\ Cardinality(Threads) \in Nat
          BY <1>0, LimitFinite
        <5>4. /\ Cardinality(Recent(c, clock)') \in Nat
              /\ Cardinality(Recent(c, clock)') <= Cardinality(Recent(c, clock)) + 1
          <6>1. /\ IsFiniteSet(Recent(c, clock) \cup {new})
                /\ Cardinality(Recent(c, clock) \cup {new}) \in Nat
                /\ Cardinality(Recent(c, clock) \cup {new}) <= Cardinality(Recent(c, clock)) + 1
            BY <5>3, FS_AddElement, FS_CardinalityType
          <6>2. /\ IsFiniteSet(Recent(c, clock)')
                /\ Cardinality(Recent(c, clock)') <= Cardinality(Recent(c, clock) \cup {new})
            BY <5>1, <6>1, FS_Subset
          <6> QED BY <5>3, <6>1, <6>2, FS_CardinalityType
        <5>5. /\ Cardinality(Admitted(c)') \in Nat
              /\ Cardinality(Admitted(c)') <= Cardinality(Admitted(c)) - 1
          <6>1. IsFiniteSet(Admitted(c) \ {p})
                /\ Cardinality(Admitted(c) \ {p}) = Cardinality(Admitted(c)) - 1
            BY <5>2, <5>3, FS_RemoveElement
          <6>2. /\ IsFiniteSet(Admitted(c)')
                /\ Cardinality(Admitted(c)') <= Cardinality(Admitted(c) \ {p})
            BY <5>2, <6>1, FS_Subset
          <6> QED BY <6>1, <6>2, FS_CardinalityType
        <5>6. Cardinality(Recent(c, clock)) + Cardinality(Admitted(c))
                <= FailureLimit - 1 + Cardinality(Threads)
          BY DEF LimitInv
        <5>7. Cardinality(Recent(c, clock)') + Cardinality(Admitted(c)')
                <= FailureLimit - 1 + Cardinality(Threads)
          BY <1>0, <5>3, <5>4, <5>5, <5>6
        <5> QED BY <5>7
      <4> QED BY <4>1, <4>2
    <3> QED BY <1>2, <3>3, <3>4, StampsNext
  <2> QED BY <2>4, <2>5
<1>3. CASE PairCreate \/ PairWrite \/ PairRevoke \/ Tick \/ UNCHANGED vars
  <2>1. UNCHANGED <<stamps, pc, job>> /\ clock' \in {clock, clock + 1}
    BY <1>3 DEF PairCreate, PairWrite, PairRevoke, Tick, vars, failures
  <2>2. Admitted(c)' \subseteq Admitted(c)
    BY <2>1 DEF Admitted
  <2>3. \A s \in stamps[c] : s.at \in Nat
    BY <1>0 DEF Stamped
  <2>4. Recent(c, clock)' \subseteq Recent(c, clock)
    BY <1>0, <2>1, <2>3, SessionAssumption DEF Recent
  <2> QED BY <1>0, <2>2, <2>4, LimitShrinks
<1> QED BY <1>1, <1>2, <1>3 DEF Next

LEMMA LimitInit == Init => LimitInv
<1> SUFFICES ASSUME Init, NEW c \in Clients
             PROVE  Cardinality(Recent(c, clock)) + Cardinality(Admitted(c))
                      <= FailureLimit - 1 + Cardinality(Threads)
  BY DEF LimitInv
<1>1. Recent(c, clock) = {} /\ Admitted(c) = {}
  BY DEF Init, Recent, Admitted, Inside
<1>2. Cardinality(Recent(c, clock)) = 0 /\ Cardinality(Admitted(c)) = 0
      /\ Cardinality(Threads) \in Nat /\ FailureLimit \in Nat \ {0}
  BY <1>1, FS_EmptySet, FS_CardinalityType, SessionAssumption
<1> QED BY <1>2

\* The types hold, and no client gets more failures past the limit than there
\* are threads (_auth_rate_limited and _record_auth_failure take the lock apart).
THEOREM TypeTheorem == Spec => []TypeOK
<1>1. Init => BaseInv /\ LimitInv
  BY BaseInit, LimitInit
<1>2. BaseInv /\ LimitInv /\ [Next]_vars => BaseInv' /\ LimitInv'
  BY BaseNext, LimitNext
<1>3. BaseInv /\ LimitInv => TypeOK
  <2> SUFFICES ASSUME BaseInv, LimitInv PROVE TypeOK
    OBVIOUS
  <2>1. ASSUME NEW c \in Clients
        PROVE  Cardinality(Recent(c, clock)) < FailureLimit + Cardinality(Threads)
    <3>1. Stamped /\ clock \in Nat /\ FailureLimit \in Nat
      BY SessionAssumption DEF BaseInv, Threaded
    <3>2. /\ Cardinality(Recent(c, clock)) \in Nat /\ Cardinality(Admitted(c)) \in Nat
          /\ Cardinality(Threads) \in Nat
      BY <3>1, LimitFinite
    <3> QED BY <3>1, <3>2 DEF LimitInv
  <2> QED BY <2>1 DEF TypeOK, BaseInv, Threaded, Paired, Minted, Stamped, Sensible
<1> QED BY <1>1, <1>2, <1>3, PTL DEF Spec

-----------------------------------------------------------------------------
(* Sessions that are over, and pairing tokens that are spent                *)

\* A token that could be presented stays of its kind whatever is created later.
LEMMA KindsStand ==
  ASSUME NEW t \in Bearers, Len(created) \in Nat, Len(created') \in Nat,
         Len(expires) \in Nat, Len(expires') \in Nat
  PROVE  /\ t \in Pairs' => t \in Pairs
         /\ \A s \in SessionIds' : t = -s => s \in SessionIds
         /\ t \in Pairs \cup {Permanent} => \A s \in SessionIds' : t # -s
<1>1. Pairs = 1..Len(created) /\ Pairs' = 1..Len(created')
      /\ SessionIds = 1..Len(expires) /\ SessionIds' = 1..Len(expires')
  BY DEF Pairs, SessionIds
<1>2. Permanent \notin Int /\ Wrong \notin Int
  BY SessionAssumption
<1>3. \A s \in SessionIds \cup SessionIds' : s \in Int /\ s > 0 /\ -s \in Int
  BY <1>1
<1>4. \A k \in Pairs \cup Pairs' : k \in Int /\ k > 0
  BY <1>1
<1> QED BY <1>1, <1>2, <1>3, <1>4 DEF Bearers

\* What every step does to what the requests present and to the sessions' past.
LEMMA PastStands ==
  ASSUME BaseInv, [Next]_vars
  PROVE  /\ Len(created) \in Nat /\ Len(created') \in Nat /\ Len(created) <= Len(created')
         /\ Len(expires) \in Nat /\ Len(expires') \in Nat
         /\ Len(expires) <= Len(expires')
         /\ \A i \in 1..Len(expires) : expires'[i] = expires[i]
<1>0. /\ Len(created) \in Nat /\ Len(expires) \in Nat
  BY DEF BaseInv, Paired, Minted
<1>1. ASSUME NEW p \in Threads, Arrive(p) PROVE UNCHANGED <<created, expires>>
  BY <1>1, RequestFacts DEF pairing, minted
<1>2. CASE PairCreate
  BY <1>0, <1>2, AppendFacts DEF PairCreate, BaseInv, Paired, Threaded, minted
<1>3. CASE PairWrite \/ PairRevoke \/ Tick \/ UNCHANGED vars
  BY <1>0, <1>3 DEF PairWrite, PairRevoke, Tick, vars, pairing, minted
<1>4. ASSUME NEW p \in Threads, Handler(p)
      PROVE  /\ UNCHANGED created
             /\ Len(expires') \in Nat /\ Len(expires) <= Len(expires')
             /\ \A i \in 1..Len(expires) : expires'[i] = expires[i]
  BY <1>4, MintedNext
<1> QED BY <1>0, <1>1, <1>2, <1>3, <1>4 DEF Next

\* The part of the property one request has.
StaysOut(p) ==
  pc[p] = "clear" =>
    /\ Presented(p) \cap job[p].ended = {}
    /\ \A s \in Presented(p) : job[p].entered < expires[s]

\* A request that nothing happens to.
LEMMA StaysOutStays ==
  ASSUME BaseInv, [Next]_vars, NEW p \in Threads, StaysOut(p),
         pc'[p] = pc[p], job'[p] = job[p]
  PROVE  StaysOut(p)'
<1>1. job[p].token \in Bearers
  BY DEF BaseInv, Sensible
<1>2. Presented(p)' \subseteq Presented(p)
  BY <1>1, PastStands, KindsStand DEF Presented
<1>3. \A s \in Presented(p) : expires'[s] = expires[s]
  BY PastStands DEF Presented, SessionIds
<1> QED BY <1>2, <1>3 DEF StaysOut

LEMMA StaysOutNext ==
  ASSUME BaseInv, \A p \in Threads : StaysOut(p), [Next]_vars
  PROVE  \A p \in Threads : StaysOut(p)'
<1>0. /\ job \in [Threads -> Requests] /\ pc \in [Threads -> Points] /\ clock \in Nat
      /\ \A p \in Threads : job[p].token \in Bearers
      /\ {"clear"} \subseteq Points
  BY DEF BaseInv, Threaded, Sensible, Points
<1>1. ASSUME NEW p \in Threads, Arrive(p) PROVE \A q \in Threads : StaysOut(q)'
  <2>1. Others(p) /\ pc'[p] \in {"api", "exchange", "revoke"}
    BY <1>1, RequestFacts
  <2>2. StaysOut(p)'
    BY <2>1 DEF StaysOut
  <2> QED BY <2>1, <2>2, StaysOutStays DEF Others
<1>2. ASSUME NEW p \in Threads, Handler(p) PROVE \A q \in Threads : StaysOut(q)'
  <2>1. Goes(p) /\ UNCHANGED clock
    BY <1>2, GoesNext
  <2>2. Others(p)
    BY <2>1, GoesFacts
  <2>3. ASSUME Goto(p, "clear"), job[p].token \in Pairs \cup {Permanent} PROVE StaysOut(p)'
    <3>1. job'[p].token = job[p].token
      BY <1>0, <2>1, <2>3, GotoFacts DEF Same, BaseInv
    <3>2. Presented(p)' = {}
      BY <1>0, <2>3, <3>1, PastStands, KindsStand DEF Presented
    <3> QED BY <3>2 DEF StaysOut
  <2>4. ASSUME NEW now \in Read(p), Found(p, Unexpired(now) \cap Presented(p)),
               UNCHANGED expires
        PROVE  StaysOut(p)'
    <3>1. CASE Unexpired(now) \cap Presented(p) = {}
      <4>1. Goto(p, "fail") /\ "fail" \in Points
        BY <2>4, <3>1 DEF Found, Points
      <4>2. pc'[p] = "fail"
        BY <2>1, <4>1, GotoFacts DEF BaseInv
      <4> QED BY <4>2 DEF StaysOut
    <3>2. CASE Unexpired(now) \cap Presented(p) # {}
      <4>1. Goto(p, "clear")
        BY <2>4, <3>2 DEF Found
      <4>2. Same(p)
        BY <1>0, <2>1, <4>1, GotoFacts DEF BaseInv
      <4>3. PICK s \in Presented(p) : s \in Unexpired(now)
        BY <3>2
      <4>4. Presented(p)' = Presented(p)
        BY <2>4, <4>2 DEF Presented, SessionIds, Same
      <4>5. Presented(p) = {s}
        <5>1. SessionIds \subseteq Nat
          BY PastStands DEF SessionIds
        <5>2. s \in SessionIds /\ job[p].token = -s
          BY <4>3 DEF Presented
        <5>3. \A t \in Nat : -t = -s => t = s
          BY <5>1, <5>2
        <5> QED BY <5>1, <5>2, <5>3 DEF Presented
      <4>6. s \in sessions /\ now < expires[s]
        <5>1. s \in sessions /\ expires[s] > now
          BY <4>3 DEF Unexpired
        <5>2. s \in DOMAIN expires /\ expires \in Seq(Nat)
          BY <4>3, PastStands DEF Presented, SessionIds, BaseInv, Minted
        <5>3. expires[s] \in Nat /\ now \in Int
          BY <1>0, <5>2 DEF Read, Requests
        <5> QED BY <5>1, <5>3
      <4>7. s \notin job[p].ended
        BY <4>6 DEF BaseInv, Minted, Sensible
      <4>8. job[p].entered < expires[s]
        <5>1. job[p].entered <= job[p].since /\ job[p].since <= now /\ now \in Nat
              /\ job[p].entered \in Nat /\ job[p].since \in Nat
          BY <1>0 DEF BaseInv, Sensible, Read, Requests
        <5>2. expires[s] \in Nat
          BY <4>3, PastStands DEF Presented, SessionIds, BaseInv, Minted
        <5> QED BY <4>6, <5>1, <5>2
      <4> QED BY <2>4, <4>2, <4>4, <4>5, <4>7, <4>8 DEF StaysOut, Same
    <3> QED BY <3>1, <3>2
  <2>5. StaysOut(p)'
    <3>1. CASE Admit(p)
      <4>1. CASE Onward(p) = "clear"
        <5>1. job[p].token = Permanent
          BY <3>1, <4>1 DEF Admit, Onward
        <5> QED BY <2>3, <3>1, <4>1, <5>1 DEF Admit
      <4>2. CASE Onward(p) # "clear"
        <5>1. pc'[p] # "clear"
          BY <1>0, <3>1, <4>2 DEF Admit, Goto
        <5> QED BY <5>1 DEF StaysOut
      <4> QED BY <4>1, <4>2
    <3>2. CASE Lookup(p)
      BY <2>4, <3>2 DEF Lookup
    <3>3. CASE Pop(p)
      BY <2>4, <3>3 DEF Pop
    <3>4. CASE Mint(p)
      <4>1. job[p].token \in Pairs \cup {Permanent} /\ Goto(p, "clear")
        BY <3>4 DEF Mint, BaseInv, Sensible
      <4> QED BY <2>3, <4>1
    <3>5. CASE ~ (Admit(p) \/ Lookup(p) \/ Pop(p) \/ Mint(p))
      <4>1. pc'[p] # "clear"
        BY <1>0, <1>2, <3>5 DEF Handler, Refuse, RecordFailure, ClearFailures, CheckPair,
           StatGone, StatPair, ReadPair, Unlink, UnlinkFails, Goto, Reply, WithoutPair
      <4> QED BY <4>1 DEF StaysOut
    <3> QED BY <3>1, <3>2, <3>3, <3>4, <3>5
  <2> QED BY <2>2, <2>5, StaysOutStays DEF Others
<1>3. CASE PairCreate \/ PairWrite \/ PairRevoke \/ Tick \/ UNCHANGED vars
  <2>1. UNCHANGED <<pc, job>>
    BY <1>3 DEF PairCreate, PairWrite, PairRevoke, Tick, vars
  <2> QED BY <2>1, StaysOutStays
<1> QED BY <1>1, <1>2, <1>3 DEF Next

\* No request is served with a session that was over when it came: what the
\* other threads prune, revoke and exchange meanwhile makes no difference
\* (_is_valid_mobile_session, _pop_mobile_session).
THEOREM SessionsStayOutTheorem == Spec => []SessionsStayOut
<1>1. Init => BaseInv /\ \A p \in Threads : StaysOut(p)
  <2>1. Init => \A p \in Threads : StaysOut(p)
    BY DEF Init, StaysOut
  <2> QED BY <2>1, BaseInit
<1>2. BaseInv /\ (\A p \in Threads : StaysOut(p)) /\ [Next]_vars
        => BaseInv' /\ (\A p \in Threads : StaysOut(p))'
  BY BaseNext, StaysOutNext
<1>3. (\A p \in Threads : StaysOut(p)) => SessionsStayOut
  BY DEF StaysOut, SessionsStayOut
<1> QED BY <1>1, <1>2, <1>3, PTL DEF Spec

\* The file neither holds a token nor is about to: no step brings it back.
Out(k) == pairFile # k /\ ~ (pairFile = Empty /\ Len(created) = k)

\* Between its comparison with the file and its session a request has a token
\* that was not spent when it came.
Spending(p) == pc[p] \in {"unlink", "mint"} => ~ job[p].late

SpentInv ==
  /\ \A k \in spent : Out(k)
  /\ \A p \in Threads : Spending(p)

LEMMA OutStays ==
  ASSUME BaseInv, [Next]_vars, NEW k \in Pairs, Out(k)
  PROVE  Out(k)'
<1>0. /\ Len(created) \in Nat /\ k \in Nat /\ k >= 1 /\ k <= Len(created)
      /\ pairFile \in Int
  BY PastStands DEF Pairs, BaseInv, Paired, Absent, Empty
<1>1. CASE PairCreate
  <2>1. Len(created') = Len(created) + 1 /\ pairFile' = Empty
    BY <1>0, <1>1, AppendFacts DEF PairCreate, BaseInv, Paired, Threaded
  <2> QED BY <1>0, <2>1 DEF Out, Empty
<1>2. CASE PairWrite
  BY <1>0, <1>2 DEF PairWrite, Out, Empty
<1>3. CASE PairRevoke
  BY <1>0, <1>3 DEF PairRevoke, Out, Empty, Absent
<1>4. CASE Tick \/ UNCHANGED vars
  BY <1>4 DEF Tick, vars, pairing, Out
<1>5. ASSUME NEW p \in Threads, Arrive(p) PROVE Out(k)'
  <2>1. UNCHANGED pairing
    BY <1>5, RequestFacts
  <2> QED BY <2>1 DEF pairing, Out
<1>6. ASSUME NEW p \in Threads, Handler(p) PROVE Out(k)'
  <2>1. UNCHANGED created /\ pairFile' \in {pairFile, Absent}
    BY <1>6 DEF Handler, Refuse, Admit, RecordFailure, ClearFailures, Lookup, Pop, CheckPair,
       StatGone, StatPair, ReadPair, Unlink, UnlinkFails, Mint, pairing
  <2> QED BY <1>0, <2>1 DEF Out, Empty, Absent
<1> QED BY <1>1, <1>2, <1>3, <1>4, <1>5, <1>6 DEF Next

\* Only a removal spends a token, and then the file is gone.
LEMMA SpentTokensOut ==
  ASSUME BaseInv, SpentInv, [Next]_vars
  PROVE  \A k \in spent' : Out(k)'
<1>1. ASSUME NEW k \in spent PROVE Out(k)'
  <2>1. k \in Pairs /\ Out(k)
    BY DEF BaseInv, Paired, SpentInv
  <2> QED BY <2>1, OutStays
<1>2. CASE \E p \in Threads : Unlink(p)
  <2>1. PICK p \in Threads : Unlink(p)
    BY <1>2
  <2>2. PICK k : k = job[p].token
    OBVIOUS
  <2>3. k \in Pairs /\ Len(created) \in Nat /\ spent' = spent \cup {k}
    BY <2>1, <2>2, PastStands DEF Unlink, BaseInv, Sensible
  <2>4. Out(k)'
    BY <2>1, <2>3 DEF Unlink, Out, Pairs, Absent, Empty
  <2> QED BY <1>1, <2>3, <2>4
<1>3. CASE ~ \E p \in Threads : Unlink(p)
  <2>1. spent' = spent
    BY <1>3, RequestFacts DEF Next, Handler, Refuse, Admit, RecordFailure, ClearFailures, Lookup,
       Pop, CheckPair, StatGone, StatPair, ReadPair, UnlinkFails, Mint, PairCreate, PairWrite,
       PairRevoke, Tick, vars, pairing
  <2> QED BY <1>1, <2>1
<1> QED BY <1>2, <1>3

LEMMA SpentNext ==
  ASSUME BaseInv, SpentInv, [Next]_vars
  PROVE  SpentInv'
<1>0. /\ BaseInv' /\ \A k \in spent' : Out(k)'
      /\ Threaded /\ Permanent \notin Int
      /\ \A p \in Threads : job[p].late => job[p].token \in spent
      /\ spent \subseteq Pairs /\ Pairs \subseteq Int
  <2>1. Pairs \subseteq Int
    BY PastStands DEF Pairs
  <2> QED BY <2>1, BaseNext, SpentTokensOut, SessionAssumption DEF BaseInv, Sensible, Paired
<1>1. ASSUME NEW p \in Threads, Arrive(p) PROVE \A q \in Threads : Spending(q)'
  <2>1. Others(p) /\ pc'[p] \in {"api", "exchange", "revoke"}
    BY <1>1, RequestFacts
  <2> QED BY <2>1 DEF SpentInv, Spending, Others
<1>2. ASSUME NEW p \in Threads, Handler(p) PROVE \A q \in Threads : Spending(q)'
  <2>1. Goes(p) /\ UNCHANGED clock /\ Others(p)
    BY <1>2, GoesNext, GoesFacts
  <2>2. \A q \in Threads \ {p} : Spending(q)'
    BY <2>1 DEF SpentInv, Spending, Others
  <2>3. CASE ReadPair(p) \/ CheckPair(p) \/ StatPair(p)
    <3>1. PICK point \in Points :
            /\ Goto(p, point)
            /\ point = "unlink" => job[p].token = pairFile
            /\ point = "mint" => job[p].token = Permanent
      BY <2>3 DEF ReadPair, CheckPair, StatPair, WithoutPair, Points
    <3>2. pc'[p] = point /\ (point # "fail" => Same(p))
      BY <1>0, <2>1, <3>1, GotoFacts
    <3>3. point \in {"unlink", "mint"} => job[p].token \notin spent
      BY <1>0, <3>1 DEF SpentInv, Out
    <3>4. Spending(p)'
      BY <1>0, <3>2, <3>3 DEF Spending, Same
    <3> QED BY <2>2, <3>4
  <2>4. CASE Unlink(p) \/ UnlinkFails(p)
    <3>1. Goto(p, "mint") /\ pc[p] = "unlink" /\ "mint" \in Points
      BY <2>4 DEF Unlink, UnlinkFails, Points
    <3>2. Same(p)
      BY <1>0, <2>1, <3>1, GotoFacts
    <3>3. Spending(p)'
      BY <3>1, <3>2 DEF SpentInv, Spending, Same
    <3> QED BY <2>2, <3>3
  <2>5. CASE ~ (CheckPair(p) \/ StatPair(p) \/ ReadPair(p) \/ Unlink(p) \/ UnlinkFails(p))
    <3>1. pc'[p] \notin {"unlink", "mint"}
      BY <1>0, <1>2, <2>5, OnwardFacts DEF Handler, Refuse, Admit, RecordFailure, ClearFailures,
         Lookup, Pop, Found, StatGone, Mint, Goto, Reply, Threaded
    <3>2. Spending(p)'
      BY <3>1 DEF Spending
    <3> QED BY <2>2, <3>2
  <2> QED BY <2>3, <2>4, <2>5
<1>3. CASE PairCreate \/ PairWrite \/ PairRevoke \/ Tick \/ UNCHANGED vars
  <2>1. UNCHANGED <<pc, job>>
    BY <1>3 DEF PairCreate, PairWrite, PairRevoke, Tick, vars
  <2>2. \A q \in Threads : Spending(q)'
    BY <2>1 DEF SpentInv, Spending
  <2> QED BY <1>0, <2>2 DEF SpentInv
<1> QED BY <1>0, <1>1, <1>2, <1>3 DEF Next, SpentInv

\* A request makes no session of a pairing token that an exchange had removed when
\* it came, however the command line has replaced and removed the file since
\* (_exchange_mobile_session reads the path, removes it, then makes the session).
THEOREM PairTokenStaysSpentTheorem == Spec => []PairTokenStaysSpent
<1>1. Init => BaseInv /\ SpentInv
  <2>1. Init => SpentInv
    BY DEF Init, SpentInv, Spending
  <2> QED BY <2>1, BaseInit
<1>2. BaseInv /\ SpentInv /\ [Next]_vars => BaseInv' /\ SpentInv'
  BY BaseNext, SpentNext
<1>3. SpentInv => PairTokenStaysSpent
  BY DEF SpentInv, Spending, PairTokenStaysSpent
<1> QED BY <1>1, <1>2, <1>3, PTL DEF Spec
=============================================================================
