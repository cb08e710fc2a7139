------------------------- MODULE GrantLedgerProofs -------------------------
(***************************************************************************)
(* Proofs about GrantLedger for every set of callers, grants and requests  *)
(* and every bound: type correctness, exclusion in the consuming critical  *)
(* section, at most one handler execution per grant, each of them backed   *)
(* by lines of the ledger for the very request it served, revocations      *)
(* honoured by every call that enters after them, no run outside the life  *)
(* of its grant, and the ledger as an implementation of SingleUseGrant.    *)
(***************************************************************************)
EXTENDS GrantLedger, TLAPS

-----------------------------------------------------------------------------
(* The ledger as a sequence *)

LEMMA AppendFacts ==
  ASSUME NEW S, NEW s \in Seq(S), NEW e \in S
  PROVE  /\ Append(s, e) \in Seq(S)
         /\ Len(s) \in Nat
         /\ DOMAIN s = 1..Len(s)
         /\ Len(Append(s, e)) = Len(s) + 1
         /\ DOMAIN Append(s, e) = 1..(Len(s) + 1)
         /\ \A i \in 1..Len(s) : Append(s, e)[i] = s[i]
         /\ Append(s, e)[Len(s) + 1] = e
OBVIOUS

\* What one write may do to the file, whatever fault it meets.
LEMMA WrittenFacts ==
  ASSUME TypeOK, NEW e \in Events, Written(e)
  PROVE  /\ events' \in Seq(Events)
         /\ ending' \in {"line", "open", "broken"}
         /\ faults' \in Nat
         /\ \/ events' = Append(events, e)
            \/ events' = events /\ ending' = "broken"
         /\ ending = "broken" => ending' = "broken"
<1>1. /\ events \in Seq(Events) /\ faults \in Nat
      /\ ending \in {"line", "open", "broken"}
  BY DEF TypeOK
<1>2. Append(events, e) \in Seq(Events)
  BY <1>1, AppendFacts
<1>3. \/ /\ events' = Append(events, e)
         /\ ending = "line" /\ ending' \in {"line", "open"}
      \/ events' = events /\ ending' = "broken"
  <2>1. CASE ending = "line"
    BY <2>1 DEF Written
  <2>2. CASE ending # "line"
    BY <2>2 DEF Written
  <2> QED BY <2>1, <2>2
<1>4. faults' = faults \/ faults' = faults + 1
  BY DEF Written
<1> QED
  BY <1>1, <1>2, <1>3, <1>4

\* Grant ids are drawn once, so a grant has at most one "issued" line.
IssuedOnce ==
  \A i, j \in DOMAIN events :
    /\ events[i].type = "issued"
    /\ events[j].type = "issued"
    /\ events[i].grant = events[j].grant
    => i = j

LEMMA FirstIssued ==
  ASSUME NEW s, NEW n \in Nat, DOMAIN s = 1..n, NEW g,
         \A i, j \in 1..n :
           /\ s[i].type = "issued" /\ s[j].type = "issued"
           /\ s[i].grant = s[j].grant
           => i = j,
         NEW i \in 1..n, s[i].type = "issued", s[i].grant = g
  PROVE  s[CHOOSE k \in DOMAIN s :
             /\ s[k].type = "issued"
             /\ s[k].grant = g
             /\ \A j \in 1..(k - 1) : ~(s[j].type = "issued" /\ s[j].grant = g)] = s[i]
<1> DEFINE First(k) == /\ s[k].type = "issued"
                       /\ s[k].grant = g
                       /\ \A j \in 1..(k - 1) : ~(s[j].type = "issued" /\ s[j].grant = g)
<1>1. First(i)
  OBVIOUS
<1>2. \A k \in DOMAIN s : First(k) => k = i
  OBVIOUS
<1>3. (CHOOSE k \in DOMAIN s : First(k)) = i
  <2> HIDE DEF First
  <2> QED BY <1>1, <1>2
<1> QED
  BY <1>3

LEMMA IssuedEventFacts ==
  ASSUME TypeOK, IssuedOnce, NEW g \in Grants, Recorded("issued", g)
  PROVE  /\ IssuedEvent(g) \in Events
         /\ IssuedEvent(g).type = "issued"
         /\ IssuedEvent(g).grant = g
         /\ \A i \in DOMAIN events :
              events[i].type = "issued" /\ events[i].grant = g => IssuedEvent(g) = events[i]
<1>1. PICK i \in DOMAIN events : events[i].type = "issued" /\ events[i].grant = g
  BY DEF Recorded
<1>2. DOMAIN events = 1..Len(events) /\ Len(events) \in Nat
  BY DEF TypeOK
<1>3. \A k \in DOMAIN events :
        events[k].type = "issued" /\ events[k].grant = g => IssuedEvent(g) = events[k]
  BY <1>2, FirstIssued DEF IssuedEvent, IssuedOnce
<1>4. events[i] \in Events
  BY <1>1, <1>2 DEF TypeOK
<1> QED
  BY <1>1, <1>3, <1>4

-----------------------------------------------------------------------------
(* Timestamps *)

LEMMA WholeSecondsType ==
  ASSUME NEW t \in Nat
  PROVE  WholeSeconds(t) \in Nat /\ WholeSeconds(t) <= t
BY TimeAssumption DEF WholeSeconds

LEMMA BoundedTtlType ==
  ASSUME NEW ttl \in Int \cup {NoTtl}
  PROVE  BoundedTtl(ttl) \in 0..MaxTtl
BY TimeAssumption DEF BoundedTtl

LEMMA ExpiresAtType ==
  ASSUME NEW now \in Nat, NEW ttl \in Int \cup {NoTtl}
  PROVE  ExpiresAt(now, ttl) \in Nat /\ ExpiresAt(now, ttl) <= now + MaxTtl * SecondTicks
<1>1. PICK b \in 0..MaxTtl : b = BoundedTtl(ttl)
  BY BoundedTtlType
<1>2. b * SecondTicks \in Nat /\ b * SecondTicks <= MaxTtl * SecondTicks
  BY TimeAssumption
<1>3. now + b * SecondTicks \in Nat
  BY <1>2
<1>4. ExpiresAt(now, ttl) = WholeSeconds(now + b * SecondTicks)
  BY <1>1 DEF ExpiresAt
<1>5. MaxTtl * SecondTicks \in Nat
  BY TimeAssumption
<1> QED
  BY <1>2, <1>3, <1>4, <1>5, WholeSecondsType

-----------------------------------------------------------------------------
(* Type correctness needs to know what a caller at each point holds *)

CallersOK ==
  \A p \in Procs :
    /\ pc[p] # "idle" => job[p].call \in Calls
    /\ pc[p] \in Locked \cup {"lock", "run"} => job[p].call.action = "consume"
    /\ pc[p] = "issue" => /\ job[p].call.action = "issue"
                         /\ job[p].grant \in drawn
                         /\ ~ Recorded("issued", job[p].grant)
    /\ pc[p] \in {"revoke", "consume", "confirm", "permit", "run"} =>
         /\ job[p].grant \in Grants
         /\ Recorded("issued", job[p].grant)

IssuesDistinct ==
  \A p, q \in Procs :
    pc[p] = "issue" /\ pc[q] = "issue" /\ job[p].grant = job[q].grant => p = q

IssuedDrawn ==
  \A i \in DOMAIN events : events[i].type = "issued" => events[i].grant \in drawn

BaseInv == /\ TypeOK
           /\ CallersOK
           /\ IssuesDistinct
           /\ IssuedDrawn
           /\ IssuedOnce

LEMMA CallTypes ==
  ASSUME NEW call \in Calls
  PROVE  /\ call \in Calls \cup {NoCall}
         /\ call.grant \in Grants \cup {NoGrant}
         /\ call.action \in {"issue", "check", "revoke", "consume"}
         /\ call.action = "issue" => /\ call.request \in Requests
                                     /\ call.ttl \in Int \cup {NoTtl}
         /\ call.action = "consume" => call.request \in Requests
BY CallAssumption DEF AllCalls

\* A grant recorded as issued stays so, with the same line.
LEMMA IssuedStable ==
  ASSUME TypeOK, NEW e \in Events,
         events' = events \/ events' = Append(events, e),
         NEW g, NEW type, Recorded(type, g)
  PROVE  Recorded(type, g)'
<1>1. /\ events \in Seq(Events) /\ DOMAIN events = 1..Len(events) /\ Len(events) \in Nat
  BY DEF TypeOK
<1>2. PICK i \in DOMAIN events : events[i].type = type /\ events[i].grant = g
  BY DEF Recorded
<1>3. i \in DOMAIN events' /\ events'[i] = events[i]
  <2>1. CASE events' = events
    BY <2>1
  <2>2. CASE events' = Append(events, e)
    BY <2>2, <1>1, AppendFacts
  <2> QED BY <2>1, <2>2
<1> QED
  BY <1>2, <1>3 DEF Recorded

LEMMA BaseInit == Init => BaseInv
<1> SUFFICES ASSUME Init PROVE BaseInv
  OBVIOUS
<1>1. NoJob \in Jobs
  BY DEF NoJob, Jobs
<1>2. TypeOK
  <2>1. events \in Seq(Events)
        /\ runs \in Seq([grant : Grants, request : Requests, now : Nat, seen : Nat])
    BY DEF Init
  <2>2. pc \in [Procs -> Points] /\ job \in [Procs -> Jobs]
    BY <1>1 DEF Init, Points
  <2> QED
    BY <2>1, <2>2 DEF Init, TypeOK
<1>3. DOMAIN events = {}
  BY DEF Init
<1> QED
  BY <1>2, <1>3
     DEF Init, BaseInv, CallersOK, IssuesDistinct, IssuedDrawn, IssuedOnce, Locked

LEMMA BaseNext == BaseInv /\ [Next]_vars => BaseInv'
<1> SUFFICES ASSUME BaseInv, [Next]_vars
             PROVE  BaseInv'
  OBVIOUS
<1> USE DEF BaseInv
<1>b. ASSUME NEW p \in Procs, NEW call \in Calls, Begin(p, call)
      PROVE  BaseInv'
  <2>1. TypeOK'
    BY <1>b, CallTypes DEF Begin, TypeOK, Jobs, Goto, Points, File, World
  <2>2. UNCHANGED <<events, drawn>>
    BY <1>b DEF Begin, File, World
  <2>3. CallersOK'
    BY <1>b, <2>2 DEF Begin, CallersOK, TypeOK, Goto, Locked, Recorded
  <2>4. IssuesDistinct'
    BY <1>b DEF Begin, IssuesDistinct, TypeOK, Goto
  <2> QED
    BY <2>1, <2>2, <2>3, <2>4 DEF IssuedDrawn, IssuedOnce
<1>li. ASSUME NEW p \in Procs, LoadIssue(p)
       PROVE  BaseInv'
  <2>1. PICK g \in Grants \ drawn : /\ drawn' = drawn \cup {g}
                                   /\ job' = [job EXCEPT ![p].grant = g]
    BY <1>li DEF LoadIssue
  <2>2. UNCHANGED events /\ pc' = [pc EXCEPT ![p] = "issue"] /\ pc[p] = "load"
        /\ job[p].call.action = "issue"
    BY <1>li DEF LoadIssue, File, Goto
  <2>3. TypeOK'
    BY <1>li, <2>1, <2>2 DEF LoadIssue, TypeOK, Jobs, Points, File
  <2>4. CallersOK'
    BY <2>1, <2>2 DEF CallersOK, TypeOK, Locked, Recorded, IssuedDrawn, Jobs
  <2>5. IssuesDistinct'
    BY <2>1, <2>2 DEF CallersOK, IssuesDistinct, TypeOK, Jobs
  <2> QED
    BY <2>1, <2>2, <2>3, <2>4, <2>5 DEF IssuedDrawn, IssuedOnce
\* Steps of one caller that leave the ledger and the drawn ids alone.
<1>q. ASSUME NEW p \in Procs, UNCHANGED <<events, drawn>>, TypeOK',
             \/ job' = job /\ pc' = [pc EXCEPT ![p] = pc'[p]]
                /\ pc[p] # "idle" /\ pc'[p] # "issue"
                /\ (pc'[p] \in Locked \cup {"lock", "run"} => job[p].call.action = "consume")
                /\ (pc'[p] \in {"revoke", "consume", "confirm", "permit", "run"} =>
                      job[p].grant \in Grants /\ Recorded("issued", job[p].grant))
             \/ Return(p)
      PROVE  BaseInv'
  <2>1. CallersOK'
    BY <1>q DEF CallersOK, TypeOK, Locked, Recorded, Return, Goto
  <2>2. IssuesDistinct'
    BY <1>q DEF IssuesDistinct, TypeOK, Return, Goto
  <2> QED
    BY <1>q, <2>1, <2>2 DEF IssuedDrawn, IssuedOnce
<1>lr. ASSUME NEW p \in Procs, LoadRevoke(p)
       PROVE  BaseInv'
  <2>1. TypeOK'
    BY <1>lr DEF LoadRevoke, TypeOK, Goto, Points, File, World
  <2>2. job[p].grant \in Grants /\ Recorded("issued", job[p].grant)
    <3>1. Recorded("issued", job[p].grant)
      BY <1>lr DEF LoadRevoke, CanRevoke
    <3>2. PICK i \in DOMAIN events : events[i].grant = job[p].grant
      BY <3>1 DEF Recorded
    <3>3. events[i] \in Events
      BY <3>2 DEF TypeOK
    <3> QED BY <3>1, <3>2, <3>3 DEF Events
  <2> QED
    BY <1>lr, <1>q, <2>1, <2>2 DEF LoadRevoke, Goto, File, World, Locked, TypeOK
<1>lc. ASSUME NEW p \in Procs, LoadConsume(p)
       PROVE  BaseInv'
  <2>1. TypeOK'
    BY <1>lc DEF LoadConsume, TypeOK, Goto, Points, File, World
  <2> QED
    BY <1>lc, <1>q, <2>1 DEF LoadConsume, Goto, File, World, Locked, TypeOK
<1>ret. ASSUME NEW p \in Procs,
               LoadReturn(p) \/ Reread(p) \/ LockTaken(p) \/ ReleaseRefused(p)
        PROVE  BaseInv'
  <2>1. Return(p) /\ UNCHANGED <<events, drawn>>
    BY <1>ret DEF LoadReturn, Reread, LockTaken, ReleaseRefused, File, World
  <2>2. NoJob \in Jobs
    BY DEF NoJob, Jobs
  <2>3. TypeOK'
    BY <1>ret, <2>1, <2>2
       DEF LoadReturn, Reread, LockTaken, ReleaseRefused, File, World, Return, Goto, TypeOK, Points
  <2> QED
    BY <1>q, <2>1, <2>3
<1>ap. ASSUME NEW p \in Procs, NEW e \in Events, e.type # "issued",
              Written(e), pc[p] \in {"revoke", "consume"},
              pc' = [pc EXCEPT ![p] = IF pc[p] = "revoke" THEN "reread" ELSE "confirm"],
              UNCHANGED <<lockFile, World, job>>
       PROVE  BaseInv'
  <2>1. TypeOK'
    BY <1>ap, WrittenFacts DEF TypeOK, Points, Locked, World
  <2>2. /\ events \in Seq(Events) /\ DOMAIN events = 1..Len(events) /\ Len(events) \in Nat
        /\ \/ events' = events
           \/ events' = Append(events, e)
    BY <1>ap, WrittenFacts DEF TypeOK
  <2>3. \A i \in DOMAIN events' : events'[i].type = "issued" =>
          i \in DOMAIN events /\ events'[i] = events[i]
    BY <1>ap, <2>2, AppendFacts
  <2>4. \A g : Recorded("issued", g)' <=> Recorded("issued", g)
    BY <2>2, <2>3, <1>ap, IssuedStable DEF Recorded
  <2>5. CallersOK'
    BY <1>ap, <2>4 DEF CallersOK, TypeOK, Locked, World
  <2>6. IssuesDistinct'
    BY <1>ap DEF IssuesDistinct, TypeOK
  <2>7. IssuedDrawn' /\ IssuedOnce'
    BY <1>ap, <2>3 DEF IssuedDrawn, IssuedOnce, World
  <2> QED
    BY <2>1, <2>5, <2>6, <2>7
<1>ra. ASSUME NEW p \in Procs, RevokeAppend(p)
       PROVE  BaseInv'
  <2> DEFINE e == [IssuedEvent(job[p].grant) EXCEPT !.type = "revoked"]
  <2>1. IssuedEvent(job[p].grant) \in Events
    BY <1>ra, IssuedEventFacts DEF RevokeAppend, CallersOK
  <2>2. e \in Events /\ e.type # "issued"
    BY <2>1 DEF Events, EventTypes
  <2> QED
    BY <1>ra, <1>ap, <2>2 DEF RevokeAppend, Goto
<1>ca. ASSUME NEW p \in Procs, ConsumeAppend(p)
       PROVE  BaseInv'
  <2> DEFINE e == [IssuedEvent(job[p].grant) EXCEPT !.type = "consumed"]
  <2>1. IssuedEvent(job[p].grant) \in Events
    BY <1>ca, IssuedEventFacts DEF ConsumeAppend, CallersOK
  <2>2. e \in Events /\ e.type # "issued"
    BY <2>1 DEF Events, EventTypes
  <2> QED
    BY <1>ca, <1>ap, <2>2 DEF ConsumeAppend, Goto
<1>ia. ASSUME NEW p \in Procs, IssueAppend(p)
       PROVE  BaseInv'
  <2> DEFINE e == [type |-> "issued", grant |-> job[p].grant,
                   request |-> job[p].call.request, at |-> job[p].now,
                   expires |-> ExpiresAt(job[p].now, job[p].call.ttl)]
  <2>1. pc[p] = "issue" /\ Written(e) /\ pc' = [pc EXCEPT ![p] = "reread"]
        /\ UNCHANGED <<lockFile, World, job>>
    BY <1>ia DEF IssueAppend, Goto
  <2>2. /\ job[p].grant \in Grants /\ job[p].grant \in drawn
        /\ ~ Recorded("issued", job[p].grant)
        /\ job[p].call.request \in Requests
        /\ job[p].call.ttl \in Int \cup {NoTtl}
        /\ job[p].now \in Nat
    BY <2>1, CallTypes DEF CallersOK, TypeOK, Jobs
  <2>3. e \in Events
    BY <2>2, ExpiresAtType DEF Events, EventTypes
  <2>4. e.type = "issued" /\ e.grant = job[p].grant
    OBVIOUS
  <2> HIDE DEF e
  <2>5. TypeOK'
    BY <2>1, <2>3, WrittenFacts DEF TypeOK, Points, World
  <2>6. /\ events \in Seq(Events) /\ DOMAIN events = 1..Len(events) /\ Len(events) \in Nat
        /\ \/ events' = events
           \/ events' = Append(events, e)
    BY <2>1, <2>3, WrittenFacts DEF TypeOK
  <2>7. \A i \in DOMAIN events' : events'[i].type = "issued" =>
          \/ i \in DOMAIN events /\ events'[i] = events[i]
          \/ i = Len(events) + 1 /\ events'[i] = e
    BY <2>3, <2>6, AppendFacts
  <2>8. \A g : Recorded("issued", g) => Recorded("issued", g)'
    BY <2>3, <2>6, IssuedStable
  <2>9. \A g : Recorded("issued", g)' => Recorded("issued", g) \/ g = job[p].grant
    BY <2>4, <2>7 DEF Recorded
  <2>10. CallersOK'
    BY <2>1, <2>2, <2>8, <2>9 DEF CallersOK, TypeOK, Locked, World, IssuesDistinct
  <2>11. IssuesDistinct'
    BY <2>1 DEF IssuesDistinct, TypeOK
  <2>12. IssuedDrawn'
    BY <2>1, <2>2, <2>4, <2>7 DEF IssuedDrawn, World
  <2>13. IssuedOnce'
    BY <2>2, <2>4, <2>7 DEF IssuedOnce, Recorded
  <2> QED
    BY <2>5, <2>10, <2>11, <2>12, <2>13
<1>lk. ASSUME NEW p \in Procs, Lock(p)
       PROVE  BaseInv'
  <2>1. TypeOK'
    BY <1>lk DEF Lock, TypeOK, Goto, Points, Locked, File, World
  <2> QED
    BY <1>lk, <1>q, <2>1 DEF Lock, Goto, File, World, Locked, TypeOK, CallersOK
<1>de. ASSUME NEW p \in Procs, Decide(p)
       PROVE  BaseInv'
  <2>1. TypeOK'
    BY <1>de DEF Decide, TypeOK, Goto, Points, Locked, File, World
  <2>2. CanConsume(p) => job[p].grant \in Grants /\ Recorded("issued", job[p].grant)
    BY DEF CanConsume, Active, TypeOK, Jobs
  <2> QED
    BY <1>de, <1>q, <2>1, <2>2 DEF Decide, Goto, File, World, Locked, TypeOK, CallersOK
<1>co. ASSUME NEW p \in Procs, Confirm(p)
       PROVE  BaseInv'
  <2>1. TypeOK'
    BY <1>co DEF Confirm, TypeOK, Goto, Points, Locked, File, World
  <2> QED
    BY <1>co, <1>q, <2>1 DEF Confirm, Goto, File, World, Locked, TypeOK, CallersOK
<1>rp. ASSUME NEW p \in Procs, ReleasePermitted(p)
       PROVE  BaseInv'
  <2>1. NoJob \in Jobs
    BY DEF NoJob, Jobs
  <2>2. TypeOK'
    BY <1>rp, <2>1 DEF ReleasePermitted, TypeOK, Goto, Return, Points, Locked, File, World
  <2>3. UNCHANGED <<events, drawn>>
    BY <1>rp DEF ReleasePermitted, File, World
  <2>4. CASE Return(p)
    BY <1>q, <2>2, <2>3, <2>4
  <2>5. CASE pc' = [pc EXCEPT ![p] = "run"] /\ UNCHANGED job
    BY <1>rp, <1>q, <2>2, <2>3, <2>5 DEF ReleasePermitted, Locked, TypeOK, CallersOK
  <2> QED
    BY <1>rp, <2>4, <2>5 DEF ReleasePermitted, Goto
<1>rh. ASSUME NEW p \in Procs, RunHandler(p)
       PROVE  BaseInv'
  <2>1. NoJob \in Jobs
    BY DEF NoJob, Jobs
  <2>2. job[p].grant \in Grants /\ job[p].call.request \in Requests
        /\ job[p].now \in Nat /\ job[p].seen \in Nat
    BY <1>rh, CallTypes DEF RunHandler, CallersOK, TypeOK, Jobs
  <2>3. runs' \in Seq([grant : Grants, request : Requests, now : Nat, seen : Nat])
    BY <1>rh, <2>2 DEF RunHandler, TypeOK
  <2>4. TypeOK'
    BY <1>rh, <2>1, <2>3 DEF RunHandler, TypeOK, Goto, Return, Points, File
  <2> QED
    BY <1>rh, <1>q, <2>4 DEF RunHandler, File
<1>wf. ASSUME NEW p \in Procs, WriteFails(p)
       PROVE  BaseInv'
  <2>1. NoJob \in Jobs
    BY DEF NoJob, Jobs
  <2>2. TypeOK'
    BY <1>wf, <2>1 DEF WriteFails, TypeOK, Goto, Return, Points, Locked, File, World
  <2>3. UNCHANGED <<events, drawn>>
    BY <1>wf DEF WriteFails, File, World
  <2>4. CASE Return(p)
    BY <1>q, <2>2, <2>3, <2>4
  <2>5. CASE pc[p] = "consume" /\ pc' = [pc EXCEPT ![p] = "refuse"] /\ UNCHANGED job
    BY <1>q, <2>2, <2>3, <2>5 DEF Locked, TypeOK, CallersOK
  <2> QED
    BY <1>wf, <2>4, <2>5 DEF WriteFails, Goto
<1>cr. ASSUME NEW h \in Hosts, Crash(h)
       PROVE  BaseInv'
  <2>1. NoJob \in Jobs
    BY DEF NoJob, Jobs
  <2>2. \A q \in Procs : \/ pc'[q] = "idle" /\ job'[q] = NoJob
                         \/ pc'[q] = pc[q] /\ job'[q] = job[q]
    BY <1>cr DEF Crash
  <2>3. TypeOK'
    BY <1>cr, <2>1 DEF Crash, TypeOK, Points, File
  <2>4. UNCHANGED <<events, drawn>>
    BY <1>cr DEF Crash, File
  <2>5. CallersOK'
    BY <2>2, <2>4 DEF CallersOK, Locked, Recorded
  <2>6. IssuesDistinct'
    BY <2>2 DEF IssuesDistinct
  <2> QED
    BY <2>3, <2>4, <2>5, <2>6 DEF IssuedDrawn, IssuedOnce
<1>tk. ASSUME Tick \/ UNCHANGED vars
       PROVE  BaseInv'
  <2>1. UNCHANGED <<events, drawn, pc, job>>
    BY <1>tk DEF Tick, vars, File
  <2>2. TypeOK'
    BY <1>tk DEF Tick, vars, File, TypeOK
  <2> QED
    BY <2>1, <2>2 DEF CallersOK, IssuesDistinct, IssuedDrawn, IssuedOnce, Recorded
<1> QED
  BY <1>b, <1>li, <1>lr, <1>lc, <1>ret, <1>ra, <1>ca, <1>ia, <1>lk, <1>de, <1>co,
     <1>rp, <1>rh, <1>wf, <1>cr, <1>tk DEF Next, Proceed

\* The shapes TypeOK gives every variable hold in every state.
THEOREM TypeCorrect == Spec => []TypeOK
<1>1. BaseInv => TypeOK
  BY DEF BaseInv
<1> QED
  BY BaseInit, BaseNext, <1>1, PTL DEF Spec

-----------------------------------------------------------------------------
(* The consuming critical section *)

LEMMA LockNext == TypeOK /\ LockExclusive /\ [Next]_vars => LockExclusive'
<1> SUFFICES ASSUME TypeOK, LockExclusive, [Next]_vars
             PROVE  LockExclusive'
  OBVIOUS
<1> USE DEF TypeOK, LockExclusive, Locked, Goto, Return
<1>1. ASSUME NEW p \in Procs, NEW call \in Calls, Begin(p, call)
      PROVE  LockExclusive'
  BY <1>1 DEF Begin
<1>2. ASSUME NEW p \in Procs,
             LoadIssue(p) \/ LoadRevoke(p) \/ LoadConsume(p) \/ LoadReturn(p)
      PROVE  LockExclusive'
  BY <1>2 DEF LoadIssue, LoadRevoke, LoadConsume, LoadReturn
<1>3. ASSUME NEW p \in Procs, IssueAppend(p) \/ RevokeAppend(p) \/ Reread(p)
      PROVE  LockExclusive'
  BY <1>3 DEF IssueAppend, RevokeAppend, Reread
<1>4. ASSUME NEW p \in Procs, Lock(p) \/ LockTaken(p)
      PROVE  LockExclusive'
  BY <1>4 DEF Lock, LockTaken
<1>5. ASSUME NEW p \in Procs, Decide(p) \/ ConsumeAppend(p) \/ Confirm(p)
      PROVE  LockExclusive'
  <2>1. /\ pc[p] \in Locked /\ pc'[p] \in Locked /\ UNCHANGED lockFile
        /\ \A q \in Procs \ {p} : pc'[q] = pc[q]
    BY <1>5 DEF Decide, ConsumeAppend, Confirm
  <2> QED BY <2>1
<1>6. ASSUME NEW p \in Procs, ReleaseRefused(p) \/ ReleasePermitted(p)
      PROVE  LockExclusive'
  <2>1. /\ pc[p] \in Locked /\ pc'[p] \notin Locked
        /\ \A q \in Procs \ {p} : pc'[q] = pc[q]
    BY <1>6 DEF ReleaseRefused, ReleasePermitted
  <2> QED BY <2>1
<1>7. ASSUME NEW p \in Procs, RunHandler(p) \/ WriteFails(p)
      PROVE  LockExclusive'
  BY <1>7 DEF RunHandler, WriteFails
<1>8. ASSUME NEW h \in Hosts, Crash(h)
      PROVE  LockExclusive'
  BY <1>8 DEF Crash
<1>9. CASE Tick \/ UNCHANGED vars
  BY <1>9 DEF Tick, vars
<1> QED
  BY <1>1, <1>2, <1>3, <1>4, <1>5, <1>6, <1>7, <1>8, <1>9 DEF Next, Proceed

\* Callers are never together between _with_lock and _release_lock, however
\* often one of them is killed there.
THEOREM LockExclusiveTheorem == Spec => []LockExclusive
<1>1. Init => LockExclusive
  BY DEF Init, LockExclusive, Locked
<1> QED
  BY <1>1, LockNext, TypeCorrect, PTL DEF Spec

-----------------------------------------------------------------------------
(* A ticket is the right to run one handler: a caller holds one from the   *)
(* moment its "consumed" line is readable until it has run the handler.    *)

HasTicket(p) ==
  \/ pc[p] \in {"permit", "run"}
  \/ pc[p] = "confirm" /\ ending # "broken"

Ran(g) == \E i \in DOMAIN runs : runs[i].grant = g

Deciding ==
  \A p \in Procs : pc[p] = "consume" =>
    /\ ~ Recorded("consumed", job[p].grant)
    /\ \A i \in DOMAIN events :
         events[i].type = "issued" /\ events[i].grant = job[p].grant =>
           events[i].request = job[p].call.request

Tickets ==
  \A p \in Procs : HasTicket(p) =>
    /\ Backed(job[p].grant, job[p].call.request)
    /\ ~ Ran(job[p].grant)

TicketsDistinct ==
  \A p, q \in Procs :
    HasTicket(p) /\ HasTicket(q) /\ job[p].grant = job[q].grant => p = q

LedgerInv == /\ Deciding
             /\ Tickets
             /\ TicketsDistinct
             /\ AtMostOnce
             /\ RunsAreRecorded

LEMMA BackedStable ==
  ASSUME TypeOK, NEW e \in Events,
         events' = events \/ events' = Append(events, e),
         NEW g, NEW r, Backed(g, r)
  PROVE  Backed(g, r)'
<1>1. /\ events \in Seq(Events) /\ DOMAIN events = 1..Len(events) /\ Len(events) \in Nat
  BY DEF TypeOK
<1>2. \A i \in DOMAIN events : i \in DOMAIN events' /\ events'[i] = events[i]
  <2>1. CASE events' = events
    BY <2>1
  <2>2. CASE events' = Append(events, e)
    BY <2>2, <1>1, AppendFacts
  <2> QED BY <2>1, <2>2
<1>3. PICK k, m \in DOMAIN events :
        /\ k < m
        /\ events[k].type = "issued"
        /\ events[m].type = "consumed"
        /\ \A n \in {k, m} : events[n].grant = g /\ events[n].request = r
  BY DEF Backed
<1> QED
  BY <1>2, <1>3 DEF Backed

LEMMA BackedConsumed ==
  ASSUME NEW g, NEW r, Backed(g, r)
  PROVE  Recorded("consumed", g)
BY DEF Backed, Recorded

LEMMA LedgerInit == Init => LedgerInv
<1> SUFFICES ASSUME Init PROVE LedgerInv
  OBVIOUS
<1>1. DOMAIN events = {} /\ DOMAIN runs = {} /\ \A p \in Procs : pc[p] = "idle"
  BY DEF Init
<1> QED
  BY <1>1 DEF LedgerInv, Deciding, Tickets, TicketsDistinct, HasTicket, AtMostOnce,
              RunsAreRecorded

LEMMA LedgerNext ==
  BaseInv /\ LockExclusive /\ LedgerInv /\ [Next]_vars /\ BaseInv' => LedgerInv'
<1> SUFFICES ASSUME BaseInv, LockExclusive, LedgerInv, [Next]_vars, BaseInv'
             PROVE  LedgerInv'
  OBVIOUS
<1> DEFINE OthersStay(p) == \A q \in Procs \ {p} : pc'[q] = pc[q] /\ job'[q] = job[q]
<1>t. TypeOK
  BY DEF BaseInv
\* A caller moves without touching the file or running a handler.
<1>q. ASSUME NEW p \in Procs, UNCHANGED <<events, ending, runs>>, OthersStay(p),
             pc'[p] = "consume" =>
               /\ ~ Recorded("consumed", job'[p].grant)
               /\ \A i \in DOMAIN events :
                    events[i].type = "issued" /\ events[i].grant = job'[p].grant =>
                      events[i].request = job'[p].call.request,
             HasTicket(p)' => HasTicket(p) /\ job'[p] = job[p]
      PROVE  LedgerInv'
  <2>1. \A r \in Procs : HasTicket(r)' => HasTicket(r) /\ job'[r] = job[r]
    BY <1>q DEF HasTicket
  <2>2. Deciding'
    BY <1>q DEF LedgerInv, Deciding, Recorded
  <2>3. Tickets'
    BY <1>q, <2>1 DEF LedgerInv, Tickets, Backed, Ran
  <2>4. TicketsDistinct'
    BY <2>1 DEF LedgerInv, TicketsDistinct
  <2>5. AtMostOnce' /\ RunsAreRecorded'
    BY <1>q DEF LedgerInv, AtMostOnce, RunsAreRecorded, Backed
  <2> QED
    BY <2>2, <2>3, <2>4, <2>5 DEF LedgerInv
<1>idle. ASSUME NEW p \in Procs, Return(p) \/ (Goto(p, "refuse") /\ UNCHANGED job),
                UNCHANGED <<events, ending, runs>>
         PROVE  LedgerInv'
  <2>1. OthersStay(p) /\ pc'[p] \in {"idle", "refuse"}
    BY <1>idle, <1>t DEF Return, Goto, TypeOK
  <2> QED
    BY <1>idle, <1>q, <2>1 DEF HasTicket
<1>1. ASSUME NEW p \in Procs, NEW call \in Calls, Begin(p, call)
      PROVE  LedgerInv'
  <2>1. OthersStay(p) /\ pc'[p] = "load" /\ UNCHANGED <<events, ending, runs>>
    BY <1>1, <1>t DEF Begin, Goto, TypeOK, File, World
  <2> QED
    BY <1>q, <2>1 DEF HasTicket
<1>2. ASSUME NEW p \in Procs, LoadIssue(p) \/ LoadRevoke(p) \/ LoadConsume(p) \/ Lock(p)
      PROVE  LedgerInv'
  <2>1. OthersStay(p) /\ pc'[p] \in {"issue", "revoke", "lock", "decide"}
        /\ UNCHANGED <<events, ending, runs>>
    BY <1>2, <1>t DEF LoadIssue, LoadRevoke, LoadConsume, Lock, Goto, TypeOK, File, World
  <2> QED
    BY <1>q, <2>1 DEF HasTicket
<1>3. ASSUME NEW p \in Procs,
             LoadReturn(p) \/ Reread(p) \/ LockTaken(p) \/ ReleaseRefused(p) \/ WriteFails(p)
      PROVE  LedgerInv'
  <2>1. UNCHANGED <<events, ending, runs>>
        /\ (Return(p) \/ (Goto(p, "refuse") /\ UNCHANGED job))
    <3>1. UNCHANGED <<events, ending, runs>>
      BY <1>3 DEF LoadReturn, Reread, LockTaken, ReleaseRefused, WriteFails, File, World
    <3>2. Return(p) \/ (Goto(p, "refuse") /\ UNCHANGED job)
      <4>1. CASE LoadReturn(p)
        BY <4>1 DEF LoadReturn, Return, Goto
      <4>2. CASE Reread(p)
        BY <4>2 DEF Reread, Return, Goto
      <4>3. CASE LockTaken(p)
        BY <4>3 DEF LockTaken, Return, Goto
      <4>4. CASE ReleaseRefused(p)
        BY <4>4 DEF ReleaseRefused, Return, Goto
      <4>5. CASE WriteFails(p)
        BY <4>5 DEF WriteFails, Return, Goto
      <4> QED BY <1>3, <4>1, <4>2, <4>3, <4>4, <4>5
    <3> QED BY <3>1, <3>2
  <2> QED
    BY <1>idle, <2>1
<1>4. ASSUME NEW p \in Procs, Decide(p)
      PROVE  LedgerInv'
  <2>1. OthersStay(p) /\ pc'[p] = (IF CanConsume(p) THEN "consume" ELSE "refuse")
        /\ UNCHANGED <<events, ending, runs, job>>
    BY <1>4, <1>t DEF Decide, Goto, TypeOK, File, World
  <2>2. CanConsume(p) =>
          /\ ~ Recorded("consumed", job[p].grant)
          /\ \A i \in DOMAIN events :
               events[i].type = "issued" /\ events[i].grant = job[p].grant =>
                 events[i].request = job[p].call.request
    <3> SUFFICES ASSUME CanConsume(p)
                 PROVE  /\ ~ Recorded("consumed", job[p].grant)
                        /\ \A i \in DOMAIN events :
                             events[i].type = "issued" /\ events[i].grant = job[p].grant =>
                               events[i].request = job[p].call.request
      OBVIOUS
    <3>1. /\ Active(job[p].grant, job[p].now)
          /\ IssuedEvent(job[p].grant).request = job[p].call.request
      BY DEF CanConsume, ExactMatch
    <3>2. /\ job[p].grant \in Grants
          /\ Recorded("issued", job[p].grant) /\ ~ Recorded("consumed", job[p].grant)
      BY <1>t, <3>1 DEF Active, TypeOK, Jobs
    <3> QED
      BY <3>1, <3>2, IssuedEventFacts DEF BaseInv
  <2> QED
    BY <1>q, <2>1, <2>2 DEF HasTicket
<1>5. ASSUME NEW p \in Procs, Confirm(p)
      PROVE  LedgerInv'
  <2>1. OthersStay(p) /\ pc[p] = "confirm"
        /\ pc'[p] = (IF ending = "broken" THEN "refuse" ELSE "permit")
        /\ UNCHANGED <<events, ending, runs, job>>
    BY <1>5, <1>t DEF Confirm, Goto, TypeOK, File, World
  <2> QED
    BY <1>q, <2>1 DEF HasTicket
<1>6. ASSUME NEW p \in Procs, ReleasePermitted(p)
      PROVE  LedgerInv'
  <2>1. pc[p] = "permit" /\ UNCHANGED <<events, ending, runs>>
        /\ (Return(p) \/ (Goto(p, "run") /\ UNCHANGED job))
    <3>1. UNCHANGED <<events, ending, runs>>
      BY <1>6 DEF ReleasePermitted, File, World
    <3>2. Return(p) \/ (Goto(p, "run") /\ UNCHANGED job)
      <4>1. CASE job[p].call.handler
        BY <1>6, <4>1 DEF ReleasePermitted, Return, Goto
      <4>2. CASE ~ job[p].call.handler
        BY <1>6, <4>2 DEF ReleasePermitted, Return, Goto
      <4> QED BY <4>1, <4>2
    <3>3. pc[p] = "permit"
      BY <1>6 DEF ReleasePermitted
    <3> QED BY <3>1, <3>2, <3>3
  <2>2. CASE Return(p)
    BY <1>idle, <2>1, <2>2
  <2>3. CASE Goto(p, "run") /\ UNCHANGED job
    <3>1. OthersStay(p) /\ pc'[p] = "run"
      BY <2>3, <1>t DEF Goto, TypeOK
    <3> QED
      BY <1>q, <2>1, <2>3, <3>1 DEF HasTicket
  <2> QED BY <2>1, <2>2, <2>3
\* An append of an event that consumes nothing.
<1>a. ASSUME NEW p \in Procs, NEW e \in Events, e.type # "consumed", Written(e),
             pc' = [pc EXCEPT ![p] = "reread"], UNCHANGED <<job, runs>>
      PROVE  LedgerInv'
  <2>1. /\ events \in Seq(Events) /\ DOMAIN events = 1..Len(events) /\ Len(events) \in Nat
        /\ (events' = events \/ events' = Append(events, e))
        /\ ending = "broken" => ending' = "broken"
    BY <1>a, <1>t, WrittenFacts DEF TypeOK
  <2>2. OthersStay(p) /\ pc'[p] = "reread"
    BY <1>a, <1>t DEF TypeOK
  <2>3. \A g : Recorded("consumed", g)' => Recorded("consumed", g)
    <3>1. \A i \in DOMAIN events' : events'[i].type = "consumed" =>
            i \in DOMAIN events /\ events'[i] = events[i]
      BY <1>a, <2>1, AppendFacts
    <3> QED BY <3>1 DEF Recorded
  <2>4. Deciding'
    <3> SUFFICES ASSUME NEW q \in Procs, pc'[q] = "consume"
                 PROVE  /\ ~ Recorded("consumed", job[q].grant)'
                        /\ \A i \in DOMAIN events' :
                             events'[i].type = "issued" /\ events'[i].grant = job'[q].grant =>
                               events'[i].request = job'[q].call.request
      BY DEF Deciding
    <3>1. pc[q] = "consume" /\ job'[q] = job[q]
      BY <1>a, <2>2
    <3>2. PICK k \in DOMAIN events :
            events[k].type = "issued" /\ events[k].grant = job[q].grant
      BY <3>1 DEF BaseInv, CallersOK, Recorded
    <3>3. k \in DOMAIN events' /\ events'[k] = events[k]
      BY <2>1, <3>2, AppendFacts
    <3>4. \A i \in DOMAIN events' :
            events'[i].type = "issued" /\ events'[i].grant = job'[q].grant => i = k
      BY <3>1, <3>2, <3>3 DEF BaseInv, IssuedOnce
    <3>5. events[k].request = job[q].call.request
      BY <3>1, <3>2 DEF LedgerInv, Deciding
    <3>6. ~ Recorded("consumed", job[q].grant)
      BY <3>1 DEF LedgerInv, Deciding
    <3>7. ~ Recorded("consumed", job[q].grant)'
      BY <2>3, <3>1, <3>6 DEF Recorded
    <3> QED
      BY <3>1, <3>3, <3>4, <3>5, <3>7
  <2>5. \A r \in Procs : HasTicket(r)' => HasTicket(r) /\ job'[r] = job[r]
    BY <1>a, <2>1, <2>2 DEF HasTicket
  <2>6. \A g, r : Backed(g, r) => Backed(g, r)'
    BY <1>t, <2>1, BackedStable
  <2>7. Tickets'
    BY <1>a, <2>5, <2>6 DEF LedgerInv, Tickets, Ran
  <2>8. TicketsDistinct'
    BY <2>5 DEF LedgerInv, TicketsDistinct
  <2>9. AtMostOnce' /\ RunsAreRecorded'
    BY <1>a, <2>6 DEF LedgerInv, AtMostOnce, RunsAreRecorded
  <2> QED
    BY <2>4, <2>7, <2>8, <2>9 DEF LedgerInv
<1>7. ASSUME NEW p \in Procs, IssueAppend(p)
      PROVE  LedgerInv'
  <2> DEFINE e == [type |-> "issued", grant |-> job[p].grant,
                   request |-> job[p].call.request, at |-> job[p].now,
                   expires |-> ExpiresAt(job[p].now, job[p].call.ttl)]
  <2>1. pc[p] = "issue" /\ Written(e) /\ pc' = [pc EXCEPT ![p] = "reread"]
        /\ UNCHANGED <<job, runs>>
    BY <1>7 DEF IssueAppend, Goto, World
  <2>2. /\ job[p].grant \in Grants
        /\ job[p].call.request \in Requests
        /\ job[p].call.ttl \in Int \cup {NoTtl}
        /\ job[p].now \in Nat
    BY <1>t, <2>1, CallTypes DEF BaseInv, CallersOK, TypeOK, Jobs
  <2>3. e \in Events /\ e.type # "consumed"
    BY <2>2, ExpiresAtType DEF Events, EventTypes
  <2> QED
    BY <1>a, <2>1, <2>3
<1>8. ASSUME NEW p \in Procs, RevokeAppend(p)
      PROVE  LedgerInv'
  <2> DEFINE e == [IssuedEvent(job[p].grant) EXCEPT !.type = "revoked"]
  <2>1. IssuedEvent(job[p].grant) \in Events
    BY <1>8, <1>t, IssuedEventFacts DEF RevokeAppend, BaseInv, CallersOK
  <2>2. e \in Events /\ e.type # "consumed"
    BY <2>1 DEF Events, EventTypes
  <2> QED
    BY <1>8, <1>a, <2>2 DEF RevokeAppend, Goto, World
<1>9. ASSUME NEW p \in Procs, ConsumeAppend(p)
      PROVE  LedgerInv'
  <2> DEFINE g == job[p].grant
             r == job[p].call.request
             e == [IssuedEvent(g) EXCEPT !.type = "consumed"]
  <2>1. /\ pc[p] = "consume" /\ Written(e) /\ pc' = [pc EXCEPT ![p] = "confirm"]
        /\ UNCHANGED <<job, runs>>
    BY <1>9 DEF ConsumeAppend, Goto, World
  <2>2. g \in Grants /\ Recorded("issued", g)
    BY <2>1 DEF BaseInv, CallersOK
  <2>3. PICK k \in DOMAIN events : events[k].type = "issued" /\ events[k].grant = g
    BY <2>2 DEF Recorded
  <2>4. IssuedEvent(g) = events[k] /\ events[k] \in Events /\ events[k].request = r
    BY <1>t, <2>1, <2>2, <2>3, IssuedEventFacts DEF BaseInv, LedgerInv, Deciding, TypeOK
  <2>5. e \in Events /\ e.type = "consumed" /\ e.grant = g /\ e.request = r
    BY <2>3, <2>4 DEF Events, EventTypes
  <2>6. ~ Recorded("consumed", g)
    BY <2>1 DEF LedgerInv, Deciding
  <2> HIDE DEF e
  <2>7. /\ events \in Seq(Events) /\ DOMAIN events = 1..Len(events) /\ Len(events) \in Nat
        /\ \/ events' = Append(events, e)
           \/ events' = events /\ ending' = "broken"
        /\ ending = "broken" => ending' = "broken"
    BY <1>t, <2>1, <2>5, WrittenFacts DEF TypeOK
  <2>8. OthersStay(p) /\ pc'[p] = "confirm"
    BY <2>1, <1>t DEF TypeOK
  \* The critical section keeps every other caller from deciding.
  <2>9. \A q \in Procs : pc'[q] # "consume"
    <3>1. \A q \in Procs : pc[q] = "consume" => q = p
      BY <2>1 DEF LockExclusive, Locked
    <3> QED BY <2>8, <3>1
  \* No other ticket for this grant exists: its "consumed" line would be there.
  <2>10. \A q \in Procs : HasTicket(q) => job[q].grant # g
    BY <2>6, BackedConsumed DEF LedgerInv, Tickets
  <2>11. ~ Ran(g)
    BY <2>6, BackedConsumed DEF LedgerInv, RunsAreRecorded, Ran
  <2>12. \A q \in Procs : HasTicket(q)' => q = p \/ HasTicket(q)
    BY <2>7, <2>8 DEF HasTicket
  <2>13. HasTicket(p)' => Backed(g, r)'
    <3> SUFFICES ASSUME ending' # "broken" PROVE Backed(g, r)'
      BY <2>8 DEF HasTicket
    <3>1. /\ events' = Append(events, e)
          /\ DOMAIN events' = 1..(Len(events) + 1)
          /\ events'[k] = events[k]
          /\ events'[Len(events) + 1] = e
          /\ k \in 1..Len(events)
      BY <2>3, <2>5, <2>7, AppendFacts
    <3> QED
      BY <2>1, <2>3, <2>4, <2>5, <2>7, <3>1 DEF Backed
  <2>14. \A x, y : Backed(x, y) => Backed(x, y)'
    BY <1>t, <2>5, <2>7, BackedStable
  <2>15. Tickets'
    <3> SUFFICES ASSUME NEW q \in Procs, HasTicket(q)'
                 PROVE  /\ Backed(job[q].grant, job[q].call.request)'
                        /\ ~ Ran(job[q].grant)'
      BY DEF Tickets
    <3>1. job'[q] = job[q] /\ runs' = runs
      BY <2>1
    <3>2. CASE q = p
      BY <2>1, <2>11, <2>13, <3>1, <3>2 DEF Ran, Backed
    <3>3. CASE q # p
      BY <2>12, <2>14, <3>1, <3>3 DEF LedgerInv, Tickets, Ran
    <3> QED BY <3>2, <3>3
  <2>16. TicketsDistinct'
    BY <2>1, <2>10, <2>12 DEF LedgerInv, TicketsDistinct
  <2>17. AtMostOnce' /\ RunsAreRecorded'
    BY <2>1, <2>14 DEF LedgerInv, AtMostOnce, RunsAreRecorded
  <2> QED
    BY <2>9, <2>15, <2>16, <2>17 DEF LedgerInv, Deciding
<1>10. ASSUME NEW p \in Procs, RunHandler(p)
       PROVE  LedgerInv'
  <2> DEFINE R == [grant : Grants, request : Requests, now : Nat, seen : Nat]
             e == [grant |-> job[p].grant, request |-> job[p].call.request,
                   now |-> job[p].now, seen |-> job[p].seen]
  <2>1. pc[p] = "run" /\ runs' = Append(runs, e) /\ UNCHANGED <<events, ending>>
    BY <1>10 DEF RunHandler, File
  <2>2. OthersStay(p) /\ pc'[p] = "idle"
    BY <1>10, <1>t DEF RunHandler, Return, Goto, TypeOK
  <2>3. HasTicket(p)
    BY <2>1 DEF HasTicket
  <2>4. Backed(e.grant, e.request) /\ ~ Ran(e.grant)
    BY <2>3 DEF LedgerInv, Tickets
  <2>5. e \in R
    BY <1>t, <2>1, CallTypes DEF BaseInv, CallersOK, TypeOK, Jobs, Locked
  <2>6. e.grant = job[p].grant
    OBVIOUS
  <2> HIDE DEF e
  <2>7. /\ DOMAIN runs = 1..Len(runs) /\ Len(runs) \in Nat
        /\ DOMAIN runs' = 1..(Len(runs) + 1)
        /\ \A i \in 1..Len(runs) : runs'[i] = runs[i]
        /\ runs'[Len(runs) + 1] = e
    <3>1. runs \in Seq(R)
      BY <1>t DEF TypeOK
    <3> HIDE DEF R
    <3> QED BY <2>1, <2>5, <3>1, AppendFacts
  <2>8. \A q \in Procs : HasTicket(q)' =>
          HasTicket(q) /\ q # p /\ job'[q] = job[q] /\ job[q].grant # e.grant
    BY <2>1, <2>2, <2>3, <2>6 DEF HasTicket, LedgerInv, TicketsDistinct
  <2>9. Tickets'
    BY <2>1, <2>7, <2>8 DEF LedgerInv, Tickets, Backed, Ran
  <2>10. TicketsDistinct'
    BY <2>8 DEF LedgerInv, TicketsDistinct
  <2>11. AtMostOnce'
    BY <2>4, <2>7 DEF LedgerInv, AtMostOnce, Ran
  <2>12. RunsAreRecorded'
    <3>1. \A x, y : Backed(x, y)' <=> Backed(x, y)
      BY <2>1 DEF Backed
    <3> QED
      BY <2>4, <2>7, <3>1 DEF LedgerInv, RunsAreRecorded
  <2>13. Deciding'
    BY <2>1, <2>2 DEF LedgerInv, Deciding, Recorded
  <2> QED
    BY <2>9, <2>10, <2>11, <2>12, <2>13 DEF LedgerInv
<1>11. ASSUME NEW h \in Hosts, Crash(h)
       PROVE  LedgerInv'
  <2>1. \A q \in Procs : \/ pc'[q] = "idle"
                         \/ pc'[q] = pc[q] /\ job'[q] = job[q]
    BY <1>11 DEF Crash
  <2>2. UNCHANGED <<events, ending, runs>>
    BY <1>11 DEF Crash, File
  <2>3. \A q \in Procs : HasTicket(q)' => HasTicket(q) /\ job'[q] = job[q]
    BY <2>1, <2>2 DEF HasTicket
  <2>4. Deciding'
    BY <2>1, <2>2 DEF LedgerInv, Deciding, Recorded
  <2>5. Tickets' /\ TicketsDistinct'
    BY <2>2, <2>3 DEF LedgerInv, Tickets, TicketsDistinct, Backed, Ran
  <2>6. AtMostOnce' /\ RunsAreRecorded'
    BY <2>2 DEF LedgerInv, AtMostOnce, RunsAreRecorded, Backed
  <2> QED
    BY <2>4, <2>5, <2>6 DEF LedgerInv
<1>12. CASE Tick \/ UNCHANGED vars
  <2>1. UNCHANGED <<events, ending, runs, pc, job>>
    BY <1>12 DEF Tick, vars, File
  <2> QED
    BY <2>1 DEF LedgerInv, Deciding, Tickets, TicketsDistinct, AtMostOnce, RunsAreRecorded,
                HasTicket, Backed, Ran, Recorded
<1> QED
  BY <1>1, <1>2, <1>3, <1>4, <1>5, <1>6, <1>7, <1>8, <1>9, <1>10, <1>11, <1>12
     DEF Next, Proceed

LEMMA LedgerAlways == Spec => [](BaseInv /\ LockExclusive /\ LedgerInv)
<1>1. Init => LockExclusive
  BY DEF Init, LockExclusive, Locked
<1>2. BaseInv => TypeOK
  BY DEF BaseInv
<1> QED
  BY <1>1, <1>2, BaseInit, BaseNext, LockNext, LedgerInit, LedgerNext, PTL DEF Spec

\* A grant never runs a handler twice.
THEOREM AtMostOnceTheorem == Spec => []AtMostOnce
<1>1. LedgerInv => AtMostOnce
  BY DEF LedgerInv
<1> QED
  BY <1>1, LedgerAlways, PTL

\* Every handler execution is backed by readable issued and consumed lines for
\* the very request it served.
THEOREM RunsAreRecordedTheorem == Spec => []RunsAreRecorded
<1>1. LedgerInv => RunsAreRecorded
  BY DEF LedgerInv
<1> QED
  BY <1>1, LedgerAlways, PTL

-----------------------------------------------------------------------------
(* The steps by what they do to the file, the clock and the callers: most of *)
(* them only move callers, and three append a line.                          *)

Kept == {"consume", "confirm", "permit", "run"}

Quiet ==
  /\ UNCHANGED <<events, runs, drawn, clock>>
  /\ \A q \in Procs :
       \/ /\ job'[q] = job[q]
          /\ pc'[q] = "issue" => pc[q] = "issue"
          /\ pc'[q] \in Kept => pc[q] \in Kept
       \/ job'[q] = NoJob /\ pc'[q] = "idle"

Appends(p, e) ==
  /\ e \in Events
  /\ Written(e)
  /\ e.grant = job[p].grant
  /\ \/ /\ e.type = "issued" /\ pc[p] = "issue"
        /\ e.request = job[p].call.request
        /\ e.at = job[p].now /\ e.expires <= e.at + MaxTtl * SecondTicks
     \/ e.type = "revoked" /\ pc[p] = "revoke"
     \/ e.type = "consumed" /\ pc[p] = "consume"
  /\ pc' = [pc EXCEPT ![p] = IF pc[p] = "consume" THEN "confirm" ELSE "reread"]
  /\ UNCHANGED <<job, runs, drawn, clock>>

LEMMA Appending ==
  ASSUME BaseInv, NEW p \in Procs, IssueAppend(p) \/ RevokeAppend(p) \/ ConsumeAppend(p)
  PROVE  \E e \in Events : Appends(p, e)
<1> USE DEF BaseInv
<1>1. CASE IssueAppend(p)
  <2> DEFINE e == [type |-> "issued", grant |-> job[p].grant,
                   request |-> job[p].call.request, at |-> job[p].now,
                   expires |-> ExpiresAt(job[p].now, job[p].call.ttl)]
  <2>1. pc[p] = "issue" /\ Written(e) /\ pc' = [pc EXCEPT ![p] = "reread"]
        /\ UNCHANGED <<job, runs, drawn, clock>>
    BY <1>1 DEF IssueAppend, Goto, World
  <2>2. /\ job[p].grant \in Grants
        /\ job[p].call.request \in Requests
        /\ job[p].call.ttl \in Int \cup {NoTtl}
        /\ job[p].now \in Nat
    BY <2>1, CallTypes DEF CallersOK, TypeOK, Jobs
  <2>3. e \in Events /\ e.expires <= e.at + MaxTtl * SecondTicks
    BY <2>2, ExpiresAtType DEF Events, EventTypes
  <2>4. Appends(p, e)
    BY <2>1, <2>3 DEF Appends
  <2> QED BY <2>3, <2>4
<1>2. CASE RevokeAppend(p) \/ ConsumeAppend(p)
  <2> DEFINE type == IF pc[p] = "revoke" THEN "revoked" ELSE "consumed"
             e == [IssuedEvent(job[p].grant) EXCEPT !.type = type]
  <2>1. /\ pc[p] \in {"revoke", "consume"} /\ Written(e)
        /\ pc' = [pc EXCEPT ![p] = IF pc[p] = "consume" THEN "confirm" ELSE "reread"]
        /\ UNCHANGED <<job, runs, drawn, clock>>
    <3>1. CASE RevokeAppend(p)
      BY <3>1 DEF RevokeAppend, Goto, World
    <3>2. CASE ConsumeAppend(p)
      BY <3>2 DEF ConsumeAppend, Goto, World
    <3> QED BY <1>2, <3>1, <3>2
  <2>2. IssuedEvent(job[p].grant) \in Events /\ IssuedEvent(job[p].grant).grant = job[p].grant
    BY <2>1, IssuedEventFacts DEF CallersOK
  <2>3. e \in Events /\ e.grant = job[p].grant /\ e.type = type
    BY <2>2 DEF Events, EventTypes
  <2> HIDE DEF e
  <2>4. Appends(p, e)
    BY <2>1, <2>3 DEF Appends
  <2> QED BY <2>3, <2>4
<1> QED BY <1>1, <1>2

LEMMA Steps ==
  ASSUME TypeOK, [Next]_vars
  PROVE  \/ \E p \in Procs, call \in Calls : Begin(p, call)
         \/ \E p \in Procs : LoadIssue(p) \/ Decide(p) \/ RunHandler(p)
         \/ \E p \in Procs : IssueAppend(p) \/ RevokeAppend(p) \/ ConsumeAppend(p)
         \/ Tick
         \/ Quiet
<1> USE DEF Kept, Return, Goto, File, World
<1>1. ASSUME NEW p \in Procs, LoadRevoke(p) \/ LoadConsume(p) \/ LoadReturn(p)
      PROVE  Quiet
  BY <1>1 DEF LoadRevoke, LoadConsume, LoadReturn, TypeOK, Quiet
<1>2. ASSUME NEW p \in Procs, Reread(p) \/ Lock(p) \/ LockTaken(p)
      PROVE  Quiet
  BY <1>2 DEF Reread, Lock, LockTaken, TypeOK, Quiet
<1>3. ASSUME NEW p \in Procs, Confirm(p) \/ ReleaseRefused(p) \/ ReleasePermitted(p)
      PROVE  Quiet
  BY <1>3 DEF Confirm, ReleaseRefused, ReleasePermitted, TypeOK, Quiet
<1>4. ASSUME NEW p \in Procs, WriteFails(p)
      PROVE  Quiet
  BY <1>4 DEF WriteFails, TypeOK, Quiet
<1>5. ASSUME NEW h \in Hosts, Crash(h)
      PROVE  Quiet
  BY <1>5 DEF Crash, TypeOK, Quiet
<1>6. UNCHANGED vars => Quiet
  BY DEF vars, Quiet
<1> QED
  BY <1>1, <1>2, <1>3, <1>4, <1>5, <1>6 DEF Next, Proceed

-----------------------------------------------------------------------------
(* Revocations: what a consuming call saw when it entered                  *)

SeenRecorded ==
  /\ \A p \in Procs : job[p].seen <= Len(events)
  /\ \A i \in DOMAIN runs : runs[i].seen <= Len(events)

KeptUnrevoked ==
  \A p \in Procs : pc[p] \in Kept =>
    \A k \in DOMAIN events :
      k <= job[p].seen /\ events[k].type = "revoked" => events[k].grant # job[p].grant

RevocationInv == SeenRecorded /\ KeptUnrevoked /\ RevocationHonoured

-----------------------------------------------------------------------------
(* Lifetimes: a grant can only be named once it was drawn, so that whoever *)
(* names it entered after the call that issued it.                         *)

EnteredBefore ==
  \A p \in Procs : job[p].now <= clock /\ job[p].grant \in drawn \cup {NoGrant}

IssuedBounded ==
  \A k \in DOMAIN events : events[k].type = "issued" =>
    events[k].at <= clock /\ events[k].expires <= events[k].at + MaxTtl * SecondTicks

IssuerFirst ==
  \A p \in Procs : job[p].call.action # "issue" =>
    /\ \A q \in Procs : pc[q] = "issue" /\ job[q].grant = job[p].grant => job[q].now <= job[p].now
    /\ \A k \in DOMAIN events :
         events[k].type = "issued" /\ events[k].grant = job[p].grant => events[k].at <= job[p].now

KeptAlive ==
  \A p \in Procs : pc[p] \in Kept =>
    \A k \in DOMAIN events :
      events[k].type = "issued" /\ events[k].grant = job[p].grant => job[p].now < events[k].expires

LifetimeInv == /\ EnteredBefore
               /\ IssuedBounded
               /\ IssuerFirst
               /\ KeptAlive
               /\ RunsWithinLifetime

-----------------------------------------------------------------------------

\* A step of the file: it stays, or grows by one line.
LEMMA FileGrows ==
  ASSUME BaseInv, NEW p \in Procs, NEW e \in Events, Appends(p, e)
  PROVE  /\ Len(events) \in Nat /\ DOMAIN events = 1..Len(events)
         /\ \/ /\ events' = events
               /\ Len(events') = Len(events) /\ DOMAIN events' = 1..Len(events)
            \/ /\ Len(events') = Len(events) + 1 /\ DOMAIN events' = 1..(Len(events) + 1)
               /\ \A i \in 1..Len(events) : events'[i] = events[i]
               /\ events'[Len(events) + 1] = e
<1>1. TypeOK /\ Written(e)
  BY DEF BaseInv, Appends
<1>2. events \in Seq(Events)
  BY <1>1 DEF TypeOK
<1>3. events' = events \/ events' = Append(events, e)
  BY <1>1, WrittenFacts
<1> QED
  BY <1>2, <1>3, AppendFacts

LEMMA RunGrows ==
  ASSUME BaseInv, NEW p \in Procs, RunHandler(p)
  PROVE  /\ pc[p] = "run" /\ job[p].grant \in Grants
         /\ Len(runs) \in Nat /\ DOMAIN runs = 1..Len(runs)
         /\ DOMAIN runs' = 1..(Len(runs) + 1)
         /\ \A i \in 1..Len(runs) : runs'[i] = runs[i]
         /\ runs'[Len(runs) + 1].grant = job[p].grant
         /\ runs'[Len(runs) + 1].request = job[p].call.request
         /\ runs'[Len(runs) + 1].now = job[p].now
         /\ runs'[Len(runs) + 1].seen = job[p].seen
         /\ UNCHANGED <<events, drawn, clock>>
         /\ pc'[p] = "idle" /\ job'[p] = NoJob
         /\ \A q \in Procs \ {p} : pc'[q] = pc[q] /\ job'[q] = job[q]
<1> DEFINE R == [grant : Grants, request : Requests, now : Nat, seen : Nat]
           e == [grant |-> job[p].grant, request |-> job[p].call.request,
                 now |-> job[p].now, seen |-> job[p].seen]
<1>1. /\ pc[p] = "run" /\ runs' = Append(runs, e) /\ UNCHANGED <<events, drawn, clock>>
      /\ pc'[p] = "idle" /\ job'[p] = NoJob
      /\ \A q \in Procs \ {p} : pc'[q] = pc[q] /\ job'[q] = job[q]
  BY DEF RunHandler, File, Return, Goto, BaseInv, TypeOK
<1>2. e \in R /\ job[p].grant \in Grants
  BY <1>1, CallTypes DEF BaseInv, CallersOK, TypeOK, Jobs, Locked
<1>3. runs \in Seq(R)
  BY DEF BaseInv, TypeOK
<1>4. /\ e.grant = job[p].grant /\ e.request = job[p].call.request
      /\ e.now = job[p].now /\ e.seen = job[p].seen
  OBVIOUS
<1> HIDE DEF e, R
<1>5. /\ DOMAIN runs = 1..Len(runs) /\ Len(runs) \in Nat
      /\ DOMAIN runs' = 1..(Len(runs) + 1)
      /\ \A i \in 1..Len(runs) : runs'[i] = runs[i]
      /\ runs'[Len(runs) + 1] = e
  BY <1>1, <1>2, <1>3, AppendFacts
<1> QED
  BY <1>1, <1>2, <1>4, <1>5

LEMMA RunTypes ==
  ASSUME TypeOK, NEW i \in DOMAIN runs
  PROVE  runs[i].grant \in Grants /\ runs[i].now \in Nat /\ runs[i].seen \in Nat
<1> DEFINE R == [grant : Grants, request : Requests, now : Nat, seen : Nat]
<1>1. runs \in Seq(R)
  BY DEF TypeOK
<1>2. runs[i] \in R
  <2> HIDE DEF R
  <2> QED BY <1>1
<1> QED BY <1>2

LEMMA RevocationInit == Init => RevocationInv
<1> SUFFICES ASSUME Init PROVE RevocationInv
  OBVIOUS
<1>1. Len(events) = 0 /\ DOMAIN runs = {} /\ \A p \in Procs : pc[p] = "idle" /\ job[p].seen = 0
  BY DEF Init, NoJob
<1> QED
  BY <1>1 DEF RevocationInv, SeenRecorded, KeptUnrevoked, RevocationHonoured, Kept

LEMMA RevocationNext == BaseInv /\ RevocationInv /\ [Next]_vars => RevocationInv'
<1> SUFFICES ASSUME BaseInv, RevocationInv, [Next]_vars
             PROVE  RevocationInv'
  OBVIOUS
<1> USE DEF RevocationInv
<1>t. TypeOK /\ Len(events) \in Nat /\ DOMAIN events = 1..Len(events)
      /\ \A q \in Procs : job[q].seen \in Nat
  BY DEF BaseInv, TypeOK, Jobs
<1>1. ASSUME NEW p \in Procs, NEW call \in Calls, Begin(p, call)
      PROVE  RevocationInv'
  <2>1. /\ UNCHANGED <<events, runs>> /\ pc'[p] = "load" /\ job'[p].seen <= Len(events)
        /\ \A q \in Procs \ {p} : pc'[q] = pc[q] /\ job'[q] = job[q]
    BY <1>1, <1>t DEF Begin, Goto, TypeOK, File, World
  <2> QED
    BY <2>1 DEF SeenRecorded, KeptUnrevoked, RevocationHonoured, Kept
<1>2. ASSUME NEW p \in Procs, LoadIssue(p)
      PROVE  RevocationInv'
  <2>1. /\ UNCHANGED <<events, runs>> /\ pc'[p] = "issue" /\ job'[p].seen = job[p].seen
        /\ \A q \in Procs \ {p} : pc'[q] = pc[q] /\ job'[q] = job[q]
    BY <1>2, <1>t DEF LoadIssue, Goto, TypeOK, Jobs, File
  <2> QED
    BY <2>1 DEF SeenRecorded, KeptUnrevoked, RevocationHonoured, Kept
\* The decision reads the ledger again: no revocation is in it, seen or not.
<1>3. ASSUME NEW p \in Procs, Decide(p)
      PROVE  RevocationInv'
  <2>1. /\ UNCHANGED <<events, runs, job>>
        /\ pc'[p] = "consume" => ~ Recorded("revoked", job[p].grant)
        /\ pc'[p] \in Kept => pc'[p] = "consume"
        /\ \A q \in Procs \ {p} : pc'[q] = pc[q]
    BY <1>3, <1>t DEF Decide, CanConsume, Active, Goto, TypeOK, File, World, Kept
  <2> QED
    BY <2>1 DEF SeenRecorded, KeptUnrevoked, RevocationHonoured, Recorded
\* A line that is appended was seen by nobody who has entered.
<1>4. ASSUME NEW p \in Procs, NEW e \in Events, Appends(p, e)
      PROVE  RevocationInv'
  <2>1. UNCHANGED <<job, runs>> /\ \A q \in Procs : pc'[q] \in Kept => pc[q] \in Kept
    BY <1>4, <1>t DEF Appends, Kept, TypeOK
  <2>2. \A i \in DOMAIN runs : runs[i].seen \in Nat
    BY <1>t, RunTypes
  <2>3. /\ Len(events') \in Nat /\ Len(events) <= Len(events')
        /\ DOMAIN events' = 1..Len(events')
        /\ \A k \in DOMAIN events' : k <= Len(events) => k \in DOMAIN events /\ events'[k] = events[k]
    BY <1>4, <1>t, FileGrows
  <2>4. SeenRecorded'
    BY <1>t, <2>1, <2>2, <2>3 DEF SeenRecorded
  <2>5. KeptUnrevoked'
    BY <1>t, <2>1, <2>3 DEF KeptUnrevoked, SeenRecorded
  <2>6. RevocationHonoured'
    BY <1>t, <2>1, <2>2, <2>3 DEF RevocationHonoured, SeenRecorded
  <2> QED BY <2>4, <2>5, <2>6
<1>5. ASSUME NEW p \in Procs, RunHandler(p)
      PROVE  RevocationInv'
  <2>1. /\ UNCHANGED events /\ pc[p] \in Kept /\ pc'[p] \notin Kept /\ job'[p].seen = 0
        /\ \A q \in Procs \ {p} : pc'[q] = pc[q] /\ job'[q] = job[q]
    BY <1>5, <1>t, RunGrows DEF TypeOK, NoJob, Kept
  <2>2. /\ DOMAIN runs = 1..Len(runs) /\ Len(runs) \in Nat
        /\ DOMAIN runs' = 1..(Len(runs) + 1)
        /\ \A i \in 1..Len(runs) : runs'[i] = runs[i]
        /\ runs'[Len(runs) + 1].grant = job[p].grant
        /\ runs'[Len(runs) + 1].seen = job[p].seen
    BY <1>5, RunGrows
  <2>3. SeenRecorded'
    BY <1>t, <2>1, <2>2 DEF SeenRecorded
  <2>4. KeptUnrevoked'
    BY <2>1 DEF KeptUnrevoked
  <2>5. RevocationHonoured'
    BY <2>1, <2>2 DEF RevocationHonoured, KeptUnrevoked
  <2> QED BY <2>3, <2>4, <2>5
<1>6. CASE Tick
  BY <1>6 DEF Tick, File, SeenRecorded, KeptUnrevoked, RevocationHonoured
<1>7. CASE Quiet
  BY <1>7, <1>t DEF Quiet, SeenRecorded, KeptUnrevoked, RevocationHonoured, NoJob, Kept
<1> QED
  BY <1>t, <1>1, <1>2, <1>3, <1>4, <1>5, <1>6, <1>7, Steps, Appending

\* No call that enters after a revocation is in the ledger runs the handler of
\* that grant, although revoke decides and writes without the lock.
THEOREM RevocationHonouredTheorem == Spec => []RevocationHonoured
<1>1. BaseInv => TypeOK
  BY DEF BaseInv
<1>2. RevocationInv => RevocationHonoured
  BY DEF RevocationInv
<1> QED
  BY <1>1, <1>2, BaseInit, BaseNext, RevocationInit, RevocationNext, PTL DEF Spec

LEMMA LifetimeInit == Init => LifetimeInv
<1> SUFFICES ASSUME Init PROVE LifetimeInv
  OBVIOUS
<1>1. /\ DOMAIN events = {} /\ DOMAIN runs = {} /\ clock = 0
      /\ \A p \in Procs : pc[p] = "idle" /\ job[p].now = 0 /\ job[p].grant = NoGrant
  BY DEF Init, NoJob
<1> QED
  BY <1>1 DEF LifetimeInv, EnteredBefore, IssuedBounded, IssuerFirst, KeptAlive,
              RunsWithinLifetime, Kept

LEMMA LifetimeNext ==
  BaseInv /\ LedgerInv /\ LifetimeInv /\ [Next]_vars => LifetimeInv'
<1> SUFFICES ASSUME BaseInv, LedgerInv, LifetimeInv, [Next]_vars
             PROVE  LifetimeInv'
  OBVIOUS
<1> USE DEF LifetimeInv
<1>t. /\ TypeOK /\ clock \in Nat
      /\ Len(events) \in Nat /\ DOMAIN events = 1..Len(events)
      /\ \A q \in Procs : job[q].now \in Nat
      /\ \A k \in DOMAIN events : /\ events[k] \in Events /\ events[k].grant \in Grants
                                  /\ events[k].at \in Nat /\ events[k].expires \in Nat
  <2>1. TypeOK
    BY DEF BaseInv
  <2>2. \A k \in DOMAIN events : events[k] \in Events
    BY <2>1 DEF TypeOK
  <2>3. \A q \in Procs : job[q].now \in Nat
    BY <2>1 DEF TypeOK, Jobs
  <2> QED
    BY <2>1, <2>2, <2>3 DEF TypeOK, Events
<1>n. NoGrant \notin Grants
  BY GrantAssumption
\* Callers that go on with their call or end it.
<1>c. ASSUME UNCHANGED <<events, drawn, clock>>,
             \A q \in Procs : \/ /\ job'[q] = job[q]
                                 /\ pc'[q] = "issue" => pc[q] = "issue"
                                 /\ pc'[q] \in Kept => pc[q] \in Kept
                              \/ job'[q] = NoJob /\ pc'[q] = "idle"
      PROVE  EnteredBefore' /\ IssuerFirst' /\ KeptAlive'
  <2>1. NoJob.call.action # "issue" /\ NoJob.grant = NoGrant /\ NoJob.now = 0
    BY DEF NoJob, NoCall
  <2>2. EnteredBefore'
    BY <1>c, <1>t, <2>1 DEF EnteredBefore
  <2>3. IssuerFirst'
    <3> SUFFICES ASSUME NEW q \in Procs, job'[q].call.action # "issue"
                 PROVE  /\ \A r \in Procs : pc'[r] = "issue" /\ job'[r].grant = job'[q].grant =>
                             job'[r].now <= job'[q].now
                        /\ \A k \in DOMAIN events :
                             events[k].type = "issued" /\ events[k].grant = job'[q].grant =>
                               events[k].at <= job'[q].now
      BY <1>c DEF IssuerFirst
    <3>1. \A r \in Procs : pc'[r] = "issue" =>
            pc[r] = "issue" /\ job'[r] = job[r] /\ job[r].grant \in Grants
      BY <1>c, <1>t DEF BaseInv, CallersOK, TypeOK
    <3>2. CASE job'[q] = job[q]
      BY <3>1, <3>2 DEF IssuerFirst
    <3>3. CASE job'[q] = NoJob
      BY <1>t, <1>n, <2>1, <3>1, <3>3
    <3> QED BY <1>c, <3>2, <3>3
  <2>4. KeptAlive'
    BY <1>c DEF KeptAlive, Kept
  <2> QED BY <2>2, <2>3, <2>4
\* Who names a grant finds it drawn: the call that issued it entered before.
<1>1. ASSUME NEW p \in Procs, NEW call \in Calls, Begin(p, call)
      PROVE  LifetimeInv'
  <2>1. /\ UNCHANGED <<events, runs, drawn, clock>>
        /\ pc'[p] = "load" /\ job'[p].now = clock /\ job'[p].grant \in drawn \cup {NoGrant}
        /\ \A q \in Procs \ {p} : pc'[q] = pc[q] /\ job'[q] = job[q]
    BY <1>1, <1>t DEF Begin, Callable, Goto, TypeOK, File, World
  <2>2. EnteredBefore'
    BY <1>t, <2>1 DEF EnteredBefore
  <2>3. IssuerFirst'
    BY <1>t, <2>1 DEF EnteredBefore, IssuedBounded, IssuerFirst
  <2>4. KeptAlive'
    BY <2>1 DEF KeptAlive, Kept
  <2>5. IssuedBounded' /\ RunsWithinLifetime'
    BY <2>1 DEF IssuedBounded, RunsWithinLifetime
  <2> QED BY <2>2, <2>3, <2>4, <2>5
\* Nobody names a grant that is drawn now.
<1>2. ASSUME NEW p \in Procs, LoadIssue(p)
      PROVE  LifetimeInv'
  <2>1. PICK g \in Grants \ drawn : drawn' = drawn \cup {g} /\ job' = [job EXCEPT ![p].grant = g]
    BY <1>2 DEF LoadIssue
  <2>2. /\ UNCHANGED <<events, runs, clock>>
        /\ pc'[p] = "issue" /\ job[p].call.action = "issue"
        /\ \A q \in Procs \ {p} : pc'[q] = pc[q]
    BY <1>2, <1>t DEF LoadIssue, Goto, TypeOK, File
  <2>3. /\ job'[p].now = job[p].now /\ job'[p].grant = g /\ job'[p].call = job[p].call
        /\ \A q \in Procs \ {p} : job'[q] = job[q]
    BY <1>t, <2>1 DEF TypeOK, Jobs
  <2>4. EnteredBefore'
    BY <2>1, <2>2, <2>3 DEF EnteredBefore
  <2>5. IssuerFirst'
    BY <1>n, <2>1, <2>2, <2>3 DEF EnteredBefore, IssuerFirst
  <2>6. KeptAlive'
    BY <2>2, <2>3 DEF KeptAlive, Kept
  <2>7. IssuedBounded' /\ RunsWithinLifetime'
    BY <2>2 DEF IssuedBounded, RunsWithinLifetime
  <2> QED BY <2>4, <2>5, <2>6, <2>7
<1>3. ASSUME NEW p \in Procs, Decide(p)
      PROVE  LifetimeInv'
  <2>1. /\ UNCHANGED <<events, runs, drawn, clock, job>>
        /\ pc'[p] = "consume" => CanConsume(p)
        /\ pc'[p] \in {"consume", "refuse"}
        /\ \A q \in Procs \ {p} : pc'[q] = pc[q]
    BY <1>3, <1>t DEF Decide, Goto, TypeOK, File, World
  <2>2. CanConsume(p) =>
          \A k \in DOMAIN events :
            events[k].type = "issued" /\ events[k].grant = job[p].grant =>
              job[p].now < events[k].expires
    <3> SUFFICES ASSUME CanConsume(p), NEW k \in DOMAIN events,
                        events[k].type = "issued", events[k].grant = job[p].grant
                 PROVE  job[p].now < events[k].expires
      OBVIOUS
    <3>1. /\ job[p].grant \in Grants /\ Recorded("issued", job[p].grant)
          /\ ~ Expired(job[p].grant, job[p].now)
      BY <1>t DEF CanConsume, Active
    <3>2. IssuedEvent(job[p].grant) = events[k]
      BY <1>t, <3>1, IssuedEventFacts DEF BaseInv
    <3> QED BY <1>t, <3>1, <3>2 DEF Expired
  <2>3. KeptAlive'
    BY <2>1, <2>2 DEF KeptAlive, Kept
  <2>4. EnteredBefore' /\ IssuerFirst'
    BY <2>1 DEF EnteredBefore, IssuerFirst
  <2>5. IssuedBounded' /\ RunsWithinLifetime'
    BY <2>1 DEF IssuedBounded, RunsWithinLifetime
  <2> QED BY <2>3, <2>4, <2>5
<1>4. ASSUME NEW p \in Procs, NEW e \in Events, Appends(p, e)
      PROVE  LifetimeInv'
  <2>1. /\ UNCHANGED <<runs, drawn, clock, job>>
        /\ \A q \in Procs : /\ pc'[q] \in Kept => pc[q] \in Kept
                            /\ pc'[q] = "issue" => pc[q] = "issue" /\ q # p
    BY <1>4, <1>t DEF Appends, Kept, TypeOK
  \* A second line for a grant is never of type "issued".
  <2>2. \A k \in DOMAIN events' : events'[k].type = "issued" =>
          \/ k \in DOMAIN events /\ events'[k] = events[k]
          \/ /\ events'[k] = e /\ pc[p] = "issue"
             /\ e.grant = job[p].grant /\ e.at = job[p].now
             /\ e.expires <= e.at + MaxTtl * SecondTicks
    <3>1. e.type = "issued" => /\ pc[p] = "issue" /\ e.grant = job[p].grant /\ e.at = job[p].now
                               /\ e.expires <= e.at + MaxTtl * SecondTicks
      BY <1>4 DEF Appends
    <3>2. \A k \in DOMAIN events' : \/ k \in DOMAIN events /\ events'[k] = events[k]
                                    \/ events'[k] = e
      BY <1>4, FileGrows
    <3> QED BY <3>1, <3>2
  <2>3. pc[p] = "issue" => ~ Recorded("issued", job[p].grant) /\ job[p].grant \in drawn
    BY DEF BaseInv, CallersOK
  <2>4. IssuedBounded'
    BY <1>t, <2>1, <2>2 DEF IssuedBounded, EnteredBefore
  <2>5. EnteredBefore'
    BY <2>1 DEF EnteredBefore
  <2>6. IssuerFirst'
    <3> SUFFICES ASSUME NEW q \in Procs, job[q].call.action # "issue"
                 PROVE  /\ \A r \in Procs : pc'[r] = "issue" /\ job[r].grant = job[q].grant =>
                             job[r].now <= job[q].now
                        /\ \A k \in DOMAIN events' :
                             events'[k].type = "issued" /\ events'[k].grant = job[q].grant =>
                               events'[k].at <= job[q].now
      BY <2>1 DEF IssuerFirst
    <3> QED
      BY <2>1, <2>2 DEF IssuerFirst
  <2>7. KeptAlive'
    <3> SUFFICES ASSUME NEW q \in Procs, pc[q] \in Kept, NEW k \in DOMAIN events',
                        events'[k].type = "issued", events'[k].grant = job[q].grant
                 PROVE  job[q].now < events'[k].expires
      BY <2>1 DEF KeptAlive
    <3>1. Recorded("issued", job[q].grant)
      BY DEF BaseInv, CallersOK, Kept
    <3>2. k \in DOMAIN events /\ events'[k] = events[k]
      BY <2>2, <2>3, <3>1
    <3> QED
      BY <3>2 DEF KeptAlive
  <2>8. RunsWithinLifetime'
    <3> SUFFICES ASSUME NEW i \in DOMAIN runs, NEW k \in DOMAIN events',
                        events'[k].type = "issued", events'[k].grant = runs[i].grant
                 PROVE  /\ events'[k].at <= runs[i].now
                        /\ runs[i].now < events'[k].expires
                        /\ events'[k].expires <= events'[k].at + MaxTtl * SecondTicks
      BY <2>1 DEF RunsWithinLifetime
    <3>1. Recorded("issued", runs[i].grant)
      BY DEF LedgerInv, RunsAreRecorded, Backed, Recorded
    <3>2. k \in DOMAIN events /\ events'[k] = events[k]
      BY <2>2, <2>3, <3>1
    <3> QED
      BY <3>2 DEF RunsWithinLifetime
  <2> QED BY <2>4, <2>5, <2>6, <2>7, <2>8
<1>5. ASSUME NEW p \in Procs, RunHandler(p)
      PROVE  LifetimeInv'
  <2>1. /\ UNCHANGED <<events, drawn, clock>>
        /\ pc[p] = "run" /\ pc'[p] = "idle" /\ job'[p] = NoJob
        /\ \A q \in Procs \ {p} : pc'[q] = pc[q] /\ job'[q] = job[q]
    BY <1>5, RunGrows
  <2>2. /\ DOMAIN runs = 1..Len(runs) /\ Len(runs) \in Nat
        /\ DOMAIN runs' = 1..(Len(runs) + 1)
        /\ \A i \in 1..Len(runs) : runs'[i] = runs[i]
        /\ runs'[Len(runs) + 1].grant = job[p].grant
        /\ runs'[Len(runs) + 1].now = job[p].now
    BY <1>5, RunGrows
  <2>3. job[p].call.action # "issue" /\ pc[p] \in Kept
    BY <2>1 DEF BaseInv, CallersOK, Kept
  <2>4. EnteredBefore' /\ IssuerFirst' /\ KeptAlive'
    BY <1>c, <2>1, <2>3
  <2>5. RunsWithinLifetime'
    <3>1. \A k \in DOMAIN events :
            events[k].type = "issued" /\ events[k].grant = job[p].grant =>
              /\ events[k].at <= job[p].now /\ job[p].now < events[k].expires
              /\ events[k].expires <= events[k].at + MaxTtl * SecondTicks
      BY <2>3 DEF IssuerFirst, KeptAlive, IssuedBounded
    <3> QED
      BY <2>1, <2>2, <3>1 DEF RunsWithinLifetime
  <2>6. IssuedBounded'
    BY <2>1 DEF IssuedBounded
  <2> QED BY <2>4, <2>5, <2>6
<1>6. CASE Tick
  <2>1. /\ UNCHANGED <<events, runs, drawn, pc, job>>
        /\ clock' = clock + 1
    BY <1>6 DEF Tick, File
  <2> QED
    BY <1>t, <2>1 DEF EnteredBefore, IssuedBounded, IssuerFirst, KeptAlive, RunsWithinLifetime
<1>7. CASE Quiet
  <2>1. EnteredBefore' /\ IssuerFirst' /\ KeptAlive'
    BY <1>7, <1>c DEF Quiet
  <2>2. IssuedBounded' /\ RunsWithinLifetime'
    BY <1>7 DEF Quiet, IssuedBounded, RunsWithinLifetime
  <2> QED BY <2>1, <2>2
<1> QED
  BY <1>t, <1>1, <1>2, <1>3, <1>4, <1>5, <1>6, <1>7, Steps, Appending

\* A handler runs for a call that entered within the life of its grant, and no life
\* is longer than the maximum, whatever the issuer asked for.
THEOREM RunsWithinLifetimeTheorem == Spec => []RunsWithinLifetime
<1>1. LifetimeInv => RunsWithinLifetime
  BY DEF LifetimeInv
<1> QED
  BY <1>1, LedgerAlways, LifetimeInit, LifetimeNext, PTL DEF Spec

-----------------------------------------------------------------------------
(* The ledger implements SingleUseGrant: a line that reaches the file is   *)
(* the abstract step, a handler that runs the abstract execution, and      *)
(* everything else is invisible.                                           *)

IssuedFor == [g \in Grants |-> IF Recorded("issued", g) THEN IssuedEvent(g).request ELSE NoRequest]
Revoked   == {g \in Grants : Recorded("revoked", g)}
Consumed  == {g \in Grants : Recorded("consumed", g)}
Executed  == [i \in DOMAIN runs |-> <<runs[i].grant, runs[i].request>>]

\* What a line of one type adds to the abstract state.
LEMMA RecordedGrows ==
  ASSUME BaseInv, NEW p \in Procs, NEW e \in Events, Appends(p, e)
  PROVE  \/ events' = events
         \/ \A type, g : Recorded(type, g)' <=> Recorded(type, g) \/ (e.type = type /\ e.grant = g)
<1>1. SUFFICES ASSUME events' # events
               PROVE  \A type, g : Recorded(type, g)' <=>
                        Recorded(type, g) \/ (e.type = type /\ e.grant = g)
  OBVIOUS
<1>2. /\ Len(events) \in Nat /\ DOMAIN events = 1..Len(events)
      /\ DOMAIN events' = 1..(Len(events) + 1)
      /\ \A i \in 1..Len(events) : events'[i] = events[i]
      /\ events'[Len(events) + 1] = e
  BY <1>1, FileGrows
<1> QED
  BY <1>2 DEF Recorded

LEMMA IssuedForGrows ==
  ASSUME BaseInv, BaseInv', NEW p \in Procs, NEW e \in Events, Appends(p, e), events' # events
  PROVE  IssuedFor' = IF e.type = "issued" THEN [IssuedFor EXCEPT ![e.grant] = e.request]
                      ELSE IssuedFor
<1>1. /\ Len(events) \in Nat /\ DOMAIN events = 1..Len(events)
      /\ DOMAIN events' = 1..(Len(events) + 1)
      /\ \A i \in 1..Len(events) : events'[i] = events[i]
      /\ events'[Len(events) + 1] = e
  BY FileGrows
<1>2. /\ e.grant \in Grants
      /\ \A type, g : Recorded(type, g)' <=> Recorded(type, g) \/ (e.type = type /\ e.grant = g)
  BY RecordedGrows DEF Events
<1>3. e.type = "issued" => ~ Recorded("issued", e.grant)
  BY DEF Appends, BaseInv, CallersOK
<1>4. \A g \in Grants : Recorded("issued", g) => IssuedEvent(g)' = IssuedEvent(g)
  <2> SUFFICES ASSUME NEW g \in Grants, Recorded("issued", g)
               PROVE  IssuedEvent(g)' = IssuedEvent(g)
    OBVIOUS
  <2>1. PICK i \in DOMAIN events : events[i].type = "issued" /\ events[i].grant = g
    BY DEF Recorded
  <2>2. IssuedEvent(g) = events[i]
    BY <2>1, IssuedEventFacts DEF BaseInv
  <2>3. \A a, b \in 1..(Len(events) + 1) :
          /\ events'[a].type = "issued" /\ events'[b].type = "issued"
          /\ events'[a].grant = events'[b].grant
          => a = b
    BY <1>1 DEF BaseInv, IssuedOnce
  <2>4. i \in 1..(Len(events) + 1) /\ events'[i].type = "issued" /\ events'[i].grant = g
        /\ Len(events) + 1 \in Nat
    BY <1>1, <2>1
  <2>5. IssuedEvent(g)' = events'[i]
    BY <1>1, <2>3, <2>4, FirstIssued DEF IssuedEvent
  <2> QED BY <1>1, <2>1, <2>2, <2>5
<1>5. e.type = "issued" => IssuedEvent(e.grant)' = e
  <2> SUFFICES ASSUME e.type = "issued" PROVE IssuedEvent(e.grant)' = e
    OBVIOUS
  <2>1. \A a, b \in 1..(Len(events) + 1) :
          /\ events'[a].type = "issued" /\ events'[b].type = "issued"
          /\ events'[a].grant = events'[b].grant
          => a = b
    BY <1>1 DEF BaseInv, IssuedOnce
  <2>2. PICK m \in 1..(Len(events) + 1) : m = Len(events) + 1 /\ Len(events) + 1 \in Nat
    BY <1>1
  <2>3. events'[m].type = "issued" /\ events'[m].grant = e.grant
    BY <1>1, <2>2
  <2>4. IssuedEvent(e.grant)' = events'[m]
    BY <1>1, <2>1, <2>2, <2>3, FirstIssued DEF IssuedEvent
  <2> QED BY <1>1, <2>2, <2>4
<1> QED
  BY <1>2, <1>3, <1>4, <1>5 DEF IssuedFor

LEMMA ExecutedGrows ==
  ASSUME BaseInv, LedgerInv, NEW p \in Procs, RunHandler(p)
  PROVE  /\ job[p].grant \in Consumed
         /\ \A i \in DOMAIN Executed : Executed[i][1] # job[p].grant
         /\ Executed' = Append(Executed, <<job[p].grant, IssuedFor[job[p].grant]>>)
<1> DEFINE n == Len(runs)
           g == job[p].grant
           r == job[p].call.request
<1>1. /\ pc[p] = "run" /\ g \in Grants
      /\ n \in Nat /\ DOMAIN runs = 1..n /\ DOMAIN runs' = 1..(n + 1)
      /\ \A i \in 1..n : runs'[i] = runs[i]
      /\ runs'[n + 1].grant = g /\ runs'[n + 1].request = r
  BY RunGrows
<1>2. Backed(g, r) /\ ~ Ran(g)
  BY <1>1 DEF LedgerInv, Tickets, HasTicket
<1>3. PICK k \in DOMAIN events : events[k].type = "issued" /\ events[k].grant = g
                                 /\ events[k].request = r
  BY <1>2 DEF Backed
<1>4. Recorded("issued", g) /\ IssuedEvent(g) = events[k]
  BY <1>1, <1>3, IssuedEventFacts DEF BaseInv, Recorded
<1>5. IssuedFor[g] = r
  BY <1>1, <1>3, <1>4 DEF IssuedFor
<1>6. g \in Consumed
  BY <1>1, <1>2, BackedConsumed DEF Consumed
<1>7. \A i \in DOMAIN Executed : Executed[i][1] # g
  BY <1>2 DEF Executed, Ran
<1>8. Executed' = Append(Executed, <<g, r>>)
  <2> DEFINE S == {<<runs'[i].grant, runs'[i].request>> : i \in 1..(n + 1)}
  <2>1. \A i \in 1..n : Executed[i] = <<runs[i].grant, runs[i].request>>
    BY <1>1 DEF Executed
  <2>2. Executed = [i \in 1..n |-> <<runs'[i].grant, runs'[i].request>>]
    BY <1>1 DEF Executed
  <2>3. Executed' = [i \in 1..(n + 1) |-> <<runs'[i].grant, runs'[i].request>>]
    BY <1>1 DEF Executed
  <2> HIDE DEF n, g, r
  <2>4. Executed \in [1..n -> S] /\ Executed' \in [1..(n + 1) -> S]
    BY <1>1, <2>2, <2>3
  <2>5. Executed'[n + 1] = <<g, r>>
    BY <1>1, <2>3
  <2>6. \A i \in 1..n : Executed'[i] = Executed[i]
    BY <1>1, <2>2, <2>3
  <2> HIDE DEF S, Executed
  <2>7. Executed \in Seq(S) /\ Executed' \in Seq(S) /\ <<g, r>> \in S
        /\ Len(Executed) = n /\ Len(Executed') = n + 1
    BY <1>1, <2>4, <2>5
  <2> QED
    BY <1>1, <2>5, <2>6, <2>7
<1> QED
  BY <1>5, <1>6, <1>7, <1>8

LEMMA ImplementsInit == Init => Abstract!Init
<1> SUFFICES ASSUME Init PROVE Abstract!Init
  OBVIOUS
<1>1. DOMAIN events = {} /\ runs = << >>
  BY DEF Init
<1>2. \A type, g : ~ Recorded(type, g)
  BY <1>1 DEF Recorded
<1>3. Executed = << >>
  BY <1>1 DEF Executed
<1>4. Revoked = {} /\ Consumed = {} /\ IssuedFor = [g \in Grants |-> NoRequest]
  BY <1>2 DEF Revoked, Consumed, IssuedFor
<1> QED
  BY <1>3, <1>4 DEF Abstract!Init, Executed, Revoked, Consumed, IssuedFor

LEMMA ImplementsNext ==
  BaseInv /\ LedgerInv /\ [Next]_vars /\ BaseInv' =>
    [Abstract!Next]_(Abstract!absVars)
<1> SUFFICES ASSUME BaseInv, LedgerInv, [Next]_vars, BaseInv'
             PROVE  [Abstract!Next]_(Abstract!absVars)
  OBVIOUS
<1>t. TypeOK
  BY DEF BaseInv
\* Nothing abstract changes.
<1>s. ASSUME UNCHANGED <<events, runs>>
      PROVE  UNCHANGED Abstract!absVars
  BY <1>s DEF Abstract!absVars, Recorded, IssuedEvent
<1>1. ASSUME NEW p \in Procs, NEW e \in Events, Appends(p, e), events' # events
      PROVE  Abstract!Next
  <2>1. /\ e.grant \in Grants /\ e.request \in Requests
        /\ \A type, g : Recorded(type, g)' <=> Recorded(type, g) \/ (e.type = type /\ e.grant = g)
        /\ IssuedFor' = IF e.type = "issued" THEN [IssuedFor EXCEPT ![e.grant] = e.request]
                        ELSE IssuedFor
    BY <1>1, RecordedGrows, IssuedForGrows DEF Events
  <2>2. Executed' = Executed
    BY <1>1 DEF Appends, Executed
  <2>3. /\ Revoked' = IF e.type = "revoked" THEN Revoked \cup {e.grant} ELSE Revoked
        /\ Consumed' = IF e.type = "consumed" THEN Consumed \cup {e.grant} ELSE Consumed
    BY <2>1 DEF Revoked, Consumed
  <2>4. e.type # "issued" => IssuedFor[e.grant] # NoRequest
    <3> SUFFICES ASSUME e.type # "issued" PROVE IssuedFor[e.grant] # NoRequest
      OBVIOUS
    <3>1. Recorded("issued", e.grant)
      BY <1>1 DEF Appends, BaseInv, CallersOK
    <3>2. IssuedEvent(e.grant).request \in Requests
      BY <1>t, <2>1, <3>1, IssuedEventFacts DEF BaseInv, Events
    <3> QED BY <2>1, <3>1, <3>2, GrantAssumption DEF IssuedFor
  <2>5. CASE e.type = "issued"
    <3>1. ~ Recorded("issued", e.grant)
      BY <1>1, <2>5 DEF Appends, BaseInv, CallersOK
    <3>2. IssuedFor[e.grant] = NoRequest
      BY <2>1, <3>1 DEF IssuedFor
    <3>3. Abstract!Issue(e.grant, e.request)
      BY <2>1, <2>2, <2>3, <2>5, <3>2
         DEF Abstract!Issue, IssuedFor, Revoked, Consumed, Executed
    <3> QED BY <2>1, <3>3 DEF Abstract!Next
  <2>6. CASE e.type = "revoked"
    <3>1. Abstract!Revoke(e.grant)
      BY <2>1, <2>2, <2>3, <2>4, <2>6
         DEF Abstract!Revoke, IssuedFor, Revoked, Consumed, Executed
    <3> QED BY <2>1, <3>1 DEF Abstract!Next
  <2>7. CASE e.type = "consumed"
    <3>1. e.grant \notin Consumed
      BY <1>1, <2>7 DEF Appends, LedgerInv, Deciding, Consumed
    <3>2. Abstract!Consume(e.grant)
      BY <2>1, <2>2, <2>3, <2>4, <2>7, <3>1
         DEF Abstract!Consume, IssuedFor, Revoked, Consumed, Executed
    <3> QED BY <2>1, <3>2 DEF Abstract!Next
  <2> QED BY <1>1, <2>5, <2>6, <2>7 DEF Appends
<1>2. ASSUME NEW p \in Procs, RunHandler(p)
      PROVE  Abstract!Next
  <2>1. job[p].grant \in Grants /\ UNCHANGED events
    BY <1>2, RunGrows
  <2>2. UNCHANGED <<IssuedFor, Revoked, Consumed>>
    BY <2>1 DEF IssuedFor, Revoked, Consumed, Recorded, IssuedEvent
  <2>3. PICK g \in Grants : g = job[p].grant
    BY <2>1
  <2>4. Abstract!Execute(g)
    BY <1>2, <2>2, <2>3, ExecutedGrows
       DEF Abstract!Execute, IssuedFor, Revoked, Consumed, Executed
  <2> QED BY <2>4 DEF Abstract!Next
<1>3. ASSUME NEW p \in Procs, NEW e \in Events, Appends(p, e), events' = events
      PROVE  UNCHANGED <<events, runs>>
  BY <1>3 DEF Appends
<1>4. ASSUME NEW p \in Procs, NEW call \in Calls, Begin(p, call)
      PROVE  UNCHANGED <<events, runs>>
  BY <1>4 DEF Begin, File, World
<1>5. ASSUME NEW p \in Procs, LoadIssue(p) \/ Decide(p)
      PROVE  UNCHANGED <<events, runs>>
  BY <1>5 DEF LoadIssue, Decide, File, World
<1>6. Tick \/ Quiet => UNCHANGED <<events, runs>>
  BY DEF Tick, Quiet, File
<1> QED
  BY <1>t, <1>s, <1>1, <1>2, <1>3, <1>4, <1>5, <1>6, Steps, Appending

\* Every behaviour of the ledger is one of the abstract single-use grant: issued
\* once, consumed at most once, executed at most once and for what it was issued.
THEOREM ImplementsSingleUseGrant == Spec => AbstractSpec
<1> QED
  BY LedgerAlways, ImplementsInit, ImplementsNext, PTL DEF Spec, AbstractSpec, Abstract!Spec

=============================================================================
