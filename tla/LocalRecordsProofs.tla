-------------------------- MODULE LocalRecordsProofs --------------------------
(***************************************************************************)
(* Proofs about LocalRecords, for every set of threads, projects,          *)
(* objectives and proposals, and every limit and bound.                    *)
(***************************************************************************)
EXTENDS LocalRecords, FiniteSetTheorems, WellFoundedInduction, TLAPS

-----------------------------------------------------------------------------
(* The data: what is kept of a sequence                                     *)

\* Inclusion of finite sets of numbers is well founded, hence so is <.
LEMMA LeastNat ==
  ASSUME NEW T \in SUBSET Nat, T # {}
  PROVE  \E x \in T : \A y \in T : x <= y
<1> DEFINE R == StrictSubsetOrdering(Nat)
           Below == {0..x : x \in T}
<1>1. IsWellFoundedOn(R, FiniteSubsetsOf(Nat))
  BY FS_StrictSubsetOrderingWellFounded
<1>2. Below \subseteq FiniteSubsetsOf(Nat) /\ Below # {}
  <2>1. \A x \in T : IsFiniteSet(0..x)
    BY FS_Interval
  <2>2. \A x \in T : 0..x \in SUBSET Nat
    OBVIOUS
  <2> QED BY <2>1, <2>2 DEF FiniteSubsetsOf
<1>3. \A x, y \in Nat : y < x => <<0..y, 0..x>> \in R
  <2> SUFFICES ASSUME NEW x \in Nat, NEW y \in Nat, y < x PROVE <<0..y, 0..x>> \in R
    OBVIOUS
  <2>1. 0..y \in SUBSET Nat /\ 0..x \in SUBSET Nat
    OBVIOUS
  <2>2. 0..y \subseteq 0..x
    OBVIOUS
  <2>3. x \in 0..x /\ x \notin 0..y
    OBVIOUS
  <2> QED BY <2>1, <2>2, <2>3 DEF StrictSubsetOrdering
<1> HIDE DEF R
<1>4. \E b \in Below : \A d \in Below : ~ (<<d, b>> \in R)
  BY <1>1, <1>2, WFMin
<1>5. PICK x \in T : \A y \in T : ~ (<<0..y, 0..x>> \in R)
  BY <1>4
<1>6. ASSUME NEW y \in T PROVE x <= y
  <2>1. ~ (y < x)
    BY <1>3, <1>5
  <2> QED BY <2>1
<1> QED BY <1>6

\* What is kept of the first n elements, for each n.
KeptUpTo(s, P, n, f) ==
  f = [i \in 0..n |-> IF i = 0 THEN << >>
                      ELSE IF i \in P THEN Append(f[i - 1], s[i]) ELSE f[i - 1]]

LEMMA PrefixesExist ==
  ASSUME NEW S, NEW s \in Seq(S), NEW P, NEW n \in 0..Len(s)
  PROVE  \E f : KeptUpTo(s, P, n, f)
<1> DEFINE Good(m) == \E f : KeptUpTo(s, P, m, f)
           T == {m \in 0..Len(s) : ~ Good(m)}
<1>0. Len(s) \in Nat
  OBVIOUS
<1> HIDE DEF Good
<1>1. SUFFICES ASSUME T # {} PROVE FALSE
  BY <1>0 DEF Good
<1>2. PICK m \in T : \A y \in T : m <= y
  <2>1. T \in SUBSET Nat
    BY <1>0
  <2> HIDE DEF T
  <2> QED BY <1>1, <2>1, LeastNat
<1>3. Good(0)
  <2>1. KeptUpTo(s, P, 0, [i \in {0} |-> << >>])
    BY DEF KeptUpTo
  <2> QED BY <2>1 DEF Good
<1>4. m \in 1..Len(s) /\ Good(m - 1)
  BY <1>0, <1>2, <1>3
<1>5. PICK f : KeptUpTo(s, P, m - 1, f)
  BY <1>4 DEF Good
<1> DEFINE last == IF m \in P THEN Append(f[m - 1], s[m]) ELSE f[m - 1]
           g == [i \in 0..m |-> IF i = m THEN last ELSE f[i]]
<1>6. KeptUpTo(s, P, m, g)
  <2> HIDE DEF last
  <2>1. \A i \in 0..(m - 1) : f[i] = IF i = 0 THEN << >>
                                     ELSE IF i \in P THEN Append(f[i - 1], s[i]) ELSE f[i - 1]
    BY <1>4, <1>5 DEF KeptUpTo
  <2>2. ASSUME NEW i \in 0..m
        PROVE  g[i] = IF i = 0 THEN << >>
                      ELSE IF i \in P THEN Append(g[i - 1], s[i]) ELSE g[i - 1]
    <3>1. CASE i = m
      BY <1>0, <1>4, <3>1 DEF last
    <3>2. CASE i \in 0..(m - 1)
      <4>1. g[i] = f[i] /\ (i # 0 => g[i - 1] = f[i - 1])
        BY <1>0, <1>4, <3>2
      <4> QED BY <2>1, <3>2, <4>1
    <3> QED BY <1>0, <1>4, <3>1, <3>2
  <2> HIDE DEF g
  <2>3. g = [i \in 0..m |-> g[i]]
    BY DEF g
  <2> QED BY <2>2, <2>3 DEF KeptUpTo
<1> HIDE DEF g
<1>7. Good(m)
  BY <1>6 DEF Good
<1> QED BY <1>2, <1>7

\* q is what is kept of the first n elements.
KeptOf(S, s, P, n, q) ==
  /\ q \in Seq(S) /\ Len(q) <= n
  /\ ToSet(q) = {s[i] : i \in P \cap (1..n)}
  /\ 1..n \subseteq P => Len(q) = n /\ \A i \in 1..n : q[i] = s[i]

LEMMA AppendSet ==
  ASSUME NEW S, NEW q \in Seq(S), NEW x \in S
  PROVE  /\ Append(q, x) \in Seq(S) /\ Len(Append(q, x)) = Len(q) + 1
         /\ ToSet(Append(q, x)) = ToSet(q) \cup {x}
         /\ \A i \in 1..Len(q) : Append(q, x)[i] = q[i]
         /\ Append(q, x)[Len(q) + 1] = x
<1> DEFINE t == Append(q, x)
<1>1. /\ t \in Seq(S) /\ Len(t) = Len(q) + 1 /\ Len(q) \in Nat
      /\ DOMAIN q = 1..Len(q) /\ DOMAIN t = 1..(Len(q) + 1)
      /\ (\A i \in 1..Len(q) : t[i] = q[i]) /\ t[Len(q) + 1] = x
  OBVIOUS
<1> HIDE DEF t
<1>2. ToSet(t) = ToSet(q) \cup {x}
  BY <1>1 DEF ToSet
<1> QED BY <1>1, <1>2 DEF t

LEMMA PrefixesFacts ==
  ASSUME NEW S, NEW s \in Seq(S), NEW P, NEW f, KeptUpTo(s, P, Len(s), f)
  PROVE  \A n \in 0..Len(s) : KeptOf(S, s, P, n, f[n])
<1> DEFINE T == {m \in 0..Len(s) : ~ KeptOf(S, s, P, m, f[m])}
<1>0. Len(s) \in Nat /\ \A i \in 1..Len(s) : s[i] \in S
  OBVIOUS
<1>1. SUFFICES ASSUME T # {} PROVE FALSE
  OBVIOUS
<1>2. PICK m \in T : \A y \in T : m <= y
  <2>1. T \in SUBSET Nat
    BY <1>0
  <2> HIDE DEF T
  <2> QED BY <1>1, <2>1, LeastNat
<1>3. \A i \in 0..Len(s) : f[i] = IF i = 0 THEN << >>
                                  ELSE IF i \in P THEN Append(f[i - 1], s[i]) ELSE f[i - 1]
  BY DEF KeptUpTo
<1>4. KeptOf(S, s, P, 0, << >>)
  <2>1. << >> \in Seq(S) /\ Len(<< >>) = 0 /\ ToSet(<< >>) = {}
    BY DEF ToSet
  <2>2. {s[i] : i \in P \cap (1..0)} = {}
    OBVIOUS
  <2> QED BY <2>1, <2>2 DEF KeptOf
<1>5. m \in 1..Len(s) /\ m - 1 \in 0..Len(s) /\ KeptOf(S, s, P, m - 1, f[m - 1])
  BY <1>0, <1>2, <1>3, <1>4
<1> DEFINE q == f[m - 1]
<1>6. /\ q \in Seq(S) /\ Len(q) <= m - 1 /\ Len(q) \in Nat
      /\ ToSet(q) = {s[i] : i \in P \cap (1..(m - 1))}
      /\ 1..(m - 1) \subseteq P => Len(q) = m - 1 /\ \A i \in 1..(m - 1) : q[i] = s[i]
  BY <1>5 DEF KeptOf
<1>7. f[m] = IF m \in P THEN Append(q, s[m]) ELSE q
  BY <1>3, <1>5
<1> HIDE DEF q
<1>8. 1..m = (1..(m - 1)) \cup {m} /\ m \notin 1..(m - 1) /\ m \in Nat
  BY <1>0, <1>5
<1>9. KeptOf(S, s, P, m, f[m])
  <2>1. CASE m \in P
    <3>1. s[m] \in S
      BY <1>0, <1>5
    <3>2. /\ f[m] \in Seq(S) /\ Len(f[m]) = Len(q) + 1 /\ ToSet(f[m]) = ToSet(q) \cup {s[m]}
          /\ \A i \in 1..Len(q) : f[m][i] = q[i]
          /\ f[m][Len(q) + 1] = s[m]
      BY <1>6, <1>7, <2>1, <3>1, AppendSet
    <3>3. P \cap (1..m) = (P \cap (1..(m - 1))) \cup {m}
      BY <1>8, <2>1
    <3>4. ToSet(f[m]) = {s[i] : i \in P \cap (1..m)}
      BY <1>6, <3>2, <3>3
    <3>5. Len(f[m]) <= m
      BY <1>6, <1>8, <3>2
    <3>6. ASSUME 1..m \subseteq P PROVE Len(f[m]) = m /\ \A i \in 1..m : f[m][i] = s[i]
      <4>1. Len(q) = m - 1 /\ \A i \in 1..(m - 1) : q[i] = s[i]
        BY <1>6, <1>8, <3>6
      <4>2. Len(f[m]) = m /\ f[m][m] = s[m] /\ \A i \in 1..(m - 1) : f[m][i] = s[i]
        BY <1>8, <3>2, <4>1
      <4> QED BY <1>8, <4>2
    <3> QED BY <3>2, <3>4, <3>5, <3>6 DEF KeptOf
  <2>2. CASE m \notin P
    <3>1. P \cap (1..m) = P \cap (1..(m - 1)) /\ ~ (1..m \subseteq P)
      BY <1>8, <2>2
    <3>2. Len(q) <= m
      BY <1>6, <1>8
    <3> QED BY <1>6, <1>7, <2>2, <3>1, <3>2 DEF KeptOf
  <2> QED BY <2>1, <2>2
<1> QED BY <1>2, <1>9

LEMMA KeptFacts ==
  ASSUME NEW S, NEW s \in Seq(S), NEW P \in SUBSET (1..Len(s))
  PROVE  /\ Kept(s, P) \in Seq(S)
         /\ ToSet(Kept(s, P)) = {s[i] : i \in P}
         /\ P = 1..Len(s) => Len(Kept(s, P)) = Len(s) /\ \A i \in 1..Len(s) : Kept(s, P)[i] = s[i]
<1>0. Len(s) \in Nat /\ Len(s) \in 0..Len(s) /\ P \cap (1..Len(s)) = P
      /\ (P = 1..Len(s) => 1..Len(s) \subseteq P)
  <2>1. Len(s) \in Nat
    OBVIOUS
  <2> DEFINE n == Len(s)
  <2>2. n \in Nat /\ P \in SUBSET (1..n)
    BY <2>1
  <2> HIDE DEF n
  <2>3. n \in 0..n
    BY <2>2
  <2>4. ASSUME NEW D, P \in SUBSET D PROVE P \cap D = P
    BY <2>4, Zenon
  <2>5. P \cap (1..n) = P
    BY <2>2, <2>4
  <2> QED BY <2>1, <2>3, <2>5 DEF n
<1>1. Kept(s, P) = (CHOOSE f : KeptUpTo(s, P, Len(s), f))[Len(s)]
  BY DEF Kept, KeptUpTo
<1>2. PICK f : KeptUpTo(s, P, Len(s), f) /\ f = CHOOSE g : KeptUpTo(s, P, Len(s), g)
  BY <1>0, PrefixesExist
<1>3. KeptOf(S, s, P, Len(s), Kept(s, P))
  BY <1>0, <1>1, <1>2, PrefixesFacts
<1> QED BY <1>0, <1>3 DEF KeptOf

-----------------------------------------------------------------------------
(* What the files hold, and what reading finds in them                      *)

Cuts == {"whole", "torn", "unended"}
Notes(f) == [type : {"remembered", "forgotten"}, id : {f} \X Nat]
Logged(f) == [type : {"audit", "record"}, id : {f} \X Nat]
Proposals == {ActionProposal(x, o) : x \in Explicits, o \in Objectives}
QueuedAs(p, c, s) ==
  [type |-> "entry", id |-> <<ProposalId(p), c, s, p.action \o p.target>>, proposal |-> p]
Queued == {QueuedAs(p, c, s) : p \in Proposals, c \in Nat, s \in Nat}

RecordsOf(f) ==
  IF f \in Projects THEN Notes(f) ELSE IF f = Inbox THEN Queued ELSE Logged(f)

Writes(R) == [record : R, cut : Cuts]

LEMMA ReadFacts ==
  ASSUME NEW R, NEW file \in Seq(Writes(R))
  PROVE  /\ ReadEvents(file) \in Seq(R)
         /\ ToSet(ReadEvents(file)) =
              {file[i].record : i \in {k \in DOMAIN file : Readable(file, k)}}
         /\ (\A i \in DOMAIN file : Readable(file, i)) =>
              /\ Len(ReadEvents(file)) = Len(file)
              /\ \A i \in 1..Len(file) : ReadEvents(file)[i] = file[i].record
<1> DEFINE s == [i \in DOMAIN file |-> file[i].record]
           P == {i \in DOMAIN file : Readable(file, i)}
<1>0. /\ Len(file) \in Nat /\ DOMAIN file = 1..Len(file)
      /\ \A i \in 1..Len(file) : file[i].record \in R
  <2>1. \A w \in Writes(R) : w.record \in R
    BY DEF Writes
  <2> QED BY <2>1
<1>1. s \in Seq(R) /\ Len(s) = Len(file) /\ \A i \in 1..Len(file) : s[i] = file[i].record
  BY <1>0
<1>2. P \in SUBSET (1..Len(s))
  BY <1>0, <1>1
<1>3. ReadEvents(file) = Kept(s, P)
  BY DEF ReadEvents, RecordsAt
<1>4. (\A i \in DOMAIN file : Readable(file, i)) => P = 1..Len(s)
  BY <1>0, <1>1
<1>5. \A i \in P : s[i] = file[i].record
  BY <1>0, <1>1
<1> HIDE DEF s
<1>6. /\ Kept(s, P) \in Seq(R) /\ ToSet(Kept(s, P)) = {s[i] : i \in P}
      /\ P = 1..Len(s) => Len(Kept(s, P)) = Len(s) /\ \A i \in 1..Len(s) : Kept(s, P)[i] = s[i]
  <2> HIDE DEF P
  <2> QED BY <1>1, <1>2, KeptFacts
<1>7. {s[i] : i \in P} = {file[i].record : i \in P}
  <2> HIDE DEF P
  <2> QED BY <1>5
<1> QED BY <1>1, <1>3, <1>4, <1>6, <1>7

\* The notes that memory shows were read, and no tombstone of them was.
LEMMA ActiveFacts ==
  ASSUME NEW R, NEW file \in Seq(Writes(R))
  PROVE  \A e : e \in ToSet(Active(file)) <=>
           /\ e \in ToSet(ReadEvents(file)) /\ e.type = "remembered"
           /\ [type |-> "forgotten", id |-> e.id] \notin ToSet(ReadEvents(file))
<1> DEFINE s == ReadEvents(file)
           P == {i \in DOMAIN s : /\ s[i].type = "remembered"
                                  /\ [type |-> "forgotten", id |-> s[i].id] \notin ToSet(s)}
<1>1. s \in Seq(R)
  BY ReadFacts
<1>2. Active(file) = Kept(s, P)
  BY DEF Active, ActiveEntries
<1> HIDE DEF s
<1>3. P \in SUBSET (1..Len(s)) /\ DOMAIN s = 1..Len(s)
  BY <1>1
<1>4. ToSet(Kept(s, P)) = {s[i] : i \in P}
  <2> HIDE DEF P
  <2> QED BY <1>1, <1>3, KeptFacts
<1>5. ToSet(s) = {s[i] : i \in DOMAIN s}
  BY DEF ToSet
<1> QED BY <1>2, <1>4, <1>5 DEF s

LEMMA LastFacts ==
  ASSUME NEW R, NEW all \in Seq(R)
  PROVE  /\ LastEntries(all) \in Seq(R)
         /\ LastEntries(all) = all \/ Len(LastEntries(all)) = MaxEntries
<1>0. MaxEntries \in Nat /\ Len(all) \in Nat
  <2>1. MaxEntries \in Nat
    BY RecordsAssumption, Zenon
  <2> QED BY <2>1
<1>1. CASE Len(all) > MaxEntries
  <2> DEFINE m == Len(all) - MaxEntries + 1
  <2>1. m \in 1..(Len(all) + 1) /\ Len(all) - m + 1 = MaxEntries
    BY <1>0, <1>1
  <2>2. LastEntries(all) = SubSeq(all, m, Len(all))
    BY <1>1 DEF LastEntries
  <2> HIDE DEF m
  <2>3. SubSeq(all, m, Len(all)) \in Seq(R) /\ Len(SubSeq(all, m, Len(all))) = MaxEntries
    BY <1>0, <2>1
  <2> QED BY <2>2, <2>3
<1>2. CASE ~ (Len(all) > MaxEntries)
  BY <1>2 DEF LastEntries
<1> QED BY <1>1, <1>2

\* The inbox, when it is not refused, is full or shows every record of the file.
LEMMA LoadFacts ==
  ASSUME NEW R, NEW file \in Seq(Writes(R))
  PROVE  /\ LoadEntries(file).entries \in Seq(R)
         /\ LoadEntries(file).ok =>
              \/ Len(LoadEntries(file).entries) = MaxEntries
              \/ \A i \in DOMAIN file : file[i].record \in ToSet(LoadEntries(file).entries)
<1> DEFINE bad == \/ Len(file) > MaxWrites
                  \/ \E i \in DOMAIN file : ~ Readable(file, i) \/ Splits(file[i].record)
<1>1. CASE bad
  <2>1. LoadEntries(file) = [ok |-> FALSE, entries |-> << >>]
    BY <1>1 DEF LoadEntries
  <2> QED BY <2>1
<1>2. CASE ~ bad
  <2> DEFINE all == ReadEvents(file)
  <2>1. LoadEntries(file) = [ok |-> TRUE, entries |-> LastEntries(all)]
    BY <1>2 DEF LoadEntries
  <2>2. /\ all \in Seq(R) /\ Len(all) = Len(file) /\ \A i \in 1..Len(file) : all[i] = file[i].record
    BY <1>2, ReadFacts
  <2> HIDE DEF all
  <2>3. LastEntries(all) \in Seq(R) /\ (LastEntries(all) = all \/ Len(LastEntries(all)) = MaxEntries)
    BY <2>2, LastFacts
  <2>4. \A i \in DOMAIN file : file[i].record \in ToSet(all)
    BY <2>2 DEF ToSet
  <2>5. LoadEntries(file).ok /\ LoadEntries(file).entries = LastEntries(all)
    BY <2>1
  <2> QED BY <2>3, <2>4, <2>5
<1> QED BY <1>1, <1>2

LEMMA UnreadSpoiled ==
  ASSUME NEW file, NEW i, ~ Readable(file, i)
  PROVE  Spoiled(file, i)
BY DEF Readable, Spoiled

-----------------------------------------------------------------------------
(* The invariant                                                            *)

\* The fields of a record, so that one of them can be replaced.
IsCall(j) ==
  j = [op |-> j.op, stage |-> j.stage, project |-> j.project, id |-> j.id, bad |-> j.bad,
       explicit |-> j.explicit, since |-> j.since, draft |-> j.draft,
       objective |-> j.objective, status |-> j.status, entries |-> j.entries]

IsTold(r) == r = [written |-> r.written, forgotten |-> r.forgotten, queued |-> r.queued]

IsUsed(r) ==
  /\ r = [menu |-> r.menu, ids |-> r.ids, calls |-> r.calls, edits |-> r.edits,
          faults |-> r.faults]
  /\ r.ids \in Nat

Held == \A f \in Files : files[f] \in Seq(Writes(RecordsOf(f)))

Typed ==
  /\ files = [f \in Files |-> files[f]] /\ Held
  /\ objective \in Objectives /\ second \in Nat
  /\ job = [t \in Threads |-> job[t]] /\ \A t \in Threads : IsCall(job[t])
  /\ IsTold(told) /\ IsUsed(used)

Memory == {"show", "remember", "forget"}

FileFor(j) ==
  CASE j.op = "enqueue" -> Inbox
    [] j.op = "audit"   -> AuditLog
    [] j.op = "record"  -> RunLog
    [] OTHER            -> j.project

Tombstone(id) == [type |-> "forgotten", id |-> id]

\* What a call is about to write belongs into its file, and has been written when
\* it reads the file again.
Placed(j) ==
  /\ j.stage # "done" /\ j.op \in Memory => j.project \in Projects
  /\ j.op = "enqueue" => j.explicit \in Explicits
  /\ j.stage \in {"append", "reread"} =>
       /\ j.op \in {"remember", "forget", "enqueue", "audit", "record"}
       /\ j.draft \in RecordsOf(FileFor(j)) /\ j.draft.id = j.id
       /\ j.op = "forget" => j.draft.type = "forgotten"
  /\ j.stage = "reread" =>
       /\ j.op \in {"remember", "forget", "enqueue"}
       /\ PlacesOf(files[FileFor(j)], j.draft) # {}

\* The entries of the inbox a call has seen, and what it was told.
Seen(j) ==
  /\ j.op \in {"inbox", "enqueue"} => j.entries \in Seq(Queued)
  /\ j.op = "loop" => j.draft = NoId \/ j.draft \in Queued
  /\ j.since.forgotten \subseteq told.forgotten /\ j.since.queued \subseteq told.queued

\* A note that is shown although it was reported forgotten has a spoiled tombstone.
Excused(j) ==
  j.op \in Memory \cup {"pack"} =>
    \A e \in ToSet(j.entries) : e.id \in j.since.forgotten =>
      /\ e.id[1] \in Projects
      /\ \E i \in PlacesOf(files[e.id[1]], Tombstone(e.id)) : Spoiled(files[e.id[1]], i)

Complete(j) ==
  j.op = "inbox" /\ j.stage = "done" /\ j.status # "blocked" =>
    \/ Len(j.entries) = MaxEntries
    \/ j.since.queued \subseteq {e.id : e \in ToSet(j.entries)}

\* What the development loop acts on, when its caller was shown another proposal.
ActsOn(acted, shown) ==
  /\ ProposalId(acted) = ProposalId(shown)
  /\ Plain(shown) => acted = shown

Selected(j) ==
  j.op = "loop" /\ j.status = "ready" /\ j.draft # NoId =>
    ActsOn(j.entries[1].proposal, j.draft.proposal)

CallInv(j) == Placed(j) /\ Seen(j) /\ Excused(j) /\ Complete(j) /\ Selected(j)

\* What was reported is in the files.
Reported ==
  /\ \A id \in told.queued : \E i \in DOMAIN files[Inbox] : files[Inbox][i].record.id = id
  /\ \A id \in told.forgotten :
       id[1] \in Projects /\ PlacesOf(files[id[1]], Tombstone(id)) # {}

RecordsInv == Typed /\ Reported /\ \A t \in Threads : CallInv(job[t])

\* A call that ends keeps everything but its stage, status and entries.
Ended(j, status, entries) == [j EXCEPT !.stage = "done", !.status = status, !.entries = entries]

LEMMA EndedFacts ==
  ASSUME NEW j, IsCall(j), NEW status, NEW entries
  PROVE  LET d == Ended(j, status, entries)
         IN  /\ IsCall(d) /\ d.stage = "done" /\ d.status = status /\ d.entries = entries
             /\ d.op = j.op /\ d.project = j.project /\ d.id = j.id /\ d.since = j.since
             /\ d.draft = j.draft /\ d.explicit = j.explicit
<1>1. ASSUME NEW op, NEW stage, NEW project, NEW id, NEW bad, NEW explicit, NEW since,
             NEW draft, NEW objec, NEW st, NEW en,
             j = [op |-> op, stage |-> stage, project |-> project, id |-> id, bad |-> bad,
                  explicit |-> explicit, since |-> since, draft |-> draft,
                  objective |-> objec, status |-> st, entries |-> en]
      PROVE  Ended(j, status, entries) =
               [op |-> op, stage |-> "done", project |-> project, id |-> id, bad |-> bad,
                explicit |-> explicit, since |-> since, draft |-> draft,
                objective |-> objec, status |-> status, entries |-> entries]
  <2> DEFINE rest(g, s, e) ==
        [op |-> op, stage |-> g, project |-> project, id |-> id, bad |-> bad,
         explicit |-> explicit, since |-> since, draft |-> draft,
         objective |-> objec, status |-> s, entries |-> e]
  <2>1. [j EXCEPT !.stage = "done"] = rest("done", st, en)
    BY <1>1
  <2>2. [rest("done", st, en) EXCEPT !.status = status] = rest("done", status, en)
    OBVIOUS
  <2>3. [rest("done", status, en) EXCEPT !.entries = entries] = rest("done", status, entries)
    OBVIOUS
  <2>4. Ended(j, status, entries)
          = [[[j EXCEPT !.stage = "done"] EXCEPT !.status = status] EXCEPT !.entries = entries]
    BY DEF Ended
  <2> QED BY <2>1, <2>2, <2>3, <2>4
<1>2. Ended(j, status, entries) =
        [op |-> j.op, stage |-> "done", project |-> j.project, id |-> j.id, bad |-> j.bad,
         explicit |-> j.explicit, since |-> j.since, draft |-> j.draft,
         objective |-> j.objective, status |-> status, entries |-> entries]
  BY <1>1, Zenon DEF IsCall
<1> QED BY <1>2 DEF IsCall

LEMMA FinishFacts ==
  ASSUME NEW t \in Threads, NEW status, NEW entries, Finish(t, status, entries)
  PROVE  job' = [job EXCEPT ![t] = Ended(job[t], status, entries)]
BY DEF Finish, Ended

LEMMA CallStands ==
  ASSUME NEW c, CallInv(c), UNCHANGED <<files, told>>
  PROVE  CallInv(c)'
BY DEF CallInv, Placed, Seen, Excused, Complete, Selected, PlacesOf, Spoiled

\* A step of one call that writes nothing.
LEMMA CallStep ==
  ASSUME RecordsInv, NEW t \in Threads, NEW j, IsCall(j), job' = [job EXCEPT ![t] = j],
         UNCHANGED <<files, told>>, objective' \in Objectives, second' \in Nat, IsUsed(used'),
         CallInv(j)
  PROVE  RecordsInv'
<1>1. Typed'
  BY DEF RecordsInv, Typed, Held
<1>2. Reported'
  BY DEF RecordsInv, Reported, PlacesOf
<1>3. ASSUME NEW u \in Threads PROVE CallInv(job[u])'
  <2>1. job'[u] = IF u = t THEN j ELSE job[u]
    BY DEF RecordsInv, Typed
  <2>2. PICK c : c = job'[u] /\ CallInv(c)
    BY <2>1 DEF RecordsInv
  <2>3. CallInv(c)'
    BY <2>2, CallStands
  <2> QED BY <2>2, <2>3 DEF CallInv, Placed, Seen, Excused, Complete, Selected
<1> QED BY <1>1, <1>2, <1>3 DEF RecordsInv

\* A call that ends with a part of a file.
LEMMA EndStep ==
  ASSUME RecordsInv, NEW t \in Threads, NEW status, NEW entries,
         Finish(t, status, entries), UNCHANGED <<files, objective, second, told, used>>,
         job[t].op \in {"inbox", "enqueue"} => entries \in Seq(Queued),
         Excused(Ended(job[t], status, entries)), Complete(Ended(job[t], status, entries)),
         Selected(Ended(job[t], status, entries))
  PROVE  RecordsInv'
<1> DEFINE j == job[t]
           d == Ended(j, status, entries)
<1>1. CallInv(j) /\ IsCall(j) /\ objective \in Objectives /\ second \in Nat /\ IsUsed(used)
  BY DEF RecordsInv, Typed
<1>2. job' = [job EXCEPT ![t] = d]
  BY FinishFacts
<1>3. /\ IsCall(d) /\ d.stage = "done" /\ d.entries = entries
      /\ d.op = j.op /\ d.project = j.project /\ d.id = j.id /\ d.since = j.since
      /\ d.draft = j.draft /\ d.explicit = j.explicit
  BY <1>1, EndedFacts
<1>4. Excused(d) /\ Complete(d) /\ Selected(d)
  OBVIOUS
<1> HIDE DEF d
<1>5. Placed(d) /\ Seen(d)
  BY <1>1, <1>3 DEF CallInv, Placed, Seen
<1>6. CallInv(d)
  BY <1>4, <1>5 DEF CallInv
<1> QED BY <1>1, <1>2, <1>3, <1>6, CallStep

\* A call that ends without entries.
LEMMA EndEmpty ==
  ASSUME RecordsInv, NEW t \in Threads, NEW status, Finish(t, status, << >>),
         status # "ready", job[t].op = "inbox" => status = "blocked",
         UNCHANGED <<files, objective, second, told, used>>
  PROVE  RecordsInv'
<1> DEFINE d == Ended(job[t], status, << >>)
<1>1. d.entries = << >> /\ d.op = job[t].op /\ d.status = status
  BY EndedFacts DEF RecordsInv, Typed
<1> HIDE DEF d
<1>2. ToSet(<< >>) = {} /\ << >> \in Seq(Queued)
  BY DEF ToSet
<1>3. Excused(d) /\ Complete(d) /\ Selected(d)
  BY <1>1, <1>2 DEF Excused, Complete, Selected
<1> QED BY <1>2, <1>3, EndStep DEF d

-----------------------------------------------------------------------------
(* Every step keeps the invariant                                           *)

\* One field of a call is replaced.
LEMMA FieldFacts ==
  ASSUME NEW j, IsCall(j), NEW x
  PROVE  /\ IsCall([j EXCEPT !.op = x]) /\ IsCall([j EXCEPT !.stage = x])
         /\ IsCall([j EXCEPT !.project = x]) /\ IsCall([j EXCEPT !.id = x])
         /\ IsCall([j EXCEPT !.bad = x]) /\ IsCall([j EXCEPT !.explicit = x])
         /\ IsCall([j EXCEPT !.since = x]) /\ IsCall([j EXCEPT !.draft = x])
         /\ IsCall([j EXCEPT !.objective = x]) /\ IsCall([j EXCEPT !.status = x])
         /\ IsCall([j EXCEPT !.entries = x])
<1>1. ASSUME NEW op, NEW stage, NEW project, NEW id, NEW bad, NEW explicit, NEW since,
             NEW draft, NEW objec, NEW st, NEW en,
             j = [op |-> op, stage |-> stage, project |-> project, id |-> id, bad |-> bad,
                  explicit |-> explicit, since |-> since, draft |-> draft,
                  objective |-> objec, status |-> st, entries |-> en]
      PROVE  /\ IsCall([j EXCEPT !.op = x]) /\ IsCall([j EXCEPT !.stage = x])
             /\ IsCall([j EXCEPT !.project = x]) /\ IsCall([j EXCEPT !.id = x])
             /\ IsCall([j EXCEPT !.bad = x]) /\ IsCall([j EXCEPT !.explicit = x])
             /\ IsCall([j EXCEPT !.since = x]) /\ IsCall([j EXCEPT !.draft = x])
             /\ IsCall([j EXCEPT !.objective = x]) /\ IsCall([j EXCEPT !.status = x])
             /\ IsCall([j EXCEPT !.entries = x])
  BY <1>1 DEF IsCall
<1> QED BY <1>1, Zenon DEF IsCall

LEMMA IdleCall == IsCall(Idle)
BY DEF IsCall, Idle

LEMMA BeginStep ==
  ASSUME RecordsInv, NEW t \in Threads, NEW c, IsCall(c), Begin(t, c),
         c.entries = << >>, c.status # "ready", c.stage \notin {"append", "reread"},
         c.op = "inbox" => c.stage # "done",
         c.stage # "done" /\ c.op \in Memory => c.project \in Projects,
         c.op = "enqueue" => c.explicit \in Explicits,
         c.op = "loop" => c.draft = NoId \/ c.draft \in Queued
  PROVE  RecordsInv'
<1> DEFINE j == [c EXCEPT !.since = told]
<1>1. IsCall(j)
  BY FieldFacts
<1>2. /\ j.op = c.op /\ j.stage = c.stage /\ j.project = c.project /\ j.explicit = c.explicit
      /\ j.draft = c.draft /\ j.status = c.status /\ j.entries = c.entries
  BY DEF IsCall
<1>3. j.since = told
  BY DEF IsCall
<1>4. job' = [job EXCEPT ![t] = j] /\ UNCHANGED <<files, objective, second, told>>
      /\ used' = [used EXCEPT !.calls = used.calls + 1]
  BY DEF Begin
<1> HIDE DEF j
<1>5. IsUsed(used')
  BY <1>4 DEF RecordsInv, Typed, IsUsed
<1>6. ToSet(<< >>) = {} /\ << >> \in Seq(Queued)
  BY DEF ToSet
<1>7. CallInv(j)
  BY <1>2, <1>3, <1>6 DEF CallInv, Placed, Seen, Excused, Complete, Selected
<1> QED BY <1>1, <1>4, <1>5, <1>7, CallStep DEF RecordsInv, Typed

LEMMA CallMemoryStep ==
  ASSUME RecordsInv, NEW t \in Threads, CallMemory(t)
  PROVE  RecordsInv'
<1>1. PICK op \in {"show", "remember"}, project \in Projects \cup {OddProject}, bad \in BOOLEAN :
        Begin(t, IF project \in Projects
                 THEN [Idle EXCEPT !.op = op, !.stage = "read", !.project = project, !.bad = bad]
                 ELSE [Idle EXCEPT !.op = op, !.status = "blocked"])
  BY DEF CallMemory
<1>2. CASE project \in Projects
  <2> DEFINE c == [Idle EXCEPT !.op = op, !.stage = "read", !.project = project, !.bad = bad]
  <2>1. c = [[[[Idle EXCEPT !.op = op] EXCEPT !.stage = "read"] EXCEPT !.project = project]
               EXCEPT !.bad = bad]
    OBVIOUS
  <2>2. IsCall(c)
    BY <2>1, IdleCall, FieldFacts
  <2>3. /\ c.entries = << >> /\ c.status = "none" /\ c.stage = "read" /\ c.op = op
        /\ c.project = project
    BY DEF Idle
  <2>4. Begin(t, c)
    BY <1>1, <1>2
  <2> HIDE DEF c
  <2> QED BY <1>2, <2>2, <2>3, <2>4, BeginStep
<1>3. CASE project \notin Projects
  <2> DEFINE c == [Idle EXCEPT !.op = op, !.status = "blocked"]
  <2>1. c = [[Idle EXCEPT !.op = op] EXCEPT !.status = "blocked"]
    OBVIOUS
  <2>2. IsCall(c)
    BY <2>1, IdleCall, FieldFacts
  <2>3. c.entries = << >> /\ c.status = "blocked" /\ c.stage = "done" /\ c.op = op
    BY DEF Idle
  <2>4. Begin(t, c)
    BY <1>1, <1>3
  <2> HIDE DEF c
  <2> QED BY <2>2, <2>3, <2>4, BeginStep
<1> QED BY <1>2, <1>3

LEMMA CallsStep ==
  ASSUME RecordsInv, NEW t \in Threads,
         CallForget(t) \/ CallInbox(t) \/ CallLoop(t) \/ CallPack(t) \/ CallAudit(t) \/ CallRuns(t)
  PROVE  RecordsInv'
<1>1. CASE CallForget(t)
  <2>1. PICK id \in told.written, project \in Projects :
          Begin(t, [Idle EXCEPT !.op = "forget", !.stage = "read", !.project = project, !.id = id])
    BY <1>1 DEF CallForget
  <2> DEFINE c == [Idle EXCEPT !.op = "forget", !.stage = "read", !.project = project, !.id = id]
  <2>a. c = [[[[Idle EXCEPT !.op = "forget"] EXCEPT !.stage = "read"] EXCEPT !.project = project] EXCEPT !.id = id]
    OBVIOUS
  <2>b. IsCall(c)
    BY <2>a, IdleCall, FieldFacts
  <2>c. c.entries = << >> /\ c.status = "none" /\ c.op = "forget" /\ c.stage = "read" /\ c.project = project /\ c.id = id
    BY DEF Idle
  <2>d. Begin(t, c)
    BY <2>1
  <2> HIDE DEF c
  <2> QED BY <2>b, <2>c, <2>d, BeginStep DEF Memory
<1>2. ASSUME Begin(t, [Idle EXCEPT !.op = "inbox", !.stage = "read"]) PROVE RecordsInv'
  <2> DEFINE c == [Idle EXCEPT !.op = "inbox", !.stage = "read"]
  <2>a. c = [[Idle EXCEPT !.op = "inbox"] EXCEPT !.stage = "read"]
    OBVIOUS
  <2>b. IsCall(c)
    BY <2>a, IdleCall, FieldFacts
  <2>c. c.entries = << >> /\ c.status = "none" /\ c.op = "inbox" /\ c.stage = "read"
    BY DEF Idle
  <2>d. Begin(t, c)
    BY <1>2
  <2> HIDE DEF c
  <2> QED BY <2>b, <2>c, <2>d, BeginStep DEF Memory
<1>3. ASSUME NEW x \in Explicits,
             Begin(t, [Idle EXCEPT !.op = "enqueue", !.stage = "read", !.explicit = x])
      PROVE  RecordsInv'
  <2> DEFINE c == [Idle EXCEPT !.op = "enqueue", !.stage = "read", !.explicit = x]
  <2>a. c = [[[Idle EXCEPT !.op = "enqueue"] EXCEPT !.stage = "read"] EXCEPT !.explicit = x]
    OBVIOUS
  <2>b. IsCall(c)
    BY <2>a, IdleCall, FieldFacts
  <2>c. c.entries = << >> /\ c.status = "none" /\ c.op = "enqueue" /\ c.stage = "read" /\ c.explicit = x
    BY DEF Idle
  <2>d. Begin(t, c)
    BY <1>3
  <2> HIDE DEF c
  <2> QED BY <2>b, <2>c, <2>d, BeginStep DEF Memory
<1>4. CASE CallLoop(t)
  <2>1. PICK shown \in {NoId} \cup UNION {IF job[u].op = "inbox" THEN ToSet(job[u].entries) ELSE {} :
                                            u \in Threads} :
          Begin(t, [Idle EXCEPT !.op = "loop", !.stage = "read", !.draft = shown])
    BY <1>4 DEF CallLoop
  <2>2. shown = NoId \/ shown \in Queued
    <3>1. SUFFICES ASSUME NEW u \in Threads, job[u].op = "inbox", shown \in ToSet(job[u].entries)
                   PROVE  shown \in Queued
      BY <2>1
    <3>2. job[u].entries \in Seq(Queued)
      BY <3>1 DEF RecordsInv, CallInv, Seen
    <3> QED BY <3>1, <3>2 DEF ToSet
  <2> DEFINE c == [Idle EXCEPT !.op = "loop", !.stage = "read", !.draft = shown]
  <2>a. c = [[[Idle EXCEPT !.op = "loop"] EXCEPT !.stage = "read"] EXCEPT !.draft = shown]
    OBVIOUS
  <2>b. IsCall(c)
    BY <2>a, IdleCall, FieldFacts
  <2>c. c.entries = << >> /\ c.status = "none" /\ c.op = "loop" /\ c.stage = "read" /\ c.draft = shown
    BY DEF Idle
  <2>d. Begin(t, c)
    BY <2>1
  <2> HIDE DEF c
  <2> QED BY <2>2, <2>b, <2>c, <2>d, BeginStep DEF Memory
<1>5. CASE CallPack(t)
  <2>1. PICK project \in {"", "default"} :
          Begin(t, [Idle EXCEPT !.op = "pack", !.stage = "objective", !.project = project,
                                !.explicit = project])
    BY <1>5 DEF CallPack
  <2> DEFINE c == [Idle EXCEPT !.op = "pack", !.stage = "objective", !.project = project, !.explicit = project]
  <2>a. c = [[[[Idle EXCEPT !.op = "pack"] EXCEPT !.stage = "objective"] EXCEPT !.project = project] EXCEPT !.explicit = project]
    OBVIOUS
  <2>b. IsCall(c)
    BY <2>a, IdleCall, FieldFacts
  <2>c. c.entries = << >> /\ c.status = "none" /\ c.op = "pack" /\ c.stage = "objective" /\ c.project = project /\ c.explicit = project
    BY DEF Idle
  <2>d. Begin(t, c)
    BY <2>1
  <2> HIDE DEF c
  <2> QED BY <2>b, <2>c, <2>d, BeginStep DEF Memory
<1>6. CASE CallAudit(t) \/ CallRuns(t)
  <2>1. PICK op \in {"audit", "record", "runs"}, stage \in {"read", "build"} :
          Begin(t, [Idle EXCEPT !.op = op, !.stage = stage])
    BY <1>6 DEF CallAudit, CallRuns
  <2> DEFINE c == [Idle EXCEPT !.op = op, !.stage = stage]
  <2>a. c = [[Idle EXCEPT !.op = op] EXCEPT !.stage = stage]
    OBVIOUS
  <2>b. IsCall(c)
    BY <2>a, IdleCall, FieldFacts
  <2>c. c.entries = << >> /\ c.status = "none" /\ c.op = op /\ c.stage = stage
    BY DEF Idle
  <2>d. Begin(t, c)
    BY <2>1
  <2> HIDE DEF c
  <2> QED BY <2>b, <2>c, <2>d, BeginStep DEF Memory
<1> QED BY <1>1, <1>2, <1>3, <1>4, <1>5, <1>6 DEF CallInbox

\* The records that reach a file.
LEMMA RecordsOfFacts ==
  /\ \A f \in Projects : RecordsOf(f) = Notes(f)
  /\ RecordsOf(Inbox) = Queued
  /\ RecordsOf(AuditLog) = Logged(AuditLog) /\ RecordsOf(RunLog) = Logged(RunLog)
BY RecordsAssumption DEF RecordsOf, Inbox, AuditLog, RunLog

LEMMA RecordsInit == Init => RecordsInv
<1> SUFFICES ASSUME Init PROVE RecordsInv
  OBVIOUS
<1>1. /\ files = [f \in Files |-> << >>] /\ second = 0 /\ job = [t \in Threads |-> Idle]
      /\ told = [written |-> {}, forgotten |-> {}, queued |-> {}]
  BY DEF Init
<1>2. PICK menu \in Menus :
        /\ objective \in IF menu.edits THEN Objectives ELSE {NoState}
        /\ used = [menu |-> menu, ids |-> 0, calls |-> 0, edits |-> 0, faults |-> 0]
  BY DEF Init
<1>3. objective \in Objectives
  BY <1>2, RecordsAssumption
<1>4. IsUsed(used) /\ IsTold(told)
  BY <1>1, <1>2 DEF IsUsed, IsTold
<1>5. Held
  BY <1>1 DEF Held
<1>6. Typed
  BY <1>1, <1>3, <1>4, <1>5, IdleCall DEF Typed
<1>7. Reported
  BY <1>1 DEF Reported
<1>8. ToSet(<< >>) = {}
  BY DEF ToSet
<1>9. CallInv(Idle)
  BY <1>8 DEF CallInv, Placed, Seen, Excused, Complete, Selected, Idle, Memory
<1> QED BY <1>1, <1>6, <1>7, <1>9 DEF RecordsInv

\* What memory shows of a file, to a call whose knowledge is no newer.
LEMMA ShownExcused ==
  ASSUME RecordsInv, NEW f \in Projects, NEW known, known \subseteq told.forgotten,
         NEW e \in ToSet(Active(files[f])), e.id \in known
  PROVE  /\ e.id[1] \in Projects
         /\ \E i \in PlacesOf(files[e.id[1]], Tombstone(e.id)) : Spoiled(files[e.id[1]], i)
<1>1. files[f] \in Seq(Writes(Notes(f)))
  BY RecordsOfFacts DEF RecordsInv, Typed, Held, Files
<1>2. /\ e \in ToSet(ReadEvents(files[f]))
      /\ Tombstone(e.id) \notin ToSet(ReadEvents(files[f]))
  BY <1>1, ActiveFacts DEF Tombstone
<1>3. ToSet(ReadEvents(files[f])) =
        {files[f][i].record : i \in {k \in DOMAIN files[f] : Readable(files[f], k)}}
  BY <1>1, ReadFacts
<1>4. e.id[1] = f
  <2>1. PICK i \in DOMAIN files[f] : e = files[f][i].record
    BY <1>2, <1>3
  <2>2. files[f][i] \in Writes(Notes(f))
    BY <1>1
  <2>3. e \in Notes(f)
    BY <2>1, <2>2 DEF Writes
  <2> QED BY <2>3 DEF Notes
<1>5. PICK i \in PlacesOf(files[f], Tombstone(e.id)) : TRUE
  BY <1>4 DEF RecordsInv, Reported
<1>6. i \in DOMAIN files[f] /\ files[f][i].record = Tombstone(e.id)
  BY <1>5 DEF PlacesOf
<1>7. ~ Readable(files[f], i)
  BY <1>2, <1>3, <1>6
<1> QED BY <1>4, <1>5, <1>7, UnreadSpoiled

LEMMA ShowMemoryStep ==
  ASSUME RecordsInv, NEW t \in Threads, ShowMemory(t)
  PROVE  RecordsInv'
<1> DEFINE j == job[t]
           entries == Active(files[j.project])
           status == IF entries = << >> THEN "empty" ELSE "ready"
           d == Ended(j, status, entries)
<1>1. j.op = "show" /\ j.stage = "read"
  BY DEF ShowMemory, At
<1>2. CallInv(j) /\ IsCall(j)
  BY DEF RecordsInv, Typed
<1>3. j.project \in Projects /\ j.since.forgotten \subseteq told.forgotten
  BY <1>1, <1>2 DEF CallInv, Placed, Seen, Memory
<1>4. Finish(t, status, entries) /\ UNCHANGED <<files, objective, second, told, used>>
  BY DEF ShowMemory
<1> HIDE DEF status
<1>5. d.op = "show" /\ d.entries = entries /\ d.since = j.since
  BY <1>1, <1>2, EndedFacts
<1>6. Excused(d) /\ Complete(d) /\ Selected(d)
  <2> HIDE DEF d
  <2>1. Complete(d) /\ Selected(d)
    BY <1>5 DEF Complete, Selected
  <2>2. Excused(d)
    BY <1>3, <1>5, ShownExcused DEF Excused
  <2> QED BY <2>1, <2>2
<1> HIDE DEF entries
<1> QED BY <1>1, <1>4, <1>6, EndStep

LEMMA ForgetStep ==
  ASSUME RecordsInv, NEW t \in Threads, Forget(t)
  PROVE  RecordsInv'
<1> DEFINE j == job[t]
           entries == Active(files[j.project])
<1>1. j.op = "forget" /\ j.stage = "read" /\ UNCHANGED <<files, objective, second, told, used>>
  BY DEF Forget, At
<1>2. /\ CallInv(j) /\ IsCall(j) /\ objective \in Objectives /\ second \in Nat /\ IsUsed(used)
  BY DEF RecordsInv, Typed
<1>3. j.project \in Projects /\ j.since.forgotten \subseteq told.forgotten
  BY <1>1, <1>2 DEF CallInv, Placed, Seen, Memory
<1>4. CASE \E e \in ToSet(entries) : e.id = j.id
  <2> DEFINE c == [j EXCEPT !.stage = "append", !.draft = [type |-> "forgotten", id |-> j.id]]
  <2>1. job' = [job EXCEPT ![t] = c]
    BY <1>4 DEF Forget
  <2>2. c = [[j EXCEPT !.stage = "append"] EXCEPT !.draft = [type |-> "forgotten", id |-> j.id]]
    OBVIOUS
  <2>3. IsCall(c)
    BY <1>2, <2>2, FieldFacts
  <2>4. /\ c.op = j.op /\ c.stage = "append" /\ c.project = j.project /\ c.id = j.id
        /\ c.since = j.since /\ c.draft = Tombstone(j.id) /\ c.entries = j.entries
    BY <1>2 DEF IsCall, Tombstone
  <2> HIDE DEF c
  <2>5. j.id \in {j.project} \X Nat
    <3>1. PICK e \in ToSet(entries) : e.id = j.id
      BY <1>4
    <3>2. files[j.project] \in Seq(Writes(Notes(j.project)))
      BY <1>3, RecordsOfFacts DEF RecordsInv, Typed, Held, Files
    <3>3. e \in ToSet(ReadEvents(files[j.project]))
      BY <3>1, <3>2, ActiveFacts
    <3>4. ReadEvents(files[j.project]) \in Seq(Notes(j.project))
      BY <3>2, ReadFacts
    <3>5. e \in Notes(j.project)
      BY <3>3, <3>4 DEF ToSet
    <3> QED BY <3>1, <3>5 DEF Notes
  <2>6. c.draft \in RecordsOf(FileFor(c)) /\ c.draft.id = c.id /\ c.draft.type = "forgotten"
    <3>1. FileFor(c) = j.project /\ RecordsOf(FileFor(c)) = Notes(j.project)
      BY <1>1, <1>3, <2>4, RecordsOfFacts DEF FileFor
    <3>2. Tombstone(j.id) \in Notes(j.project)
      BY <2>5 DEF Notes, Tombstone
    <3>3. Tombstone(j.id).id = j.id /\ Tombstone(j.id).type = "forgotten"
      BY DEF Tombstone
    <3> QED BY <2>4, <3>1, <3>2, <3>3
  <2>7. CallInv(c)
    BY <1>1, <1>2, <1>3, <2>4, <2>6 DEF CallInv, Placed, Seen, Excused, Complete, Selected, Memory
  <2> QED BY <1>1, <1>2, <2>1, <2>3, <2>7, CallStep
<1>5. CASE ~ \E e \in ToSet(entries) : e.id = j.id
  <2> DEFINE d == Ended(j, "missing", entries)
  <2>1. Finish(t, "missing", entries)
    BY <1>5 DEF Forget
  <2>2. d.op = "forget" /\ d.entries = entries /\ d.since = j.since
    BY <1>1, <1>2, EndedFacts
  <2>3. Excused(d) /\ Complete(d) /\ Selected(d)
    <3> HIDE DEF d
    <3>1. Complete(d) /\ Selected(d)
      BY <2>2 DEF Complete, Selected
    <3>2. Excused(d)
      BY <1>3, <2>2, ShownExcused DEF Excused
    <3> QED BY <3>1, <3>2
  <2> HIDE DEF entries
  <2> QED BY <1>1, <2>1, <2>3, EndStep
<1> QED BY <1>4, <1>5

LEMMA RememberStep ==
  ASSUME RecordsInv, NEW t \in Threads, Remember(t)
  PROVE  RecordsInv'
<1> DEFINE j == job[t]
<1>1. j.op = "remember" /\ j.stage = "read" /\ UNCHANGED <<files, objective, second, told>>
  BY DEF Remember, At
<1>2. /\ CallInv(j) /\ IsCall(j) /\ objective \in Objectives /\ second \in Nat /\ IsUsed(used)
  BY DEF RecordsInv, Typed
<1>3. j.project \in Projects
  BY <1>1, <1>2 DEF CallInv, Placed, Memory
<1>4. CASE j.bad
  <2>1. Finish(t, "blocked", << >>) /\ UNCHANGED used
    BY <1>4 DEF Remember
  <2> QED BY <1>1, <2>1, EndEmpty
<1>5. CASE ~ j.bad
  <2> DEFINE id == <<j.project, used.ids>>
             note == [type |-> "remembered", id |-> id]
             c == [j EXCEPT !.stage = "append", !.id = id, !.draft = note]
  <2>1. job' = [job EXCEPT ![t] = c] /\ used' = [used EXCEPT !.ids = used.ids + 1]
    BY <1>5 DEF Remember, FreshId
  <2>2. IsUsed(used')
    BY <1>2, <2>1 DEF IsUsed
  <2>3. note \in Notes(j.project) /\ note.id = id
    BY <1>2 DEF Notes, IsUsed
  <2> HIDE DEF note, id
  <2>4. c = [[[j EXCEPT !.stage = "append"] EXCEPT !.id = id] EXCEPT !.draft = note]
    OBVIOUS
  <2>5. IsCall(c)
    BY <1>2, <2>4, FieldFacts
  <2>6. /\ c.op = j.op /\ c.stage = "append" /\ c.project = j.project /\ c.id = id
        /\ c.since = j.since /\ c.draft = note /\ c.entries = j.entries
    BY <1>2 DEF IsCall
  <2> HIDE DEF c
  <2>7. FileFor(c) = j.project /\ RecordsOf(FileFor(c)) = Notes(j.project)
    BY <1>1, <1>3, <2>6, RecordsOfFacts DEF FileFor
  <2>8. CallInv(c)
    BY <1>1, <1>2, <1>3, <2>3, <2>6, <2>7
    DEF CallInv, Placed, Seen, Excused, Complete, Selected, Memory
  <2> QED BY <1>1, <1>2, <2>1, <2>2, <2>5, <2>8, CallStep
<1> QED BY <1>4, <1>5

LEMMA BuildRecordStep ==
  ASSUME RecordsInv, NEW t \in Threads, BuildRecord(t)
  PROVE  RecordsInv'
<1> DEFINE j == job[t]
           id == <<FileOf(t), used.ids>>
           record == [type |-> j.op, id |-> id]
           c == [j EXCEPT !.stage = "append", !.id = id, !.draft = record]
<1>1. /\ j.op \in {"audit", "record"} /\ j.stage = "build"
      /\ UNCHANGED <<files, objective, second, told>>
      /\ job' = [job EXCEPT ![t] = c] /\ used' = [used EXCEPT !.ids = used.ids + 1]
  BY DEF BuildRecord, At
<1>2. /\ CallInv(j) /\ IsCall(j) /\ objective \in Objectives /\ second \in Nat /\ IsUsed(used)
  BY DEF RecordsInv, Typed
<1>3. IsUsed(used')
  BY <1>1, <1>2 DEF IsUsed
<1>4. FileOf(t) = FileFor(j)
  BY DEF FileOf, FileFor
<1>5. record \in Logged(FileFor(j)) /\ record.id = id
  BY <1>1, <1>2, <1>4 DEF Logged, IsUsed
<1> HIDE DEF record, id
<1>6. c = [[[j EXCEPT !.stage = "append"] EXCEPT !.id = id] EXCEPT !.draft = record]
  OBVIOUS
<1>7. IsCall(c)
  BY <1>2, <1>6, FieldFacts
<1>8. /\ c.op = j.op /\ c.stage = "append" /\ c.project = j.project /\ c.id = id
      /\ c.since = j.since /\ c.draft = record /\ c.entries = j.entries
  BY <1>2 DEF IsCall
<1> HIDE DEF c
<1>9. FileFor(c) = FileFor(j) /\ RecordsOf(FileFor(c)) = Logged(FileFor(j))
  BY <1>1, <1>8, RecordsOfFacts DEF FileFor
<1>10. CallInv(c)
  BY <1>1, <1>2, <1>5, <1>8, <1>9
  DEF CallInv, Placed, Seen, Excused, Complete, Selected, Memory
<1> QED BY <1>1, <1>2, <1>3, <1>7, <1>10, CallStep

LEMMA ShowRunsStep ==
  ASSUME RecordsInv, NEW t \in Threads, ShowRuns(t)
  PROVE  RecordsInv'
<1> DEFINE j == job[t]
           status == IF files[RunLog] = << >> THEN "empty" ELSE "ready"
           entries == LastEntries(ReadEvents(files[RunLog]))
           d == Ended(j, status, entries)
<1>1. j.op = "runs" /\ Finish(t, status, entries) /\ UNCHANGED <<files, objective, second, told, used>>
  BY DEF ShowRuns, At
<1>2. IsCall(j)
  BY DEF RecordsInv, Typed
<1> HIDE DEF status, entries
<1>3. d.op = "runs"
  BY <1>1, <1>2, EndedFacts
<1>4. Excused(d) /\ Complete(d) /\ Selected(d)
  <2> HIDE DEF d
  <2> QED BY <1>3 DEF Excused, Complete, Selected, Memory
<1> QED BY <1>1, <1>4, EndStep

-----------------------------------------------------------------------------
(* Steps of the context pack                                                *)

LEMMA PackStep ==
  ASSUME RecordsInv, NEW t \in Threads,
         PackObjective(t) \/ PackMemory(t) \/ PackDocuments(t)
  PROVE  RecordsInv'
<1> DEFINE j == job[t]
<1>1. j.op = "pack" /\ UNCHANGED <<files, objective, second, told, used>>
  BY DEF PackObjective, PackMemory, PackDocuments, At
<1>2. /\ CallInv(j) /\ IsCall(j) /\ objective \in Objectives /\ second \in Nat /\ IsUsed(used)
  BY DEF RecordsInv, Typed
<1>3. CASE PackObjective(t)
  <2> DEFINE project == PackProject(j.project, objective)
             c == [j EXCEPT !.stage = "memory", !.objective = objective, !.project = project]
  <2>1. job' = [job EXCEPT ![t] = c]
    BY <1>3 DEF PackObjective
  <2> HIDE DEF project
  <2>2. c = [[[j EXCEPT !.stage = "memory"] EXCEPT !.objective = objective] EXCEPT !.project = project]
    OBVIOUS
  <2>3. IsCall(c)
    BY <1>2, <2>2, FieldFacts
  <2>4. c.op = j.op /\ c.stage = "memory" /\ c.since = j.since /\ c.entries = j.entries
    BY <1>2 DEF IsCall
  <2> HIDE DEF c
  <2>5. CallInv(c)
    BY <1>1, <1>2, <2>4 DEF CallInv, Placed, Seen, Excused, Complete, Selected, Memory
  <2> QED BY <1>1, <1>2, <2>1, <2>3, <2>5, CallStep
<1>4. CASE PackMemory(t)
  <2> DEFINE entries == IF j.project \in Projects THEN Active(files[j.project]) ELSE << >>
             c == [j EXCEPT !.stage = "documents", !.entries = entries]
  <2>1. job' = [job EXCEPT ![t] = c]
    BY <1>4 DEF PackMemory
  <2>2. \A e \in ToSet(entries) : j.project \in Projects /\ e \in ToSet(Active(files[j.project]))
    <3>1. ToSet(<< >>) = {}
      BY DEF ToSet
    <3> QED BY <3>1
  <2> HIDE DEF entries
  <2>3. c = [[j EXCEPT !.stage = "documents"] EXCEPT !.entries = entries]
    OBVIOUS
  <2>4. IsCall(c)
    BY <1>2, <2>3, FieldFacts
  <2>5. c.op = j.op /\ c.stage = "documents" /\ c.since = j.since /\ c.entries = entries
    BY <1>2 DEF IsCall
  <2> HIDE DEF c
  <2>6. c.since.forgotten \subseteq told.forgotten
    BY <1>2, <2>5 DEF CallInv, Seen
  <2>7. Excused(c)
    BY <2>2, <2>5, <2>6, ShownExcused DEF Excused
  <2>8. Placed(c) /\ Seen(c) /\ Complete(c) /\ Selected(c)
    BY <1>1, <1>2, <2>5 DEF CallInv, Placed, Seen, Complete, Selected, Memory
  <2>9. CallInv(c)
    BY <2>7, <2>8 DEF CallInv
  <2> QED BY <1>1, <1>2, <2>1, <2>4, <2>9, CallStep
<1>5. CASE PackDocuments(t)
  <2>1. PICK status : Finish(t, status, j.entries)
    BY <1>5 DEF PackDocuments
  <2> DEFINE d == Ended(j, status, j.entries)
  <2>2. d.op = "pack" /\ d.entries = j.entries /\ d.since = j.since
    BY <1>1, <1>2, EndedFacts
  <2>3. Excused(d) /\ Complete(d) /\ Selected(d)
    <3> HIDE DEF d
    <3> QED BY <1>1, <1>2, <2>2 DEF CallInv, Excused, Complete, Selected
  <2> QED BY <1>1, <2>1, <2>3, EndStep
<1> QED BY <1>3, <1>4, <1>5

-----------------------------------------------------------------------------
(* Steps of the inbox and of the development loop                           *)

\* What the inbox shows to a call that began after some entries were queued.
LEMMA InboxFacts ==
  ASSUME RecordsInv
  PROVE  LET load == LoadEntries(files[Inbox])
         IN  /\ load.entries \in Seq(Queued)
             /\ load.ok => \/ Len(load.entries) = MaxEntries
                           \/ told.queued \subseteq {e.id : e \in ToSet(load.entries)}
<1> DEFINE load == LoadEntries(files[Inbox])
<1>1. files[Inbox] \in Seq(Writes(Queued))
  BY RecordsOfFacts DEF RecordsInv, Typed, Held, Files
<1>2. /\ load.entries \in Seq(Queued)
      /\ load.ok => \/ Len(load.entries) = MaxEntries
                    \/ \A i \in DOMAIN files[Inbox] : files[Inbox][i].record \in ToSet(load.entries)
  BY <1>1, LoadFacts
<1> HIDE DEF load
<1>3. \A id \in told.queued : \E i \in DOMAIN files[Inbox] : files[Inbox][i].record.id = id
  BY DEF RecordsInv, Reported
<1>4. ASSUME \A i \in DOMAIN files[Inbox] : files[Inbox][i].record \in ToSet(load.entries)
      PROVE  told.queued \subseteq {e.id : e \in ToSet(load.entries)}
  BY <1>3, <1>4
<1> QED BY <1>2, <1>4 DEF load

LEMMA ShowInboxStep ==
  ASSUME RecordsInv, NEW t \in Threads, ShowInbox(t)
  PROVE  RecordsInv'
<1> DEFINE j == job[t]
           load == LoadEntries(files[Inbox])
           status == IF ~ load.ok THEN "blocked"
                     ELSE IF load.entries = << >> THEN "empty" ELSE "ready"
           d == Ended(j, status, load.entries)
<1>1. /\ j.op = "inbox" /\ Finish(t, status, load.entries)
      /\ UNCHANGED <<files, objective, second, told, used>>
  BY DEF ShowInbox, At
<1>2. IsCall(j) /\ j.since.queued \subseteq told.queued
  BY DEF RecordsInv, Typed, CallInv, Seen
<1>3. /\ load.entries \in Seq(Queued)
      /\ load.ok => \/ Len(load.entries) = MaxEntries
                    \/ told.queued \subseteq {e.id : e \in ToSet(load.entries)}
  BY InboxFacts
<1>4. status # "blocked" => load.ok
  OBVIOUS
<1> HIDE DEF status, load
<1>5. d.op = "inbox" /\ d.status = status /\ d.entries = load.entries /\ d.since = j.since
  BY <1>1, <1>2, EndedFacts
<1>6. Excused(d) /\ Complete(d) /\ Selected(d)
  <2> HIDE DEF d
  <2>1. Excused(d) /\ Selected(d)
    BY <1>5 DEF Excused, Selected, Memory
  <2>2. Complete(d)
    BY <1>2, <1>3, <1>4, <1>5 DEF Complete
  <2> QED BY <2>1, <2>2
<1> QED BY <1>1, <1>3, <1>6, EndStep

LEMMA CountStep ==
  ASSUME RecordsInv, NEW t \in Threads, Count(t)
  PROVE  RecordsInv'
<1> DEFINE j == job[t]
           load == LoadEntries(files[Inbox])
<1>1. j.op = "enqueue" /\ j.stage = "read" /\ UNCHANGED <<files, objective, second, told, used>>
  BY DEF Count, At
<1>2. /\ CallInv(j) /\ IsCall(j) /\ objective \in Objectives /\ second \in Nat /\ IsUsed(used)
  BY DEF RecordsInv, Typed
<1>3. load.entries \in Seq(Queued)
  BY InboxFacts
<1>4. CASE ~ load.ok
  <2>1. Finish(t, "blocked", << >>)
    BY <1>4 DEF Count
  <2> QED BY <1>1, <2>1, EndEmpty
<1>5. CASE load.ok
  <2> DEFINE c == [j EXCEPT !.stage = "propose", !.entries = load.entries]
  <2>1. job' = [job EXCEPT ![t] = c]
    BY <1>5 DEF Count
  <2> HIDE DEF load
  <2>2. c = [[j EXCEPT !.stage = "propose"] EXCEPT !.entries = load.entries]
    OBVIOUS
  <2>3. IsCall(c)
    BY <1>2, <2>2, FieldFacts
  <2>4. /\ c.op = j.op /\ c.stage = "propose" /\ c.since = j.since /\ c.entries = load.entries
        /\ c.explicit = j.explicit
    BY <1>2 DEF IsCall
  <2> HIDE DEF c
  <2>5. CallInv(c)
    BY <1>1, <1>2, <1>3, <2>4 DEF CallInv, Placed, Seen, Excused, Complete, Selected, Memory
  <2> QED BY <1>1, <1>2, <2>1, <2>3, <2>5, CallStep
<1> QED BY <1>4, <1>5

LEMMA ProposeStep ==
  ASSUME RecordsInv, NEW t \in Threads, Propose(t)
  PROVE  RecordsInv'
<1> DEFINE j == job[t]
           proposal == ActionProposal(j.explicit, objective)
           entry == Entry(proposal, Len(j.entries))
<1>1. j.op = "enqueue" /\ j.stage = "propose" /\ UNCHANGED <<files, objective, second, told, used>>
  BY DEF Propose, At
<1>2. /\ CallInv(j) /\ IsCall(j) /\ objective \in Objectives /\ second \in Nat /\ IsUsed(used)
  BY DEF RecordsInv, Typed
<1>3. j.explicit \in Explicits /\ j.entries \in Seq(Queued)
  BY <1>1, <1>2 DEF CallInv, Placed, Seen
<1>4. CASE proposal.status = "ready"
  <2> DEFINE c == [j EXCEPT !.stage = "append", !.id = entry.id, !.draft = entry]
  <2>1. job' = [job EXCEPT ![t] = c]
    BY <1>4 DEF Propose
  <2>2. entry \in Queued
    <3>1. proposal \in Proposals
      BY <1>2, <1>3 DEF Proposals
    <3>2. Len(j.entries) \in Nat
      BY <1>3
    <3> HIDE DEF proposal
    <3>3. entry = QueuedAs(proposal, Len(j.entries), second)
      BY DEF Entry, QueuedAs
    <3> QED BY <1>2, <3>1, <3>2, <3>3 DEF Queued
  <2> HIDE DEF entry
  <2>3. c = [[[j EXCEPT !.stage = "append"] EXCEPT !.id = entry.id] EXCEPT !.draft = entry]
    OBVIOUS
  <2>4. IsCall(c)
    BY <1>2, <2>3, FieldFacts
  <2>5. /\ c.op = j.op /\ c.stage = "append" /\ c.id = entry.id /\ c.explicit = j.explicit
        /\ c.since = j.since /\ c.draft = entry /\ c.entries = j.entries
    BY <1>2 DEF IsCall
  <2> HIDE DEF c
  <2>6. RecordsOf(FileFor(c)) = Queued
    BY <1>1, <2>5, RecordsOfFacts DEF FileFor
  <2>7. CallInv(c)
    BY <1>1, <1>2, <1>3, <2>2, <2>5, <2>6
    DEF CallInv, Placed, Seen, Excused, Complete, Selected, Memory
  <2> QED BY <1>1, <1>2, <2>1, <2>4, <2>7, CallStep
<1>5. CASE proposal.status # "ready"
  <2>1. Finish(t, "needs_proposal", j.entries)
    BY <1>5 DEF Propose
  <2> DEFINE d == Ended(j, "needs_proposal", j.entries)
  <2>2. d.op = "enqueue"
    BY <1>1, <1>2, EndedFacts
  <2>3. Excused(d) /\ Complete(d) /\ Selected(d)
    <3> HIDE DEF d
    <3> QED BY <2>2 DEF Excused, Complete, Selected, Memory
  <2> QED BY <1>1, <1>3, <2>1, <2>3, EndStep
<1> QED BY <1>4, <1>5

LEMMA QueuedFacts ==
  ASSUME NEW e \in Queued
  PROVE  \E p \in Proposals, c \in Nat, s \in Nat : e = QueuedAs(p, c, s)
BY DEF Queued

LEMMA OneWord ==
  ASSUME NEW S, NEW w \in S
  PROVE  <<w>> \in Seq(S) /\ Len(<<w>>) = 1
OBVIOUS

LEMMA ConcatFacts ==
  ASSUME NEW S, NEW x \in Seq(S), NEW e \in Seq(S)
  PROVE  /\ x \o e \in Seq(S) /\ Len(x \o e) = Len(x) + Len(e)
         /\ Len(x) \in Nat /\ Len(e) \in Nat
         /\ \A i \in 1..Len(x) : (x \o e)[i] = x[i]
         /\ \A i \in 1..Len(e) : (x \o e)[Len(x) + i] = e[i]
<1>1. /\ x \o e \in Seq(S) /\ Len(x \o e) = Len(x) + Len(e)
      /\ Len(x) \in Nat /\ Len(e) \in Nat
  OBVIOUS
<1>2. \A i \in 1..(Len(x) + Len(e)) :
        (x \o e)[i] = IF i <= Len(x) THEN x[i] ELSE e[i - Len(x)]
  OBVIOUS
<1>3. ASSUME NEW i \in 1..Len(x) PROVE (x \o e)[i] = x[i]
  BY <1>1, <1>2
<1>4. ASSUME NEW i \in 1..Len(e) PROVE (x \o e)[Len(x) + i] = e[i]
  <2> DEFINE m == Len(x)
             n == Len(e)
  <2>1. m \in Nat /\ n \in Nat /\ i \in 1..n
    BY <1>1
  <2> HIDE DEF m, n
  <2>2. m + i \in 1..(m + n) /\ ~ (m + i <= m) /\ (m + i) - m = i
    BY <2>1
  <2> QED BY <1>2, <2>2 DEF m, n
<1> QED BY <1>1, <1>3, <1>4

\* The texts of a proposal come from the caller and from a task.
LEMMA ProposalFacts ==
  ASSUME NEW p \in Proposals
  PROVE  /\ p.action \in Texts /\ p.target \in Texts /\ p.data \in Texts
         /\ p.effect \in Texts /\ p.task \in Texts
         /\ p = [status |-> p.status, action |-> p.action, target |-> p.target,
                 data |-> p.data, effect |-> p.effect, task |-> p.task]
<1>1. PICK x \in Explicits, o \in Objectives : p = ActionProposal(x, o)
  BY DEF Proposals
<1>2. x.action \in Texts /\ x.target \in Texts /\ x.data \in Texts /\ x.effect \in Texts
  BY TextsAssumption
<1>3. NoText \in Texts
  <2>1. "" \in Words
    BY RecordsAssumption, Zenon
  <2>2. NoText \in Seq(Words) /\ Len(NoText) = 1
    BY <2>1, OneWord DEF NoText
  <2>3. NoText # << >>
    BY DEF NoText
  <2> QED BY <2>2, <2>3, Zenon DEF Texts
<1> DEFINE tasks == Tasks(o)
           task == UsefulTask(tasks)
           Fields == [id : Texts, status : STRING, title : Texts, target : Texts]
<1>4. tasks \in Seq(Fields)
  <2>1. CASE o \in {NoState, BadState}
    BY <2>1 DEF Tasks
  <2>2. CASE o \notin {NoState, BadState}
    BY <2>2, TextsAssumption DEF Tasks
  <2> QED BY <2>1, <2>2
<1> HIDE DEF tasks
<1>5. task.id \in Texts /\ task.title \in Texts /\ task.target \in Texts
  <2> DEFINE open == {i \in DOMAIN tasks : tasks[i].status \notin {"done", "blocked"}}
  <2>1. CASE tasks = << >>
    BY <1>3, <2>1 DEF UsefulTask, NoTask
  <2>2. ASSUME NEW i \in DOMAIN tasks, task = tasks[i]
        PROVE  task.id \in Texts /\ task.title \in Texts /\ task.target \in Texts
    <3>1. tasks[i] \in Fields
      <4> HIDE DEF Fields
      <4> QED BY <1>4
    <3> QED BY <2>2, <3>1
  <2>3. CASE tasks # << >> /\ open = {}
    <3>1. task = tasks[1] /\ 1 \in DOMAIN tasks
      BY <1>4, <2>3 DEF UsefulTask
    <3> QED BY <2>2, <3>1
  <2>4. CASE tasks # << >> /\ open # {}
    <3>1. open \in SUBSET Nat
      BY <1>4
    <3>2. task = tasks[CHOOSE i \in open : \A k \in open : i <= k]
      BY <2>4 DEF UsefulTask
    <3> HIDE DEF task
    <3>3. open \subseteq DOMAIN tasks
      OBVIOUS
    <3> HIDE DEF open
    <3>4. PICK i : i \in open /\ task = tasks[i]
      BY <2>4, <3>1, <3>2, LeastNat
    <3> QED BY <2>2, <3>3, <3>4
  <2> QED BY <2>1, <2>3, <2>4
<1> HIDE DEF task
<1>6. /\ p.action = IF x.action # NoText THEN x.action ELSE task.title
      /\ p.target = IF x.target # NoText THEN x.target ELSE task.target
      /\ p.data = x.data /\ p.effect = x.effect /\ p.task = task.id
      /\ p = [status |-> p.status, action |-> p.action, target |-> p.target,
              data |-> p.data, effect |-> p.effect, task |-> p.task]
  BY <1>1 DEF ActionProposal, task, tasks
<1> QED BY <1>2, <1>5, <1>6

\* Two concatenations that are equal, and whose last parts are equally long, are equal
\* part by part.
LEMMA LastParts ==
  ASSUME NEW S, NEW x \in Seq(S), NEW y \in Seq(S), NEW e \in Seq(S), NEW f \in Seq(S),
         x \o e = y \o f, Len(e) = Len(f)
  PROVE  x = y /\ e = f
<1>1. /\ Len(x \o e) = Len(x) + Len(e) /\ Len(y \o f) = Len(y) + Len(f)
      /\ Len(x) \in Nat /\ Len(y) \in Nat /\ Len(e) \in Nat
  BY ConcatFacts
<1>2. Len(x) = Len(y)
  BY <1>1
<1>3. ASSUME NEW i \in 1..Len(x) PROVE x[i] = y[i]
  <2>1. (x \o e)[i] = x[i] /\ (y \o f)[i] = y[i]
    BY <1>2, ConcatFacts
  <2> QED BY <2>1
<1>4. ASSUME NEW i \in 1..Len(e) PROVE e[i] = f[i]
  <2>1. (x \o e)[Len(x) + i] = e[i] /\ (y \o f)[Len(y) + i] = f[i]
    BY ConcatFacts
  <2> QED BY <1>2, <2>1
<1>5. x = y
  BY <1>2, <1>3
<1>6. e = f
  BY <1>2, <1>4
<1> QED BY <1>5, <1>6

Long(S, n) == {x \in Seq(S) : Len(x) = n}
AsLong(S, n) == {x \in Seq(S) : Len(x) >= n}

LEMMA OneMore ==
  ASSUME NEW S, NEW n \in Nat
  PROVE  /\ \A x \in Long(S, n), e \in Long(S, 1) : x \o e \in Long(S, n + 1)
         /\ \A x \in AsLong(S, n), e \in AsLong(S, 1) : x \o e \in AsLong(S, n + 1)
<1> SUFFICES ASSUME NEW x \in Seq(S), NEW e \in Seq(S)
             PROVE  /\ x \o e \in Seq(S)
                    /\ Len(x) = n /\ Len(e) = 1 => Len(x \o e) = n + 1
                    /\ Len(x) >= n /\ Len(e) >= 1 => Len(x \o e) >= n + 1
  BY DEF Long, AsLong
<1>1. /\ x \o e \in Seq(S) /\ Len(x \o e) = Len(x) + Len(e)
      /\ Len(x) \in Nat /\ Len(e) \in Nat
  BY ConcatFacts
<1> DEFINE u == Len(x)
           v == Len(e)
           w == x \o e
           r == Len(w)
<1> HIDE DEF u, v, w, r
<1>2. w \in Seq(S) /\ r = u + v /\ u \in Nat /\ v \in Nat
  BY <1>1 DEF u, v, w, r
<1>3. /\ u = n /\ v = 1 => r = n + 1
      /\ u >= n /\ v >= 1 => r >= n + 1
  BY <1>2
<1> QED BY <1>2, <1>3, Zenon DEF u, v, w, r

LEMMA OneIsAsLong ==
  ASSUME NEW S, NEW x \in Long(S, 1)
  PROVE  x \in AsLong(S, 1)
BY DEF Long, AsLong

\* What two equal concatenations end with can be taken off.
TakesOff(S, n) ==
  \A x \in Long(S, n), y \in AsLong(S, n) : \A e \in Long(S, 1), f \in AsLong(S, 1) :
    x \o e = y \o f => x = y /\ e = f

LEMMA OneLess ==
  ASSUME NEW S, NEW n \in Nat
  PROVE  TakesOff(S, n)
<1> SUFFICES ASSUME NEW x \in Long(S, n), NEW y \in AsLong(S, n),
                    NEW e \in Long(S, 1), NEW f \in AsLong(S, 1), x \o e = y \o f
             PROVE  x = y /\ e = f
  BY Zenon DEF TakesOff
<1>1. /\ x \in Seq(S) /\ Len(x) = n /\ e \in Seq(S) /\ Len(e) = 1
      /\ y \in Seq(S) /\ Len(y) >= n /\ f \in Seq(S) /\ Len(f) >= 1
  BY DEF Long, AsLong
<1>2. /\ Len(x \o e) = Len(x) + Len(e) /\ Len(y \o f) = Len(y) + Len(f)
      /\ Len(y) \in Nat /\ Len(f) \in Nat
  BY <1>1, ConcatFacts
<1>3. Len(e) = Len(f)
  BY <1>1, <1>2
<1> QED BY <1>1, <1>3, LastParts

\* The joined texts of a proposal without "|" are those of no other proposal.
LEMMA PlainIds ==
  ASSUME NEW p \in Proposals, NEW q \in Proposals,
         ProposalId(q) = ProposalId(p), Plain(p)
  PROVE  q = p
<1> DEFINE low == <<"low">>
           Joined(r) == r.action \o r.target \o r.data \o r.effect \o low \o r.task
<1>1. q.status = p.status /\ Joined(p) = Joined(q)
  <2>1. <<q.status, Joined(q)>> = <<p.status, Joined(p)>>
    BY DEF ProposalId
  <2> HIDE DEF Joined
  <2> QED BY <2>1
<1>2. low \in Long(Words, 1)
  <2>1. "low" \in Words
    BY RecordsAssumption, Zenon
  <2> QED BY <2>1, OneWord DEF Long
<1> HIDE DEF low
<1>3. \A text \in Texts : text \in AsLong(Words, 1) /\ (Len(text) = 1 => text \in Long(Words, 1))
  BY DEF Texts, Long, AsLong
<1>4. /\ p.action \in Long(Words, 1) /\ p.target \in Long(Words, 1) /\ p.data \in Long(Words, 1)
      /\ p.effect \in Long(Words, 1) /\ p.task \in Long(Words, 1)
  BY <1>3, ProposalFacts DEF Plain
<1>5. /\ q.action \in AsLong(Words, 1) /\ q.target \in AsLong(Words, 1)
      /\ q.data \in AsLong(Words, 1) /\ q.effect \in AsLong(Words, 1)
      /\ q.task \in AsLong(Words, 1)
  BY <1>3, ProposalFacts
<1> DEFINE a == p.action   b == p.target   c == p.data   d == p.effect   e == p.task
           k == q.action   l == q.target   m == q.data   n == q.effect   o == q.task
<1>6. a \o b \o c \o d \o low \o e = k \o l \o m \o n \o low \o o
  BY <1>1
<1>a. /\ a \in Long(Words, 1) /\ b \in Long(Words, 1) /\ c \in Long(Words, 1)
      /\ d \in Long(Words, 1) /\ e \in Long(Words, 1)
  BY <1>4
<1>b. /\ k \in AsLong(Words, 1) /\ l \in AsLong(Words, 1) /\ m \in AsLong(Words, 1)
      /\ n \in AsLong(Words, 1) /\ o \in AsLong(Words, 1)
  BY <1>5
<1> HIDE DEF a, b, c, d, e, k, l, m, n, o
<1> USE <1>2, <1>a, <1>b
<1>7. \A i \in Nat : /\ \A x \in Long(Words, i), y \in Long(Words, 1) : x \o y \in Long(Words, i + 1)
                     /\ \A x \in AsLong(Words, i), y \in AsLong(Words, 1) : x \o y \in AsLong(Words, i + 1)
  BY OneMore
<1>8. low \in AsLong(Words, 1)
  BY OneIsAsLong
<1>9. a \o b \in Long(Words, 2) /\ k \o l \in AsLong(Words, 2)
  <2>1. 1 \in Nat /\ 1 + 1 = 2
    OBVIOUS
  <2> QED BY <1>7, <2>1, Zenon
<1>10. a \o b \o c \in Long(Words, 3) /\ k \o l \o m \in AsLong(Words, 3)
  <2>1. 2 \in Nat /\ 2 + 1 = 3
    OBVIOUS
  <2> QED BY <1>7, <1>9, <2>1, Zenon
<1>11. a \o b \o c \o d \in Long(Words, 4) /\ k \o l \o m \o n \in AsLong(Words, 4)
  <2>1. 3 \in Nat /\ 3 + 1 = 4
    OBVIOUS
  <2> QED BY <1>7, <1>10, <2>1, Zenon
<1>12. a \o b \o c \o d \o low \in Long(Words, 5) /\ k \o l \o m \o n \o low \in AsLong(Words, 5)
  <2>1. 4 \in Nat /\ 4 + 1 = 5
    OBVIOUS
  <2> QED BY <1>7, <1>8, <1>11, <2>1, Zenon
<1>13. TakesOff(Words, 1) /\ TakesOff(Words, 2) /\ TakesOff(Words, 3) /\ TakesOff(Words, 4) /\ TakesOff(Words, 5)
  BY OneLess
<1>14. a \o b \o c \o d \o low = k \o l \o m \o n \o low /\ e = o
  <2> DEFINE x == a \o b \o c \o d \o low
             v == k \o l \o m \o n \o low
  <2>1. 5 \in Nat /\ x \in Long(Words, 5) /\ v \in AsLong(Words, 5) /\ x \o e = v \o o
    BY <1>6, <1>12, Zenon
  <2> HIDE DEF x, v
  <2>2. \A y \in AsLong(Words, 5) : \A g \in Long(Words, 1), h \in AsLong(Words, 1) :
          x \o g = y \o h => x = y /\ g = h
    BY <1>13, <2>1, Zenon DEF TakesOff
  <2>3. \A g \in Long(Words, 1), h \in AsLong(Words, 1) : x \o g = v \o h => x = v /\ g = h
    BY <2>1, <2>2, Zenon
  <2>4. x \o e = v \o o => x = v /\ e = o
    BY <2>3, Zenon
  <2> QED BY <2>1, <2>4, Zenon DEF x, v
<1>15. a \o b \o c \o d = k \o l \o m \o n
  <2> DEFINE x == a \o b \o c \o d
             v == k \o l \o m \o n
  <2>1. 4 \in Nat /\ x \in Long(Words, 4) /\ v \in AsLong(Words, 4) /\ x \o low = v \o low
    BY <1>11, <1>14, Zenon
  <2> HIDE DEF x, v
  <2>2. \A y \in AsLong(Words, 4) : \A g \in Long(Words, 1), h \in AsLong(Words, 1) :
          x \o g = y \o h => x = y /\ g = h
    BY <1>13, <2>1, Zenon DEF TakesOff
  <2>3. \A g \in Long(Words, 1), h \in AsLong(Words, 1) : x \o g = v \o h => x = v /\ g = h
    BY <2>1, <2>2, Zenon
  <2>4. x \o low = v \o low => x = v /\ low = low
    BY <1>8, <2>3, Zenon
  <2> QED BY <2>1, <2>4, Zenon DEF x, v
<1>16. a \o b \o c = k \o l \o m /\ d = n
  <2> DEFINE x == a \o b \o c
             v == k \o l \o m
  <2>1. 3 \in Nat /\ x \in Long(Words, 3) /\ v \in AsLong(Words, 3) /\ x \o d = v \o n
    BY <1>10, <1>15, Zenon
  <2> HIDE DEF x, v
  <2>2. \A y \in AsLong(Words, 3) : \A g \in Long(Words, 1), h \in AsLong(Words, 1) :
          x \o g = y \o h => x = y /\ g = h
    BY <1>13, <2>1, Zenon DEF TakesOff
  <2>3. \A g \in Long(Words, 1), h \in AsLong(Words, 1) : x \o g = v \o h => x = v /\ g = h
    BY <2>1, <2>2, Zenon
  <2>4. x \o d = v \o n => x = v /\ d = n
    BY <2>3, Zenon
  <2> QED BY <2>1, <2>4, Zenon DEF x, v
<1>17. a \o b = k \o l /\ c = m
  <2> DEFINE x == a \o b
             v == k \o l
  <2>1. 2 \in Nat /\ x \in Long(Words, 2) /\ v \in AsLong(Words, 2) /\ x \o c = v \o m
    BY <1>9, <1>16, Zenon
  <2> HIDE DEF x, v
  <2>2. \A y \in AsLong(Words, 2) : \A g \in Long(Words, 1), h \in AsLong(Words, 1) :
          x \o g = y \o h => x = y /\ g = h
    BY <1>13, <2>1, Zenon DEF TakesOff
  <2>3. \A g \in Long(Words, 1), h \in AsLong(Words, 1) : x \o g = v \o h => x = v /\ g = h
    BY <2>1, <2>2, Zenon
  <2>4. x \o c = v \o m => x = v /\ c = m
    BY <2>3, Zenon
  <2> QED BY <2>1, <2>4, Zenon DEF x, v
<1>18. a = k /\ b = l
  <2> DEFINE x == a
             v == k
  <2>1. 1 \in Nat /\ x \in Long(Words, 1) /\ v \in AsLong(Words, 1) /\ x \o b = v \o l
    BY <1>17, Zenon
  <2> HIDE DEF x, v
  <2>2. \A y \in AsLong(Words, 1) : \A g \in Long(Words, 1), h \in AsLong(Words, 1) :
          x \o g = y \o h => x = y /\ g = h
    BY <1>13, <2>1, Zenon DEF TakesOff
  <2>3. \A g \in Long(Words, 1), h \in AsLong(Words, 1) : x \o g = v \o h => x = v /\ g = h
    BY <2>1, <2>2, Zenon
  <2>4. x \o b = v \o l => x = v /\ b = l
    BY <2>3, Zenon
  <2> QED BY <2>1, <2>4, Zenon DEF x, v
<1>19. p = q
  BY <1>1, <1>14, <1>16, <1>17, <1>18, ProposalFacts DEF a, b, c, d, e, k, l, m, n, o
<1> QED BY <1>19

\* The entry that is found by the id of a shown one.
LEMMA SelectFacts ==
  ASSUME NEW entries \in Seq(Queued), NEW shown \in Queued,
         SelectEntry(entries, shown.id) # << >>
  PROVE  ActsOn(SelectEntry(entries, shown.id)[1].proposal, shown.proposal)
<1> DEFINE those == {i \in DOMAIN entries : shown.id = NoId \/ entries[i].id = shown.id}
<1>1. PICK p \in Proposals, c \in Nat, s \in Nat :
        shown = QueuedAs(p, c, s)
  BY QueuedFacts
<1>2. shown.id # NoId
  BY <1>1 DEF NoId, QueuedAs
<1>3. those # {} /\ SelectEntry(entries, shown.id)
                      = <<entries[CHOOSE i \in those : \A k \in those : i <= k]>>
  BY DEF SelectEntry
<1>4. those \in SUBSET Nat
  OBVIOUS
<1>5. \A i \in those : entries[i] \in Queued /\ entries[i].id = shown.id
  BY <1>2
<1> HIDE DEF those
<1>6. PICK k : k \in those /\ SelectEntry(entries, shown.id) = <<entries[k]>>
  BY <1>3, <1>4, LeastNat
<1>7. PICK q \in Proposals, c2 \in Nat, s2 \in Nat :
        entries[k] = QueuedAs(q, c2, s2)
  <2>1. entries[k] \in Queued
    BY <1>5, <1>6
  <2> QED BY <2>1, QueuedFacts
<1>8. ProposalId(q) = ProposalId(p)
  <2> DEFINE x == ProposalId(p)   y == ProposalId(q)
             u == p.action \o p.target   v == q.action \o q.target
  <2>a. /\ shown = [type |-> "entry", id |-> <<x, c, s, u>>, proposal |-> p]
        /\ entries[k] = [type |-> "entry", id |-> <<y, c2, s2, v>>, proposal |-> q]
    BY <1>1, <1>7, Zenon DEF QueuedAs
  <2> HIDE DEF x, y, u, v
  <2>1. shown.id = <<x, c, s, u>> /\ entries[k].id = <<y, c2, s2, v>>
    BY <2>a
  <2>2. <<x, c, s, u>> = <<y, c2, s2, v>>
    BY <1>5, <1>6, <2>1
  <2> QED BY <2>2 DEF x, y
<1>9. entries[k].proposal = q /\ shown.proposal = p
  BY <1>1, <1>7 DEF QueuedAs
<1> QED BY <1>6, <1>8, <1>9, PlainIds DEF ActsOn

LEMMA LoopStep ==
  ASSUME RecordsInv, NEW t \in Threads, Loop(t)
  PROVE  RecordsInv'
<1> DEFINE j == job[t]
           load == LoadEntries(files[Inbox])
           entry == SelectEntry(load.entries, IF j.draft = NoId THEN NoId ELSE j.draft.id)
           status == IF ~ load.ok THEN "blocked"
                     ELSE IF entry = << >> THEN "needs_approval" ELSE "ready"
           d == Ended(j, status, entry)
<1>1. /\ j.op = "loop" /\ j.stage = "read" /\ UNCHANGED <<files, objective, second, told, used>>
      /\ Finish(t, status, entry)
  BY DEF Loop, At
<1>2. /\ CallInv(j) /\ IsCall(j)
  BY DEF RecordsInv, Typed
<1>3. j.draft = NoId \/ j.draft \in Queued
  BY <1>1, <1>2 DEF CallInv, Seen
<1>4. load.entries \in Seq(Queued)
  BY InboxFacts
<1>5. ASSUME status = "ready", j.draft # NoId
      PROVE  ActsOn(entry[1].proposal, j.draft.proposal)
  <2>1. entry = SelectEntry(load.entries, j.draft.id) /\ entry # << >>
    BY <1>5
  <2> HIDE DEF load
  <2> QED BY <1>3, <1>4, <1>5, <2>1, SelectFacts
<1> HIDE DEF status, entry
<1>6. d.op = "loop" /\ d.status = status /\ d.entries = entry /\ d.draft = j.draft
  BY <1>1, <1>2, EndedFacts
<1>7. Excused(d) /\ Complete(d) /\ Selected(d)
  <2> HIDE DEF d
  <2>1. Excused(d) /\ Complete(d)
    BY <1>6 DEF Excused, Complete, Memory
  <2>2. Selected(d)
    BY <1>5, <1>6 DEF Selected
  <2> QED BY <2>1, <2>2
<1> QED BY <1>1, <1>7, EndStep

-----------------------------------------------------------------------------
(* Steps that write, or report what was written                             *)

\* What is in a file stays there.
FilesGrow ==
  \A f \in Files : \A i \in DOMAIN files[f] :
    i \in DOMAIN files'[f] /\ files'[f][i] = files[f][i]

LEMMA PlacesGrow ==
  ASSUME Held, FilesGrow, NEW f \in Files, NEW record
  PROVE  \A i \in PlacesOf(files[f], record) :
           /\ i \in PlacesOf(files'[f], record)
           /\ Spoiled(files[f], i) => Spoiled(files'[f], i)
<1> SUFFICES ASSUME NEW i \in PlacesOf(files[f], record)
             PROVE  /\ i \in PlacesOf(files'[f], record)
                    /\ Spoiled(files[f], i) => Spoiled(files'[f], i)
  OBVIOUS
<1>1. i \in DOMAIN files[f] /\ files[f][i].record = record
  BY DEF PlacesOf
<1>2. i \in DOMAIN files'[f] /\ files'[f][i] = files[f][i]
  BY <1>1 DEF FilesGrow
<1>3. DOMAIN files[f] = 1..Len(files[f]) /\ Len(files[f]) \in Nat
  BY DEF Held
<1>4. i > 1 => files'[f][i - 1] = files[f][i - 1]
  <2>1. SUFFICES ASSUME i > 1 PROVE i - 1 \in DOMAIN files[f]
    BY DEF FilesGrow
  <2> QED BY <1>1, <1>3, <2>1
<1> QED BY <1>1, <1>2, <1>4 DEF PlacesOf, Spoiled

LEMMA CallGrows ==
  ASSUME Held, FilesGrow, told.forgotten \subseteq told'.forgotten,
         told.queued \subseteq told'.queued, NEW c, CallInv(c)
  PROVE  CallInv(c)'
<1>1. Placed(c)'
  <2>1. ASSUME c.stage = "reread" PROVE PlacesOf(files'[FileFor(c)], c.draft) # {}
    <3>1. /\ c.op \in {"remember", "forget", "enqueue"}
          /\ PlacesOf(files[FileFor(c)], c.draft) # {}
          /\ c.op \in Memory => c.project \in Projects
      BY <2>1 DEF CallInv, Placed
    <3>2. FileFor(c) \in Files
      BY <3>1 DEF FileFor, Files, Memory
    <3> QED BY <3>1, <3>2, PlacesGrow
  <2> QED BY <2>1 DEF CallInv, Placed
<1>2. Seen(c)'
  BY DEF CallInv, Seen
<1>3. Excused(c)'
  <2>1. SUFFICES ASSUME c.op \in Memory \cup {"pack"},
                        NEW e \in ToSet(c.entries), e.id \in c.since.forgotten
                 PROVE  /\ e.id[1] \in Projects
                        /\ \E i \in PlacesOf(files'[e.id[1]], Tombstone(e.id)) :
                             Spoiled(files'[e.id[1]], i)
    BY DEF Excused
  <2>2. /\ e.id[1] \in Projects
        /\ \E i \in PlacesOf(files[e.id[1]], Tombstone(e.id)) : Spoiled(files[e.id[1]], i)
    BY <2>1 DEF CallInv, Excused
  <2>3. e.id[1] \in Files
    BY <2>2 DEF Files
  <2> QED BY <2>2, <2>3, PlacesGrow
<1>4. Complete(c)' /\ Selected(c)'
  BY DEF CallInv, Complete, Selected
<1> QED BY <1>1, <1>2, <1>3, <1>4 DEF CallInv

LEMMA GrowStep ==
  ASSUME RecordsInv, NEW t \in Threads, NEW j, IsCall(j), job' = [job EXCEPT ![t] = j],
         UNCHANGED <<objective, second>>, IsUsed(used'), IsTold(told'),
         files' = [f \in Files |-> files'[f]], Held', FilesGrow,
         told.forgotten \subseteq told'.forgotten, told.queued \subseteq told'.queued,
         \A id \in told'.queued \ told.queued :
           \E i \in DOMAIN files'[Inbox] : files'[Inbox][i].record.id = id,
         \A id \in told'.forgotten \ told.forgotten :
           id[1] \in Projects /\ PlacesOf(files'[id[1]], Tombstone(id)) # {},
         CallInv(j)'
  PROVE  RecordsInv'
<1>0. Typed /\ Reported /\ Held
  BY DEF RecordsInv, Typed
<1>1. job' = [u \in Threads |-> job'[u]] /\ \A u \in Threads : job'[u] = IF u = t THEN j ELSE job[u]
  BY <1>0 DEF Typed
<1>2. Typed'
  BY <1>0, <1>1 DEF Typed
<1>3. Reported'
  <2>1. ASSUME NEW id \in told.queued
        PROVE  \E i \in DOMAIN files'[Inbox] : files'[Inbox][i].record.id = id
    BY <1>0, <2>1 DEF Reported, FilesGrow, Files
  <2>2. ASSUME NEW id \in told.forgotten
        PROVE  id[1] \in Projects /\ PlacesOf(files'[id[1]], Tombstone(id)) # {}
    <3>1. id[1] \in Projects /\ PlacesOf(files[id[1]], Tombstone(id)) # {}
      BY <1>0 DEF Reported
    <3> QED BY <1>0, <3>1, PlacesGrow DEF Files
  <2>3. ASSUME NEW id \in told'.forgotten
        PROVE  id[1] \in Projects /\ PlacesOf(files'[id[1]], Tombstone(id)) # {}
    BY <2>2
  <2>4. ASSUME NEW id \in told'.queued
        PROVE  \E i \in DOMAIN files'[Inbox] : files'[Inbox][i].record.id = id
    BY <2>1
  <2> QED BY <2>3, <2>4 DEF Reported
<1>4. ASSUME NEW u \in Threads PROVE CallInv(job[u])'
  <2>1. PICK c : c = job'[u]
    OBVIOUS
  <2>2. CallInv(c)'
    <3>1. CASE u = t
      BY <1>1, <2>1, <3>1
    <3>2. CASE u # t
      <4>1. CallInv(c)
        BY <1>1, <2>1, <3>2 DEF RecordsInv
      <4> QED BY <1>0, <4>1, CallGrows
    <3> QED BY <3>1, <3>2
  <2> QED BY <2>1, <2>2 DEF CallInv, Placed, Seen, Excused, Complete, Selected
<1> QED BY <1>2, <1>3, <1>4 DEF RecordsInv

LEMMA RereadStep ==
  ASSUME RecordsInv, NEW t \in Threads, Reread(t)
  PROVE  RecordsInv'
<1> DEFINE j == job[t]
           entries == Active(files[j.project])
           status == IF j.op = "remember" THEN "written" ELSE "forgotten"
<1>1. /\ j.op \in {"remember", "forget"} /\ j.stage = "reread" /\ Finish(t, status, entries)
      /\ told' = [told EXCEPT ![status] = told[status] \cup {j.id}]
      /\ UNCHANGED <<files, objective, second, used>>
  BY DEF Reread, At
<1>2. /\ CallInv(j) /\ IsCall(j) /\ Typed /\ IsUsed(used) /\ IsTold(told) /\ Held
  BY DEF RecordsInv, Typed
<1>3. j.project \in Projects /\ j.since.forgotten \subseteq told.forgotten
  BY <1>1, <1>2 DEF CallInv, Placed, Seen, Memory
<1>4. /\ IsTold(told') /\ told'.queued = told.queued /\ told.forgotten \subseteq told'.forgotten
      /\ told'.forgotten \subseteq told.forgotten \cup {j.id}
      /\ j.op = "remember" => told'.forgotten = told.forgotten
  <2>1. PICK written, forgotten, queued :
          told = [written |-> written, forgotten |-> forgotten, queued |-> queued]
    BY <1>2 DEF IsTold
  <2>2. CASE j.op = "remember"
    <3>1. told' = [told EXCEPT !.written = told.written \cup {j.id}]
      BY <1>1, <2>2
    <3>2. told' = [written |-> written \cup {j.id}, forgotten |-> forgotten, queued |-> queued]
      BY <2>1, <3>1
    <3> QED BY <2>1, <3>2 DEF IsTold
  <2>3. CASE j.op = "forget"
    <3>1. told' = [told EXCEPT !.forgotten = told.forgotten \cup {j.id}]
      BY <1>1, <2>3
    <3>2. told' = [written |-> written, forgotten |-> forgotten \cup {j.id}, queued |-> queued]
      BY <2>1, <3>1
    <3> QED BY <2>1, <2>3, <3>2 DEF IsTold
  <2> QED BY <1>1, <2>2, <2>3
\* What the call wrote is in the file: a note, or a tombstone of the note.
<1>5. /\ FileFor(j) = j.project /\ j.draft \in Notes(j.project) /\ j.draft.id = j.id
      /\ j.op = "forget" => j.draft.type = "forgotten"
      /\ PlacesOf(files[j.project], j.draft) # {}
  <2>1. FileFor(j) = j.project
    BY <1>1 DEF FileFor
  <2> QED BY <1>1, <1>2, <1>3, <2>1, RecordsOfFacts DEF CallInv, Placed
<1>6. ASSUME j.op = "forget"
      PROVE  j.id[1] = j.project /\ j.draft = Tombstone(j.id)
  BY <1>5, <1>6 DEF Notes, Tombstone
<1>7. \A id \in told'.forgotten \ told.forgotten :
        id[1] \in Projects /\ PlacesOf(files'[id[1]], Tombstone(id)) # {}
  <2>1. SUFFICES ASSUME NEW id \in told'.forgotten \ told.forgotten
                 PROVE  id[1] \in Projects /\ PlacesOf(files[id[1]], Tombstone(id)) # {}
    BY <1>1
  <2>2. id = j.id /\ j.op = "forget"
    BY <1>1, <1>4
  <2> QED BY <1>3, <1>5, <1>6, <2>2
<1> HIDE DEF status
<1> PICK d : d = Ended(j, status, entries)
  OBVIOUS
<1>8. /\ job' = [job EXCEPT ![t] = d] /\ IsCall(d) /\ d.stage = "done" /\ d.entries = entries
      /\ d.op = j.op /\ d.since = j.since
  BY <1>1, <1>2, FinishFacts, EndedFacts
<1>9. Excused(d)
  BY <1>3, <1>8, ShownExcused DEF Excused
<1>10. CallInv(d)
  BY <1>1, <1>2, <1>8, <1>9 DEF CallInv, Placed, Seen, Complete, Selected
<1>11. FilesGrow
  BY <1>1 DEF FilesGrow
<1>12. CallInv(d)'
  BY <1>2, <1>4, <1>10, <1>11, CallGrows
<1>13. files' = [f \in Files |-> files'[f]] /\ Held' /\ IsUsed(used')
  BY <1>1, <1>2 DEF Typed, Held
<1> QED BY <1>1, <1>4, <1>7, <1>8, <1>11, <1>12, <1>13, GrowStep

LEMMA ReloadStep ==
  ASSUME RecordsInv, NEW t \in Threads, Reload(t)
  PROVE  RecordsInv'
<1> DEFINE j == job[t]
           load == LoadEntries(files[Inbox])
           status == IF load.ok THEN "ready" ELSE "blocked"
<1>1. /\ j.op = "enqueue" /\ j.stage = "reread" /\ Finish(t, status, load.entries)
      /\ told' = IF load.ok THEN [told EXCEPT !.queued = told.queued \cup {j.id}] ELSE told
      /\ UNCHANGED <<files, objective, second, used>>
  BY DEF Reload, At
<1>2. /\ CallInv(j) /\ IsCall(j) /\ Typed /\ IsUsed(used) /\ IsTold(told) /\ Held
  BY DEF RecordsInv, Typed
<1>3. load.entries \in Seq(Queued)
  BY InboxFacts
<1> HIDE DEF load
<1>4. /\ IsTold(told') /\ told'.forgotten = told.forgotten /\ told.queued \subseteq told'.queued
      /\ told'.queued \subseteq told.queued \cup {j.id}
  <2>1. PICK written, forgotten, queued :
          told = [written |-> written, forgotten |-> forgotten, queued |-> queued]
    BY <1>2 DEF IsTold
  <2>2. told' = told
        \/ told' = [written |-> written, forgotten |-> forgotten, queued |-> queued \cup {j.id}]
    BY <1>1, <2>1
  <2>3. CASE told' = told
    BY <1>2, <2>3 DEF IsTold
  <2>4. CASE told' = [written |-> written, forgotten |-> forgotten, queued |-> queued \cup {j.id}]
    BY <2>1, <2>4 DEF IsTold
  <2> QED BY <2>2, <2>3, <2>4
<1>5. \A id \in told'.queued \ told.queued :
        \E i \in DOMAIN files'[Inbox] : files'[Inbox][i].record.id = id
  <2>1. FileFor(j) = Inbox
    BY <1>1 DEF FileFor
  <2>2. j.draft.id = j.id /\ PlacesOf(files[Inbox], j.draft) # {}
    BY <1>1, <1>2, <2>1 DEF CallInv, Placed
  <2> QED BY <1>1, <1>4, <2>2 DEF PlacesOf
<1> HIDE DEF status
<1> PICK d : d = Ended(j, status, load.entries)
  OBVIOUS
<1>6. /\ job' = [job EXCEPT ![t] = d] /\ IsCall(d) /\ d.stage = "done" /\ d.entries = load.entries
      /\ d.op = j.op /\ d.since = j.since /\ d.explicit = j.explicit
  BY <1>1, <1>2, FinishFacts, EndedFacts
<1>7. CallInv(d)
  BY <1>1, <1>2, <1>3, <1>6 DEF CallInv, Placed, Seen, Excused, Complete, Selected, Memory
<1>8. FilesGrow
  BY <1>1 DEF FilesGrow
<1>9. CallInv(d)'
  BY <1>2, <1>4, <1>7, <1>8, CallGrows
<1>10. files' = [f \in Files |-> files'[f]] /\ Held' /\ IsUsed(used')
  BY <1>1, <1>2 DEF Typed, Held
<1> QED BY <1>1, <1>4, <1>5, <1>6, <1>8, <1>9, <1>10, GrowStep

\* A write adds the record of the call to its file.
LEMMA WriteFacts ==
  ASSUME RecordsInv, NEW t \in Threads, job[t].stage = "append", NEW cut \in Cuts, Write(t, cut)
  PROVE  /\ files' = [f \in Files |-> files'[f]] /\ Held' /\ FilesGrow
         /\ PlacesOf(files'[FileFor(job[t])], job[t].draft) # {}
<1> DEFINE j == job[t]
           g == FileFor(j)
           w == [record |-> j.draft, cut |-> cut]
<1>1. CallInv(j) /\ Typed /\ Held
  BY DEF RecordsInv, Typed
<1>2. /\ j.op \in {"remember", "forget", "enqueue", "audit", "record"}
      /\ j.draft \in RecordsOf(g) /\ (j.op \in Memory => j.project \in Projects)
  BY <1>1 DEF CallInv, Placed
<1>3. g \in Files
  BY <1>2 DEF FileFor, Files, Memory
<1>4. files' = [files EXCEPT ![g] = Append(files[g], w)]
  BY DEF Write, FileOf, FileFor
<1>5. w \in Writes(RecordsOf(g)) /\ w.record = j.draft
  BY <1>2 DEF Writes
<1> HIDE DEF g, w
<1>6. files' = [f \in Files |-> files'[f]]
      /\ \A f \in Files : files'[f] = IF f = g THEN Append(files[g], w) ELSE files[f]
  BY <1>1, <1>4 DEF Typed
<1>7. files[g] \in Seq(Writes(RecordsOf(g)))
  BY <1>1, <1>3 DEF Held
<1>8. /\ Append(files[g], w) \in Seq(Writes(RecordsOf(g)))
      /\ DOMAIN Append(files[g], w) = 1..(Len(files[g]) + 1) /\ Len(files[g]) \in Nat
      /\ DOMAIN files[g] = 1..Len(files[g])
      /\ \A i \in 1..Len(files[g]) : Append(files[g], w)[i] = files[g][i]
      /\ Append(files[g], w)[Len(files[g]) + 1] = w
  BY <1>5, <1>7
<1>9. Held'
  BY <1>1, <1>6, <1>8 DEF Held
<1>10. FilesGrow
  <2>1. SUFFICES ASSUME NEW f \in Files, NEW i \in DOMAIN files[f]
                 PROVE  i \in DOMAIN files'[f] /\ files'[f][i] = files[f][i]
    BY DEF FilesGrow
  <2>2. CASE f # g
    BY <1>6, <2>2
  <2>3. CASE f = g
    BY <1>6, <1>8, <2>3
  <2> QED BY <2>2, <2>3
<1>11. PlacesOf(files'[g], j.draft) # {}
  <2>1. files'[g] = Append(files[g], w)
    BY <1>3, <1>6
  <2>2. Len(files[g]) + 1 \in DOMAIN files'[g] /\ files'[g][Len(files[g]) + 1] = w
    BY <1>8, <2>1
  <2> QED BY <1>5, <2>2 DEF PlacesOf
<1> QED BY <1>6, <1>9, <1>10, <1>11 DEF g

\* The call goes on from a write that it takes for complete.
LEMMA AppendedStep ==
  ASSUME RecordsInv, NEW t \in Threads, job[t].stage = "append", NEW cut \in Cuts, Write(t, cut),
         Appended(t), UNCHANGED <<objective, second>>, IsUsed(used')
  PROVE  RecordsInv'
<1> DEFINE j == job[t]
<1>1. CallInv(j) /\ IsCall(j) /\ Held /\ IsTold(told)
  BY DEF RecordsInv, Typed
<1>2. /\ files' = [f \in Files |-> files'[f]] /\ Held' /\ FilesGrow
      /\ PlacesOf(files'[FileFor(j)], j.draft) # {}
  BY WriteFacts
<1>3. CASE j.op \in {"audit", "record"}
  <2>1. /\ Finish(t, "written", << >>)
        /\ told' = [told EXCEPT !.written = told.written \cup {j.id}]
    BY <1>3 DEF Appended
  <2>2. IsTold(told') /\ told'.forgotten = told.forgotten /\ told'.queued = told.queued
    <3>1. PICK written, forgotten, queued :
            told = [written |-> written, forgotten |-> forgotten, queued |-> queued]
      BY <1>1 DEF IsTold
    <3>2. told' = [written |-> written \cup {j.id}, forgotten |-> forgotten, queued |-> queued]
      BY <2>1, <3>1
    <3> QED BY <3>1, <3>2 DEF IsTold
  <2> PICK d : d = Ended(j, "written", << >>)
    OBVIOUS
  <2>3. /\ job' = [job EXCEPT ![t] = d] /\ IsCall(d) /\ d.stage = "done" /\ d.entries = << >>
        /\ d.op = j.op /\ d.since = j.since
    BY <1>1, <2>1, FinishFacts, EndedFacts
  <2>4. CallInv(d)
    BY <1>1, <1>3, <2>3 DEF CallInv, Placed, Seen, Excused, Complete, Selected, Memory
  <2>5. CallInv(d)'
    BY <1>1, <1>2, <2>2, <2>4, CallGrows
  <2> QED BY <1>2, <2>2, <2>3, <2>5, GrowStep
<1>4. CASE j.op \notin {"audit", "record"}
  <2> PICK c : c = [j EXCEPT !.stage = "reread"]
    OBVIOUS
  <2>1. job' = [job EXCEPT ![t] = c] /\ told' = told
    BY <1>4 DEF Appended, Continue
  <2>2. IsCall(c)
    BY <1>1, FieldFacts
  <2>3. /\ c.op = j.op /\ c.stage = "reread" /\ c.project = j.project /\ c.id = j.id
        /\ c.explicit = j.explicit /\ c.since = j.since /\ c.draft = j.draft
        /\ c.entries = j.entries /\ c.status = j.status
    BY <1>1 DEF IsCall
  <2>4. PICK k : k = j
    OBVIOUS
  <2>5. CallInv(k)'
    BY <1>1, <1>2, <2>1, <2>4, CallGrows
  <2>6. FileFor(c) = FileFor(k) /\ PlacesOf(files'[FileFor(c)], c.draft) # {}
    BY <1>2, <2>3, <2>4 DEF FileFor
  <2>7. Placed(c)'
    BY <1>4, <2>3, <2>4, <2>5, <2>6 DEF CallInv, Placed
  <2>8. Seen(c)' /\ Excused(c)' /\ Complete(c)' /\ Selected(c)'
    BY <2>3, <2>4, <2>5 DEF CallInv, Seen, Excused, Complete, Selected
  <2>9. CallInv(c)'
    BY <2>7, <2>8 DEF CallInv
  <2> QED BY <1>1, <1>2, <2>1, <2>2, <2>9, GrowStep
<1> QED BY <1>3, <1>4

LEMMA AppendStep ==
  ASSUME RecordsInv, NEW t \in Threads, AppendLine(t) \/ AppendShort(t) \/ AppendFails(t)
  PROVE  RecordsInv'
<1>1. IsUsed(used) /\ \A n : IsUsed([used EXCEPT !.faults = n])
  BY DEF RecordsInv, Typed, IsUsed
<1>2. CASE AppendLine(t)
  BY <1>1, <1>2, AppendedStep DEF AppendLine, Cuts
<1>3. CASE AppendShort(t)
  <2>1. PICK cut \in {"torn", "unended"} : Write(t, cut)
    BY <1>3 DEF AppendShort
  <2> QED BY <1>1, <1>3, <2>1, AppendedStep DEF AppendShort, Cuts
<1>4. CASE AppendFails(t)
  <2> DEFINE j == job[t]
  <2>1. CallInv(j) /\ IsCall(j) /\ Typed /\ Held /\ IsTold(told)
    BY DEF RecordsInv, Typed
  <2>2. /\ j.stage = "append" /\ IsUsed(used') /\ UNCHANGED <<objective, second, told>>
    BY <1>1, <1>4 DEF AppendFails
  <2>3. PICK status : Finish(t, status, << >>) /\ status # "ready"
    BY <1>4 DEF AppendFails
  <2>4. files' = [f \in Files |-> files'[f]] /\ Held' /\ FilesGrow
    <3>1. CASE files' = files
      BY <2>1, <3>1 DEF Typed, Held, FilesGrow
    <3>2. CASE \E cut \in {"torn", "unended"} : Write(t, cut)
      BY <2>2, <3>2, WriteFacts DEF Cuts
    <3> QED BY <1>4, <3>1, <3>2 DEF AppendFails
  <2> PICK d : d = Ended(j, status, << >>)
    OBVIOUS
  <2>5. /\ job' = [job EXCEPT ![t] = d] /\ IsCall(d) /\ d.stage = "done" /\ d.entries = << >>
        /\ d.op = j.op /\ d.since = j.since /\ d.explicit = j.explicit /\ d.status = status
    BY <2>1, <2>3, FinishFacts, EndedFacts
  <2>6. ToSet(<< >>) = {} /\ << >> \in Seq(Queued) /\ j.op \notin {"inbox", "loop"}
    BY <2>1, <2>2 DEF ToSet, CallInv, Placed
  <2>7. CallInv(d)
    BY <2>1, <2>5, <2>6 DEF CallInv, Placed, Seen, Excused, Complete, Selected
  <2>8. CallInv(d)'
    BY <2>1, <2>2, <2>4, <2>7, CallGrows
  <2> QED BY <2>1, <2>2, <2>4, <2>5, <2>8, GrowStep
<1> QED BY <1>2, <1>3, <1>4

LEMMA KillStep ==
  ASSUME RecordsInv, NEW t \in Threads, Kill(t)
  PROVE  RecordsInv'
<1>1. /\ job' = [job EXCEPT ![t] = Idle] /\ used' = [used EXCEPT !.faults = used.faults + 1]
      /\ UNCHANGED <<files, objective, second, told>>
  BY DEF Kill
<1>2. IsUsed(used') /\ objective \in Objectives /\ second \in Nat
  BY <1>1 DEF RecordsInv, Typed, IsUsed
<1>3. ToSet(<< >>) = {}
  BY DEF ToSet
<1>4. CallInv(Idle)
  BY <1>3 DEF CallInv, Placed, Seen, Excused, Complete, Selected, Idle, Memory
<1> QED BY <1>1, <1>2, <1>4, IdleCall, CallStep

\* Nothing of a call, of a file or of what was told changes.
LEMMA StillStep ==
  ASSUME RecordsInv, UNCHANGED <<files, job, told>>, objective' \in Objectives,
         second' \in Nat, IsUsed(used')
  PROVE  RecordsInv'
<1>1. Typed' /\ Reported'
  BY DEF RecordsInv, Typed, Held, Reported, PlacesOf
<1>2. ASSUME NEW u \in Threads PROVE CallInv(job[u])'
  <2>1. PICK c : c = job'[u] /\ CallInv(c)
    BY DEF RecordsInv
  <2>2. CallInv(c)'
    BY <2>1, CallStands
  <2> QED BY <2>1, <2>2 DEF CallInv, Placed, Seen, Excused, Complete, Selected
<1> QED BY <1>1, <1>2 DEF RecordsInv

LEMMA RecordsNext == RecordsInv /\ [Next]_vars => RecordsInv'
<1> SUFFICES ASSUME RecordsInv, [Next]_vars PROVE RecordsInv'
  OBVIOUS
<1>1. objective \in Objectives /\ second \in Nat /\ IsUsed(used)
  BY DEF RecordsInv, Typed
<1>2. ASSUME NEW t \in Threads,
             \/ CallMemory(t) \/ CallForget(t) \/ CallInbox(t) \/ CallLoop(t) \/ CallPack(t)
             \/ CallAudit(t) \/ CallRuns(t) \/ ShowRuns(t)
             \/ ShowMemory(t) \/ Remember(t) \/ Forget(t) \/ Reread(t)
             \/ ShowInbox(t) \/ Count(t) \/ Propose(t) \/ Reload(t) \/ Loop(t)
             \/ PackObjective(t) \/ PackMemory(t) \/ PackDocuments(t)
             \/ BuildRecord(t) \/ AppendLine(t) \/ AppendShort(t) \/ AppendFails(t) \/ Kill(t)
      PROVE  RecordsInv'
  BY <1>2, CallMemoryStep, CallsStep, ShowRunsStep, ShowMemoryStep, RememberStep, ForgetStep,
     RereadStep, ShowInboxStep, CountStep, ProposeStep, ReloadStep, LoopStep, PackStep,
     BuildRecordStep, AppendStep, KillStep
<1>3. CASE EditObjective
  <2>1. IsUsed(used') /\ objective' \in Objectives
    BY <1>1, <1>3 DEF EditObjective, IsUsed
  <2> QED BY <1>1, <1>3, <2>1, StillStep DEF EditObjective
<1>4. CASE Tick
  BY <1>1, <1>4, StillStep DEF Tick
<1>5. CASE UNCHANGED vars
  BY <1>1, <1>5, StillStep DEF vars
<1> QED BY <1>2, <1>3, <1>4, <1>5 DEF Next

LEMMA RecordsInvariant == Spec => []RecordsInv
BY RecordsInit, RecordsNext, PTL DEF Spec

-----------------------------------------------------------------------------
(* The properties                                                           *)

LEMMA Contained == RecordsInv => TornAppendIsContained
<1> SUFFICES ASSUME RecordsInv, NEW f \in Projects \cup {RunLog}, NEW i \in DOMAIN files[f],
                    files[f][i].record.type \in {"remembered", "record"},
                    ~ Spoiled(files[f], i),
                    PlacesOf(files[f], [files[f][i].record EXCEPT !.type = "forgotten"]) = {}
             PROVE  files[f][i].record \in
                      ToSet(IF f = RunLog THEN ReadEvents(files[f]) ELSE Active(files[f]))
  BY DEF TornAppendIsContained
<1> DEFINE record == files[f][i].record
<1>1. files[f] \in Seq(Writes(RecordsOf(f)))
  BY DEF RecordsInv, Typed, Held, Files
<1>2. ToSet(ReadEvents(files[f])) =
        {files[f][k].record : k \in {k \in DOMAIN files[f] : Readable(files[f], k)}}
  BY <1>1, ReadFacts
<1>3. Readable(files[f], i)
  BY DEF Spoiled, Readable
<1>4. record \in ToSet(ReadEvents(files[f]))
  BY <1>2, <1>3
<1>5. CASE f = RunLog
  BY <1>4, <1>5
<1>6. CASE f # RunLog
  <2>1. RecordsOf(f) = Notes(f)
    BY <1>6, RecordsOfFacts
  <2>2. files[f][i] \in Writes(Notes(f))
    BY <1>1, <2>1
  <2>3. record \in Notes(f)
    BY <2>2 DEF Writes
  <2>4. record.type = "remembered"
    BY <2>3 DEF Notes
  <2>5. [record EXCEPT !.type = "forgotten"] = [type |-> "forgotten", id |-> record.id]
    BY <2>3 DEF Notes
  <2>6. [type |-> "forgotten", id |-> record.id] \notin ToSet(ReadEvents(files[f]))
    BY <1>2, <2>5 DEF PlacesOf
  <2> QED BY <1>1, <1>4, <1>6, <2>4, <2>6, ActiveFacts
<1> QED BY <1>5, <1>6

\* A torn append costs at most the record itself and the one after it (_append_event of
\* memory_context.py and the log of model.py): every other note is read until it is
\* forgotten, and every other model run is read.
THEOREM TornAppendIsContainedTheorem == Spec => []TornAppendIsContained
BY RecordsInvariant, Contained, PTL

\* No call that began after a note was reported forgotten shows the note, in a list or in
\* a context pack, unless a tombstone of it was cut or swallowed.
THEOREM ForgetHoldsTheorem == Spec => []ForgetHolds
<1>1. RecordsInv => ForgetHolds
  BY DEF RecordsInv, CallInv, Excused, ForgetHolds, Memory, Tombstone
<1> QED BY <1>1, RecordsInvariant, PTL

\* The inbox is shown whole or not at all: an answer that is not blocked has every entry
\* that was reported queued before the call began, or is full.
THEOREM InboxAllOrNothingTheorem == Spec => []InboxAllOrNothing
<1>1. RecordsInv => InboxAllOrNothing
  BY DEF RecordsInv, CallInv, Complete, InboxAllOrNothing
<1> QED BY <1>1, RecordsInvariant, PTL

\* The development loop acts on the proposal of the entry its caller was shown if no text
\* of it holds a "|", and else on one whose texts, joined with "|", read the same.
THEOREM LoopActsOnWhatWasShownTheorem == Spec => []LoopActsOnWhatWasShown
<1>1. RecordsInv => LoopActsOnWhatWasShown
  BY DEF RecordsInv, CallInv, Selected, ActsOn, LoopActsOnWhatWasShown
<1> QED BY <1>1, RecordsInvariant, PTL

=============================================================================
