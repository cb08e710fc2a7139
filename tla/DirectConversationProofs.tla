----------------------- MODULE DirectConversationProofs -----------------------
(***************************************************************************)
(* Proofs about DirectConversation for every set of handler threads and    *)
(* conversations and every limit, and about the page, WorkbenchChat, for   *)
(* every set of ids that is large enough.                                  *)
(***************************************************************************)
EXTENDS WorkbenchChat, FiniteSetTheorems, WellFoundedInduction, TLAPS

-----------------------------------------------------------------------------
(* The data: the length of a history, and what trimming leaves of it        *)

\* Inclusion of finite sets of numbers is well founded, hence so is <.
LEMMA LeastNat ==
  ASSUME NEW T \in SUBSET Nat, T # {}
  PROVE  \E x \in T : \A y \in T : x <= y
<1> DEFINE R == StrictSubsetOrdering(Nat)
           Below == {0..x : x \in T}
<1>1. IsWellFoundedOn(R, FiniteSubsetsOf(Nat))
  BY FS_StrictSubsetOrderingWellFounded
<1>2. Below \subseteq FiniteSubsetsOf(Nat) /\ Below # {}
  <2>1. \A x \in T : IsFiniteSet(0..x)
    BY FS_Interval
  <2>2. \A x \in T : 0..x \in SUBSET Nat
    OBVIOUS
  <2> QED BY <2>1, <2>2 DEF FiniteSubsetsOf
<1>3. \A x, y \in Nat : y < x => <<0..y, 0..x>> \in R
  <2> SUFFICES ASSUME NEW x \in Nat, NEW y \in Nat, y < x PROVE <<0..y, 0..x>> \in R
    OBVIOUS
  <2>1. 0..y \in SUBSET Nat /\ 0..x \in SUBSET Nat
    OBVIOUS
  <2>2. 0..y \subseteq 0..x
    OBVIOUS
  <2>3. x \in 0..x /\ x \notin 0..y
    OBVIOUS
  <2> QED BY <2>1, <2>2, <2>3 DEF StrictSubsetOrdering
<1> HIDE DEF R
<1>4. \E b \in Below : \A d \in Below : ~ (<<d, b>> \in R)
  BY <1>1, <1>2, WFMin
<1>5. PICK x \in T : \A y \in T : ~ (<<0..y, 0..x>> \in R)
  BY <1>4
<1>6. ASSUME NEW y \in T PROVE x <= y
  <2>1. ~ (y < x)
    BY <1>3, <1>5
  <2> QED BY <2>1
<1> QED BY <1>6

\* The running sums of the lengths, the first n of them.
Sums(h, n, f) == f = [i \in 0..n |-> IF i = 0 THEN 0 ELSE f[i - 1] + h[i].chars]

LEMMA SumsExist ==
  ASSUME NEW h \in Seq(Exchanges), NEW n \in 0..Len(h)
  PROVE  \E f : Sums(h, n, f) /\ \A i \in 0..n : f[i] \in Nat
<1> DEFINE Good(m) == \E f : Sums(h, m, f) /\ \A i \in 0..m : f[i] \in Nat
           T == {m \in 0..Len(h) : ~ Good(m)}
<1>0. Len(h) \in Nat /\ \A i \in 1..Len(h) : h[i].chars \in Nat
  <2>1. \A e \in Exchanges : e.chars \in Nat
    BY DEF Exchanges
  <2> QED BY <2>1
<1> HIDE DEF Good
<1>1. SUFFICES ASSUME T # {} PROVE FALSE
  BY <1>0 DEF Good
<1>2. PICK m \in T : \A y \in T : m <= y
  <2>1. T \in SUBSET Nat
    BY <1>0
  <2> HIDE DEF T
  <2> QED BY <1>1, <2>1, LeastNat
<1>3. Good(0)
  <2>1. Sums(h, 0, [i \in {0} |-> 0])
    BY DEF Sums
  <2> QED BY <2>1 DEF Good
<1>4. m \in 1..Len(h) /\ Good(m - 1)
  BY <1>0, <1>2, <1>3
<1>5. PICK f : Sums(h, m - 1, f) /\ \A i \in 0..(m - 1) : f[i] \in Nat
  BY <1>4 DEF Good
<1> DEFINE g == [i \in 0..m |-> IF i = m THEN f[m - 1] + h[m].chars ELSE f[i]]
<1>6. \A i \in 0..m : g[i] \in Nat
  BY <1>0, <1>4, <1>5
<1>7. Sums(h, m, g)
  <2>1. \A i \in 0..(m - 1) : f[i] = IF i = 0 THEN 0 ELSE f[i - 1] + h[i].chars
    BY <1>4, <1>5 DEF Sums
  <2>2. ASSUME NEW i \in 0..m PROVE g[i] = IF i = 0 THEN 0 ELSE g[i - 1] + h[i].chars
    <3>1. CASE i = m
      BY <1>0, <1>4, <3>1
    <3>2. CASE i \in 0..(m - 1)
      <4>1. g[i] = f[i] /\ (i # 0 => g[i - 1] = f[i - 1])
        BY <1>0, <1>4, <3>2
      <4> QED BY <2>1, <3>2, <4>1
    <3> QED BY <1>0, <1>4, <3>1, <3>2
  <2> HIDE DEF g
  <2>3. g = [i \in 0..m |-> g[i]]
    BY DEF g
  <2> QED BY <2>2, <2>3 DEF Sums
<1>8. Good(m)
  BY <1>6, <1>7 DEF Good
<1> QED BY <1>2, <1>8

LEMMA SumsNat ==
  ASSUME NEW h \in Seq(Exchanges), NEW f, Sums(h, Len(h), f)
  PROVE  \A i \in 0..Len(h) : f[i] \in Nat
<1> DEFINE T == {m \in 0..Len(h) : f[m] \notin Nat}
<1>0. Len(h) \in Nat /\ \A i \in 1..Len(h) : h[i].chars \in Nat
  <2>1. \A e \in Exchanges : e.chars \in Nat
    BY DEF Exchanges
  <2> QED BY <2>1
<1>1. SUFFICES ASSUME T # {} PROVE FALSE
  OBVIOUS
<1>2. PICK m \in T : \A y \in T : m <= y
  <2>1. T \in SUBSET Nat
    BY <1>0
  <2> HIDE DEF T
  <2> QED BY <1>1, <2>1, LeastNat
<1>3. \A i \in 0..Len(h) : f[i] = IF i = 0 THEN 0 ELSE f[i - 1] + h[i].chars
  BY DEF Sums
<1>4. m \in 1..Len(h) /\ f[m - 1] \in Nat
  BY <1>0, <1>2, <1>3
<1> QED BY <1>0, <1>2, <1>3, <1>4

LEMMA CharsNat ==
  ASSUME NEW h \in Seq(Exchanges)
  PROVE  Chars(h) \in Nat
<1>1. Chars(h) = (CHOOSE f : Sums(h, Len(h), f))[Len(h)]
  BY DEF Chars, Sums
<1>2. PICK f : Sums(h, Len(h), f) /\ f = CHOOSE g : Sums(h, Len(h), g)
  BY SumsExist
<1> QED BY <1>1, <1>2, SumsNat

\* The sum of no lengths, and of one.
LEMMA CharsFew ==
  /\ Chars(<< >>) = 0
  /\ \A e \in Exchanges : Chars(<<e>>) = e.chars
<1>1. ASSUME NEW h \in Seq(Exchanges)
      PROVE  \E f : Sums(h, Len(h), f) /\ Chars(h) = f[Len(h)]
  <2>1. Chars(h) = (CHOOSE f : Sums(h, Len(h), f))[Len(h)]
    BY DEF Chars, Sums
  <2>2. PICK f : Sums(h, Len(h), f) /\ f = CHOOSE g : Sums(h, Len(h), g)
    BY SumsExist
  <2> QED BY <2>1, <2>2
<1>2. Chars(<< >>) = 0
  <2>1. << >> \in Seq(Exchanges) /\ Len(<< >>) = 0
    OBVIOUS
  <2>2. PICK f : Sums(<< >>, 0, f) /\ Chars(<< >>) = f[0]
    BY <1>1, <2>1
  <2> QED BY <2>2 DEF Sums
<1>3. ASSUME NEW e \in Exchanges PROVE Chars(<<e>>) = e.chars
  <2>1. <<e>> \in Seq(Exchanges) /\ Len(<<e>>) = 1 /\ <<e>>[1] = e /\ e.chars \in Nat
    BY DEF Exchanges
  <2>2. PICK f : Sums(<<e>>, 1, f) /\ Chars(<<e>>) = f[1]
    BY <1>1, <2>1
  <2>3. f[1] = f[0] + e.chars /\ f[0] = 0
    BY <2>1, <2>2 DEF Sums
  <2> QED BY <2>1, <2>2, <2>3
<1> QED BY <1>2, <1>3

LEMMA SuffixFacts ==
  ASSUME NEW h \in Seq(Exchanges), NEW k \in 0..Len(h)
  PROVE  /\ Suffix(h, k) \in Seq(Exchanges)
         /\ Len(Suffix(h, k)) = Len(h) - k
         /\ \A i \in 1..(Len(h) - k) : Suffix(h, k)[i] = h[i + k]
         /\ k = Len(h) => Suffix(h, k) = << >>
BY DEF Suffix

\* Trimming stops at the first suffix that is within both limits, and keeps the
\* last exchange when it is within them by itself.
LEMMA TrimFacts ==
  ASSUME NEW h \in Seq(Exchanges)
  PROVE  \E k \in 0..Len(h) :
           /\ Trim(h) = Suffix(h, k) /\ Fits(Suffix(h, k))
           /\ Len(h) > 0 /\ h[Len(h)].chars <= MaxExchange => k < Len(h)
<1> DEFINE First(k) == /\ Fits(Suffix(h, k))
                       /\ \A j \in 0..(k - 1) : ~ Fits(Suffix(h, j))
           T == {k \in 0..Len(h) : Fits(Suffix(h, k))}
<1>0. Len(h) \in Nat /\ MaxExchanges \in Nat \ {0} /\ MaxChars \in Nat
      /\ MaxExchange \in Nat /\ MaxExchange <= MaxChars
  BY StoreAssumption, BoundsAssumption
<1>1. T \in SUBSET Nat /\ T # {}
  <2>1. Fits(Suffix(h, Len(h)))
    <3>1. Suffix(h, Len(h)) = << >>
      BY <1>0, SuffixFacts
    <3>2. Len(<< >>) = 0
      OBVIOUS
    <3> QED BY <1>0, <3>1, <3>2, CharsFew DEF Fits
  <2> QED BY <1>0, <2>1
<1>2. PICK k \in T : \A j \in T : k <= j
  <2> HIDE DEF T
  <2> QED BY <1>1, LeastNat
<1>3. k \in 0..Len(h) /\ First(k)
  BY <1>0, <1>2
<1>4. PICK m \in 0..Len(h) : First(m) /\ m = CHOOSE n \in 0..Len(h) : First(n)
  <2> HIDE DEF First
  <2> QED BY <1>3
<1>5. Trim(h) = Suffix(h, m)
  BY <1>4 DEF Trim
<1>6. ASSUME Len(h) > 0, h[Len(h)].chars <= MaxExchange PROVE m < Len(h)
  <2>1. SUFFICES ASSUME m = Len(h) PROVE FALSE
    BY <1>0, <1>4
  <2>2. Len(h) - 1 \in 0..Len(h) /\ Len(h) - 1 \in 0..(m - 1)
    BY <1>0, <1>6, <2>1
  <2>3. h[Len(h)] \in Exchanges
    BY <1>6
  <2>4. Suffix(h, Len(h) - 1) = <<h[Len(h)]>>
    <3> DEFINE last == Suffix(h, Len(h) - 1)
    <3>1. last \in Seq(Exchanges) /\ Len(last) = 1 /\ last[1] = h[Len(h)]
      <4>1. Len(h) - (Len(h) - 1) = 1 /\ 1 + (Len(h) - 1) = Len(h)
        BY <1>0
      <4>2. /\ last \in Seq(Exchanges) /\ Len(last) = Len(h) - (Len(h) - 1)
            /\ \A i \in 1..(Len(h) - (Len(h) - 1)) : last[i] = h[i + (Len(h) - 1)]
        BY <2>2, SuffixFacts
      <4> HIDE DEF last
      <4> QED BY <4>1, <4>2
    <3> HIDE DEF last
    <3>2. last = <<last[1]>>
      BY <3>1
    <3> QED BY <3>1, <3>2 DEF last
  <2>5. Chars(<<h[Len(h)]>>) = h[Len(h)].chars /\ h[Len(h)].chars \in Nat
    BY <2>3, CharsFew DEF Exchanges
  <2>6. Fits(<<h[Len(h)]>>)
    BY <1>0, <1>6, <2>3, <2>5 DEF Fits
  <2> QED BY <1>4, <2>2, <2>4, <2>6
<1> QED BY <1>4, <1>5, <1>6

\* What fits the store is accepted by the model client.
LEMMA FitsAccepted ==
  ASSUME NEW h \in Seq(Exchanges), Fits(h)
  PROVE  HistoryAccepted(h)
<1>1. Chars(h) \in Nat /\ Len(h) \in Nat
  BY CharsNat
<1> QED BY <1>1, StoreAssumption, BoundsAssumption DEF Fits, HistoryAccepted

-----------------------------------------------------------------------------
(* The keys of the OrderedDict                                              *)

Distinct(s) == \A i, j \in DOMAIN s : s[i] = s[j] => i = j

Values(s) == {s[i] : i \in DOMAIN s}

LEMMA AppendKeys ==
  ASSUME NEW s \in Seq(Ids), Distinct(s), NEW id \in Ids, id \notin Values(s)
  PROVE  /\ Append(s, id) \in Seq(Ids) /\ Len(Append(s, id)) = Len(s) + 1
         /\ Distinct(Append(s, id)) /\ Values(Append(s, id)) = Values(s) \cup {id}
<1> DEFINE t == Append(s, id)
<1>1. /\ t \in Seq(Ids) /\ Len(t) = Len(s) + 1 /\ Len(s) \in Nat
      /\ DOMAIN s = 1..Len(s) /\ DOMAIN t = 1..(Len(s) + 1)
      /\ (\A i \in 1..Len(s) : t[i] = s[i]) /\ t[Len(s) + 1] = id
  OBVIOUS
<1> HIDE DEF t
<1>2. Distinct(t)
  BY <1>1 DEF Distinct, Values
<1>3. Values(t) = Values(s) \cup {id}
  BY <1>1 DEF Values
<1> QED BY <1>1, <1>2, <1>3 DEF t

LEMMA WithoutKeys ==
  ASSUME order \in Seq(Ids), Distinct(order), NEW id \in Held
  PROVE  /\ Without(id) \in Seq(Ids) /\ Len(Without(id)) = Len(order) - 1
         /\ Len(order) \in Nat \ {0}
         /\ Distinct(Without(id)) /\ Values(Without(id)) = Held \ {id}
<1>0. Len(order) \in Nat /\ DOMAIN order = 1..Len(order)
  OBVIOUS
<1>1. PICK at \in 1..Len(order) : order[at] = id /\ at = Place(id)
  BY <1>0 DEF Held, Place
<1> DEFINE n == Len(order) - 1
           t == [i \in 1..n |-> order[IF i < at THEN i ELSE i + 1]]
<1>2. Without(id) = t
  BY <1>1 DEF Without
<1>3. n \in Nat /\ Len(order) \in Nat \ {0}
  BY <1>0, <1>1
<1>4. \A i \in 1..n : t[i] = (IF i < at THEN order[i] ELSE order[i + 1]) /\ t[i] \in Ids
  BY <1>0, <1>1
<1>5. t \in Seq(Ids) /\ Len(t) = n /\ DOMAIN t = 1..n
  BY <1>3, <1>4
<1> HIDE DEF t
<1>6. Distinct(t)
  <2>1. ASSUME NEW i \in 1..n, NEW j \in 1..n, i < j PROVE t[i] # t[j]
    <3> DEFINE shift(k) == IF k < at THEN k ELSE k + 1
    <3>1. /\ shift(i) \in DOMAIN order /\ shift(j) \in DOMAIN order
          /\ shift(i) # shift(j)
      BY <1>0, <1>1, <2>1
    <3>2. t[i] = order[shift(i)] /\ t[j] = order[shift(j)]
      BY <1>4
    <3> QED BY <3>1, <3>2 DEF Distinct
  <2>2. ASSUME NEW i \in 1..n, NEW j \in 1..n, t[i] = t[j] PROVE i = j
    <3>1. ~ (i < j) /\ ~ (j < i)
      BY <2>1, <2>2
    <3> QED BY <1>3, <3>1
  <2> QED BY <1>5, <2>2 DEF Distinct
<1>7. Values(t) \subseteq Held \ {id}
  <2> SUFFICES ASSUME NEW i \in 1..n PROVE t[i] \in Held \ {id}
    BY <1>5 DEF Values
  <2>1. CASE i < at
    <3>1. i \in DOMAIN order /\ i # at
      BY <1>0, <1>1, <2>1
    <3>2. t[i] = order[i]
      BY <1>4, <2>1
    <3> QED BY <1>0, <1>1, <3>1, <3>2 DEF Held, Distinct
  <2>2. CASE ~ (i < at)
    <3>1. i + 1 \in DOMAIN order /\ i + 1 # at
      BY <1>0, <1>1, <2>2
    <3>2. t[i] = order[i + 1]
      BY <1>4, <2>2
    <3> QED BY <1>0, <1>1, <3>1, <3>2 DEF Held, Distinct
  <2> QED BY <2>1, <2>2
<1>8. Held \ {id} \subseteq Values(t)
  <2> SUFFICES ASSUME NEW j \in 1..Len(order), order[j] # id PROVE order[j] \in Values(t)
    BY <1>0 DEF Held
  <2>1. CASE j < at
    <3>1. j \in 1..n
      BY <1>0, <1>1, <2>1
    <3>2. t[j] = order[j]
      BY <1>4, <2>1, <3>1
    <3> QED BY <1>5, <3>1, <3>2 DEF Values
  <2>2. CASE j > at
    <3>1. j - 1 \in 1..n /\ ~ (j - 1 < at) /\ (j - 1) + 1 = j
      BY <1>0, <1>1, <2>2
    <3>2. t[j - 1] = order[j]
      BY <1>4, <3>1
    <3> QED BY <1>5, <3>1, <3>2 DEF Values
  <2> QED BY <1>0, <1>1, <2>1, <2>2
<1> QED BY <1>2, <1>3, <1>5, <1>6, <1>7, <1>8

\* Moving a conversation to the end changes the order only.
LEMMA LatestKeys ==
  ASSUME order \in Seq(Ids), Distinct(order), NEW id \in Held
  PROVE  /\ Latest(id) \in Seq(Ids) /\ Len(Latest(id)) = Len(order)
         /\ Distinct(Latest(id)) /\ Values(Latest(id)) = Held
<1>1. id \in Ids
  BY DEF Held
<1>2. id \notin Values(Without(id))
  BY WithoutKeys
<1>3. /\ Latest(id) \in Seq(Ids) /\ Len(Latest(id)) = Len(Without(id)) + 1
      /\ Distinct(Latest(id)) /\ Values(Latest(id)) = Values(Without(id)) \cup {id}
  BY <1>1, <1>2, WithoutKeys, AppendKeys DEF Latest
<1> QED BY <1>3, WithoutKeys

-----------------------------------------------------------------------------
(* The conversations and the turns under way                                *)

Typed ==
  /\ order \in Seq(Ids) /\ Distinct(order) /\ Len(order) <= MaxSessions
  /\ talk \in [Ids -> Conversations]
  /\ pc \in [Threads -> Points]
  /\ job \in [Threads -> Jobs]
  /\ turns \in Nat
  /\ restarts \in Nat

Bounded ==
  /\ \A id \in Ids : Fits(talk[id].messages)
  /\ \A p \in Threads :
       /\ pc[p] = "model" => HistoryAccepted(job[p].history)
       /\ pc[p] = "finish" => job[p].chars \in Lengths

\* The turn of a conversation holds the history it will be appended to.
Reading ==
  \A p \in Threads :
    pc[p] \in {"model", "finish"} => job[p].history = talk[job[p].id].messages

StoreInv == Typed /\ Bounded /\ BusyMeansOneTurn /\ Reading

LEMMA TypedFacts ==
  ASSUME Typed
  PROVE  /\ Len(order) \in Nat /\ DOMAIN order = 1..Len(order)
         /\ Held = Values(order) /\ Held \subseteq Ids
         /\ \A id \in Ids : /\ talk[id].messages \in Seq(Exchanges)
                            /\ talk[id].busy \in BOOLEAN
         /\ \A p \in Threads :
              /\ job[p] \in Jobs /\ job[p].id \in Ids \cup {NoId}
              /\ job[p].turn \in Nat /\ job[p].chars \in Nat
              /\ job[p].history \in Seq(Exchanges)
              /\ job[p].id \in Held => job[p].id \in Ids
BY DEF Typed, Held, Values, Conversations, Jobs

\* The first conversation without a turn.
LEMMA VictimFacts ==
  ASSUME Typed, \E i \in DOMAIN order : Removable(i)
  PROVE  Victim \in Held /\ ~ talk[Victim].busy
<1> DEFINE T == {i \in 1..Len(order) : Removable(i)}
<1>0. Len(order) \in Nat /\ DOMAIN order = 1..Len(order)
  BY TypedFacts
<1>1. T \in SUBSET Nat /\ T # {}
  BY <1>0
<1>2. PICK i \in T : \A j \in T : i <= j
  <2> HIDE DEF T
  <2> QED BY <1>1, LeastNat
<1>3. i \in DOMAIN order /\ Removable(i) /\ \A j \in 1..(i - 1) : ~ Removable(j)
  BY <1>0, <1>2
<1>4. PICK v \in DOMAIN order : Removable(v) /\ Victim = order[v]
  BY <1>3 DEF Victim
<1> QED BY <1>4 DEF Removable, Held

\* What becomes of the keys and of the conversations in each method of the store.
LEMMA InsertFacts ==
  ASSUME Typed, NEW id \in Ids, Insert(id)
  PROVE  /\ order' \in Seq(Ids) /\ Distinct(order') /\ Len(order') <= MaxSessions
         /\ \E gone \in {{}} \cup {{v} : v \in Held} :
              /\ \A v \in gone : ~ talk[v].busy
              /\ Held' = (Held \ gone) \cup {id} /\ id \notin Held \ gone
              /\ talk' = [x \in Ids |-> IF x = id \/ x \in gone THEN New ELSE talk[x]]
<1>0. /\ order \in Seq(Ids) /\ Distinct(order) /\ Len(order) <= MaxSessions
      /\ MaxSessions \in Nat \ {0} /\ Len(order) \in Nat
      /\ Held = Values(order) /\ Held' = Values(order')
  BY TypedFacts, StoreAssumption DEF Typed, Held, Values
<1> DEFINE kept == IF Full THEN Without(Victim) ELSE order
<1>1. /\ \A i \in DOMAIN kept : kept[i] # id
      /\ order' = Append(kept, id)
      /\ talk' = [x \in Ids |-> IF x = id \/ (Full /\ x = Victim) THEN New ELSE talk[x]]
  BY DEF Insert
<1>2. id \notin Values(kept)
  BY <1>1 DEF Values
<1>3. CASE Full
  <2>1. Victim \in Held /\ ~ talk[Victim].busy
    BY <1>3, VictimFacts DEF Insert
  <2>2. /\ kept \in Seq(Ids) /\ Len(kept) = Len(order) - 1
        /\ Distinct(kept) /\ Values(kept) = Held \ {Victim}
    BY <1>0, <1>3, <2>1, WithoutKeys
  <2> HIDE DEF kept
  <2>3. /\ order' \in Seq(Ids) /\ Len(order') = Len(order) /\ Distinct(order')
        /\ Held' = (Held \ {Victim}) \cup {id}
    BY <1>0, <1>1, <1>2, <2>2, AppendKeys
  <2>4. talk' = [x \in Ids |-> IF x = id \/ x \in {Victim} THEN New ELSE talk[x]]
    BY <1>1, <1>3
  <2>5. id \notin Held \ {Victim}
    BY <1>2, <2>2
  <2> QED BY <1>0, <2>1, <2>3, <2>4, <2>5
<1>4. CASE ~ Full
  <2>1. kept = order /\ Len(order) + 1 <= MaxSessions
    BY <1>0, <1>4 DEF Full
  <2>2. /\ order' \in Seq(Ids) /\ Len(order') = Len(order) + 1 /\ Distinct(order')
        /\ Held' = Held \cup {id}
    BY <1>0, <1>1, <1>2, <2>1, AppendKeys
  <2>3. talk' = [x \in Ids |-> IF x = id \/ x \in {} THEN New ELSE talk[x]]
    BY <1>1, <1>4
  <2>4. id \notin Held \ {} /\ Held' = (Held \ {}) \cup {id}
    BY <1>0, <1>2, <2>1, <2>2
  <2>5. order' \in Seq(Ids) /\ Distinct(order') /\ Len(order') <= MaxSessions
    BY <2>1, <2>2
  <2> HIDE DEF kept
  <2>6. \E gone \in {{}} \cup {{v} : v \in Held} :
          /\ \A v \in gone : ~ talk[v].busy
          /\ Held' = (Held \ gone) \cup {id} /\ id \notin Held \ gone
          /\ talk' = [x \in Ids |-> IF x = id \/ x \in gone THEN New ELSE talk[x]]
    <3> WITNESS {} \in {{}} \cup {{v} : v \in Held}
    <3> QED BY <2>3, <2>4
  <2> QED BY <2>5, <2>6
<1> QED BY <1>3, <1>4

Elsewhere(p) == \A q \in Threads \ {p} : pc'[q] = pc[q] /\ job'[q] = job[q]

LEMMA ReplyFacts ==
  ASSUME Typed, NEW p \in Threads, NEW id \in Ids \cup {NoId}, NEW answer \in Replies,
         Reply(p, id, answer)
  PROVE  /\ pc' \in [Threads -> Points] /\ job' \in [Threads -> Jobs]
         /\ Elsewhere(p) /\ pc'[p] = "replied"
         /\ job'[p].id = id /\ job'[p].turn = job[p].turn
<1>1. pc' \in [Threads -> Points] /\ pc'[p] = "replied"
      /\ \A q \in Threads \ {p} : pc'[q] = pc[q]
  BY DEF Typed, Reply, Goto, Points
<1> DEFINE j == [job[p] EXCEPT !.id = id, !.reply = answer]
<1>2. j \in Jobs /\ j.id = id /\ j.turn = job[p].turn
  BY TypedFacts DEF Jobs
<1>3. job' = [job EXCEPT ![p] = j] /\ job \in [Threads -> Jobs]
  BY DEF Reply, Typed
<1> HIDE DEF j
<1> QED BY <1>1, <1>2, <1>3 DEF Elsewhere

\* A step of handlers that have no turn leaves the turns of the others alone.
LEMMA TurnsStand ==
  ASSUME StoreInv, NEW P \in SUBSET Threads, Typed',
         \A q \in P : pc[q] \notin InTurn /\ pc'[q] \notin InTurn,
         \A q \in Threads \ P : pc'[q] = pc[q] /\ job'[q] = job[q],
         \A q \in Threads : pc[q] \in InTurn =>
           job[q].id \in Held' /\ talk'[job[q].id] = talk[job[q].id],
         \A id \in Held' : talk'[id].busy =>
           \E q \in Threads : pc[q] \in InTurn /\ job[q].id = id,
         \A id \in Ids : Fits(talk'[id].messages)
  PROVE  StoreInv'
<1>1. BusyMeansOneTurn'
  <2>1. \A q, r \in Threads :
          pc'[q] \in InTurn /\ pc'[r] \in InTurn /\ job'[q].id = job'[r].id => q = r
    BY DEF StoreInv, BusyMeansOneTurn
  <2>2. \A q \in Threads : pc'[q] \in InTurn => job'[q].id \in Held'
    OBVIOUS
  <2>3. ASSUME NEW id \in Held', talk'[id].busy
        PROVE  \E q \in Threads : pc'[q] \in InTurn /\ job'[q].id = id
    BY <2>3
  <2>4. ASSUME NEW id \in Held', NEW q \in Threads, pc'[q] \in InTurn, job'[q].id = id
        PROVE  talk'[id].busy
    <3>1. pc[q] \in InTurn /\ job[q].id = id
      BY <2>4
    <3>2. talk[id].busy /\ talk'[id] = talk[id]
      BY <3>1 DEF StoreInv, BusyMeansOneTurn
    <3> QED BY <3>2
  <2>5. \A id \in Held' :
          talk'[id].busy <=> \E q \in Threads : pc'[q] \in InTurn /\ job'[q].id = id
    BY <2>3, <2>4
  <2> QED BY <2>1, <2>2, <2>5 DEF BusyMeansOneTurn
<1>2. Bounded' /\ Reading'
  <2>1. {"model", "finish"} \subseteq InTurn
    BY DEF InTurn
  <2>2. Reading'
    BY <2>1 DEF StoreInv, Reading
  <2>3. \A q \in Threads : (pc'[q] = "model" => HistoryAccepted(job'[q].history))
                           /\ (pc'[q] = "finish" => job'[q].chars \in Lengths)
    BY <2>1 DEF StoreInv, Bounded
  <2> QED BY <2>2, <2>3 DEF Bounded, HistoryAccepted, Fits
<1> QED BY <1>1, <1>2 DEF StoreInv

LEMMA AsideKeeps ==
  ASSUME StoreInv, NEW p \in Threads, Elsewhere(p), Typed',
         pc[p] \notin InTurn, pc'[p] \notin InTurn,
         \A q \in Threads : pc[q] \in InTurn =>
           job[q].id \in Held' /\ talk'[job[q].id] = talk[job[q].id],
         \A id \in Held' : talk'[id].busy =>
           \E q \in Threads : pc[q] \in InTurn /\ job[q].id = id,
         \A id \in Ids : Fits(talk'[id].messages)
  PROVE  StoreInv'
<1> DEFINE P == {p}
<1>1. P \in SUBSET Threads /\ \A q \in P : pc[q] \notin InTurn /\ pc'[q] \notin InTurn
  OBVIOUS
<1>2. \A q \in Threads \ P : pc'[q] = pc[q] /\ job'[q] = job[q]
  BY DEF Elsewhere
<1> HIDE DEF P
<1> QED BY <1>1, <1>2, TurnsStand

\* A step that leaves the conversations and the set of keys alone.
LEMMA AsideStill ==
  ASSUME StoreInv, NEW p \in Threads, Elsewhere(p), Typed',
         pc[p] \notin InTurn, pc'[p] \notin InTurn, Held' = Held, UNCHANGED talk
  PROVE  StoreInv'
<1>1. \A q \in Threads : pc[q] \in InTurn => job[q].id \in Held
  BY DEF StoreInv, BusyMeansOneTurn
<1>2. \A id \in Held : talk[id].busy =>
           \E q \in Threads : pc[q] \in InTurn /\ job[q].id = id
  BY DEF StoreInv, BusyMeansOneTurn
<1>3. \A id \in Ids : Fits(talk[id].messages)
  BY DEF StoreInv, Bounded
<1> QED BY <1>1, <1>2, <1>3, AsideKeeps

LEMMA NewFacts == New \in Conversations /\ New.messages = << >> /\ New.busy = FALSE /\ Fits(New.messages)
<1>1. << >> \in Seq(Exchanges) /\ Len(<< >>) = 0
  OBVIOUS
<1> QED BY <1>1, CharsFew, StoreAssumption DEF New, Conversations, Fits

LEMMA StoreInit == Init => StoreInv
<1> SUFFICES ASSUME Init PROVE StoreInv
  OBVIOUS
<1>1. Held = {}
  BY DEF Init, Held
<1>2. Typed
  <2>1. NoJob \in Jobs
    BY DEF NoJob, Jobs, Results, Replies
  <2> QED BY <2>1, NewFacts, StoreAssumption DEF Init, Typed, Distinct, Points
<1>3. Bounded /\ Reading /\ BusyMeansOneTurn
  <2>1. \A p \in Threads : pc[p] \notin InTurn
    BY DEF Init, InTurn
  <2> QED BY <1>1, <2>1, NewFacts DEF Init, Bounded, Reading, BusyMeansOneTurn, InTurn
<1> QED BY <1>2, <1>3 DEF StoreInv

LEMMA RestartNext ==
  ASSUME StoreInv, Restart
  PROVE  StoreInv'
<1>1. Held' = {}
  BY DEF Restart, Held
<1>2. Typed'
  <2>1. NoJob \in Jobs
    BY DEF NoJob, Jobs, Results, Replies
  <2> QED BY <2>1, NewFacts, StoreAssumption DEF Restart, StoreInv, Typed, Distinct, Points
<1>3. Bounded' /\ Reading' /\ BusyMeansOneTurn'
  <2>1. \A p \in Threads : pc'[p] \notin InTurn
    BY DEF Restart, InTurn
  <2>2. \A id \in Ids : Fits(talk'[id].messages)
    BY NewFacts DEF Restart
  <2> QED BY <1>1, <2>1, <2>2 DEF Bounded, Reading, BusyMeansOneTurn, InTurn, Fits
<1> QED BY <1>2, <1>3 DEF StoreInv

\* A store where a conversation was looked up.
LEMMA LatestStore ==
  ASSUME Typed, NEW id \in Held, order' = Latest(id)
  PROVE  /\ order' \in Seq(Ids) /\ Distinct(order') /\ Len(order') <= MaxSessions
         /\ Held' = Held
BY LatestKeys DEF Typed, Held, Values

\* A store where a conversation was inserted: the turns under way still have
\* theirs, and no other one is busy.
LEMMA InsertStore ==
  ASSUME StoreInv, NEW id \in Ids, Insert(id)
  PROVE  /\ order' \in Seq(Ids) /\ Distinct(order') /\ Len(order') <= MaxSessions
         /\ talk' \in [Ids -> Conversations] /\ \A x \in Ids : Fits(talk'[x].messages)
         /\ \A q \in Threads : pc[q] \in InTurn =>
              job[q].id \in Held' /\ talk'[job[q].id] = talk[job[q].id]
         /\ \A x \in Held' : talk'[x].busy =>
              \E q \in Threads : pc[q] \in InTurn /\ job[q].id = x
<1>0. Typed /\ Bounded /\ BusyMeansOneTurn /\ Held \subseteq Ids
  BY TypedFacts DEF StoreInv
<1>1. order' \in Seq(Ids) /\ Distinct(order') /\ Len(order') <= MaxSessions
  BY <1>0, InsertFacts
<1>2. PICK gone \in {{}} \cup {{v} : v \in Held} :
        /\ \A v \in gone : ~ talk[v].busy
        /\ Held' = (Held \ gone) \cup {id} /\ id \notin Held \ gone
        /\ talk' = [x \in Ids |-> IF x = id \/ x \in gone THEN New ELSE talk[x]]
  BY <1>0, InsertFacts
<1>3. talk' \in [Ids -> Conversations] /\ \A x \in Ids : Fits(talk'[x].messages)
  BY <1>0, <1>2, NewFacts DEF Typed, Bounded
<1>4. ASSUME NEW q \in Threads, pc[q] \in InTurn
      PROVE  job[q].id \in Held' /\ talk'[job[q].id] = talk[job[q].id]
  <2>1. job[q].id \in Held /\ talk[job[q].id].busy
    BY <1>0, <1>4 DEF BusyMeansOneTurn
  <2>2. job[q].id \in Held \ gone /\ job[q].id # id
    BY <1>2, <2>1
  <2> QED BY <1>0, <1>2, <2>2
<1>5. ASSUME NEW x \in Held', talk'[x].busy
      PROVE  \E q \in Threads : pc[q] \in InTurn /\ job[q].id = x
  <2>1. x \in Ids
    BY <1>0, <1>2
  <2>2. x # id /\ x \notin gone
    BY <1>2, <1>5, <2>1, NewFacts
  <2>3. x \in Held /\ talk[x].busy
    BY <1>2, <1>5, <2>1, <2>2
  <2> QED BY <1>0, <2>3 DEF BusyMeansOneTurn
<1> QED BY <1>1, <1>3, <1>4, <1>5

LEMMA RepliesNext ==
  ASSUME StoreInv, NEW p \in Threads,
         Create(p) \/ CreateBusy(p) \/ NotFound(p) \/ Inspect(p) \/ Busy(p)
           \/ Reset(p) \/ Lookback(p)
  PROVE  StoreInv'
<1>0. /\ Typed /\ Bounded /\ BusyMeansOneTurn
      /\ job[p].id \in Ids \cup {NoId} /\ Held \subseteq Ids
      /\ {"none", "done", "fallback", "busy", "notfound", "raised"} \subseteq Replies
      /\ {"create", "inspect", "reset", "chat", "lookback", "replied"} \cap InTurn = {}
      /\ UNCHANGED <<turns, restarts>>
  BY TypedFacts DEF StoreInv, Replies, InTurn, Create, CreateBusy, NotFound, Inspect, Busy,
     Reset, Lookback
<1>1. /\ pc[p] \in {"create", "inspect", "reset", "chat", "lookback"}
      /\ \E id \in Ids \cup {NoId}, answer \in Replies : Reply(p, id, answer)
  BY <1>0 DEF Create, CreateBusy, NotFound, Inspect, Busy, Reset, Lookback
<1>2. /\ pc' \in [Threads -> Points] /\ job' \in [Threads -> Jobs]
      /\ Elsewhere(p) /\ pc'[p] = "replied"
  BY <1>0, <1>1, ReplyFacts
<1>3. CASE Create(p)
  <2>1. PICK id \in Ids : Insert(id)
    BY <1>3 DEF Create
  <2>2. Typed'
    BY <1>0, <1>2, <2>1, InsertStore DEF Typed
  <2> QED BY <1>0, <1>1, <1>2, <2>1, <2>2, InsertStore, AsideKeeps
<1>4. CASE CreateBusy(p) \/ NotFound(p) \/ Busy(p)
  <2>1. UNCHANGED <<order, talk>> /\ Held' = Held
    BY <1>4 DEF CreateBusy, NotFound, Busy, store, Held
  <2>2. Typed'
    BY <1>0, <1>2, <2>1 DEF Typed, Distinct
  <2> QED BY <1>0, <1>1, <1>2, <2>1, <2>2, AsideStill
<1>5. CASE Inspect(p) \/ Lookback(p)
  <2>1. UNCHANGED talk /\ ((order' = Latest(job[p].id) /\ job[p].id \in Held) \/ UNCHANGED order)
    BY <1>5 DEF Inspect, Lookback
  <2>2. order' \in Seq(Ids) /\ Distinct(order') /\ Len(order') <= MaxSessions /\ Held' = Held
    BY <1>0, <2>1, LatestStore DEF Typed, Distinct, Held
  <2>3. Typed'
    BY <1>0, <1>2, <2>1, <2>2 DEF Typed
  <2> QED BY <1>0, <1>1, <1>2, <2>1, <2>2, <2>3, AsideStill
<1>6. CASE Reset(p)
  <2>1. /\ UNCHANGED order /\ job[p].id \in Ids /\ ~ talk[job[p].id].busy /\ Held' = Held
        /\ job[p].id \in Held
        /\ talk' = [talk EXCEPT ![job[p].id].messages = << >>]
    BY <1>0, <1>6 DEF Reset, Held
  <2> DEFINE c == [talk[job[p].id] EXCEPT !.messages = << >>]
  <2>2. c \in Conversations /\ c.messages = << >> /\ c.busy = talk[job[p].id].busy
    <3>1. talk[job[p].id] \in Conversations /\ << >> \in Seq(Exchanges)
      BY <1>0, <2>1 DEF Typed
    <3> QED BY <3>1 DEF Conversations
  <2>3. talk' = [talk EXCEPT ![job[p].id] = c]
    BY <2>1
  <2> HIDE DEF c
  <2>4. talk' \in [Ids -> Conversations] /\ \A x \in Ids : Fits(talk'[x].messages)
    BY <1>0, <2>1, <2>2, <2>3, NewFacts DEF Typed, Bounded
  <2>5. Typed'
    BY <1>0, <1>2, <2>1, <2>4 DEF Typed, Distinct
  <2>6. ASSUME NEW q \in Threads, pc[q] \in InTurn
        PROVE  job[q].id \in Held' /\ talk'[job[q].id] = talk[job[q].id]
    BY <1>0, <2>1, <2>3, <2>6 DEF BusyMeansOneTurn, Typed
  <2>7. ASSUME NEW x \in Held', talk'[x].busy
        PROVE  \E q \in Threads : pc[q] \in InTurn /\ job[q].id = x
    <3>1. x \in Held /\ talk[x].busy
      BY <1>0, <2>1, <2>2, <2>3, <2>7 DEF Typed
    <3> QED BY <1>0, <3>1 DEF BusyMeansOneTurn
  <2> QED BY <1>0, <1>1, <1>2, <2>4, <2>5, <2>6, <2>7, AsideKeeps
<1> QED BY <1>3, <1>4, <1>5, <1>6

\* A step of the only handler of a turn that stays in it.
LEMMA TurnKeeps ==
  ASSUME StoreInv, NEW p \in Threads, Elsewhere(p), Typed', UNCHANGED <<order, talk>>,
         pc[p] \in InTurn, pc'[p] \in InTurn, job'[p].id = job[p].id,
         pc'[p] \in {"model", "finish"} => job'[p].history = talk[job[p].id].messages,
         pc'[p] # "model", pc'[p] = "finish" => job'[p].chars \in Lengths
  PROVE  StoreInv'
<1>1. /\ Held' = Held
      /\ \A q \in Threads : /\ (pc'[q] \in InTurn) <=> (pc[q] \in InTurn)
                            /\ pc[q] \in InTurn => job'[q].id = job[q].id
  BY DEF Held, Elsewhere
<1>2. BusyMeansOneTurn'
  <2>1. \A q, r \in Threads :
          pc'[q] \in InTurn /\ pc'[r] \in InTurn /\ job'[q].id = job'[r].id => q = r
    BY <1>1 DEF StoreInv, BusyMeansOneTurn
  <2>2. \A q \in Threads : pc'[q] \in InTurn => job'[q].id \in Held'
    BY <1>1 DEF StoreInv, BusyMeansOneTurn
  <2>3. \A id \in Held' :
          talk'[id].busy <=> \E q \in Threads : pc'[q] \in InTurn /\ job'[q].id = id
    BY <1>1 DEF StoreInv, BusyMeansOneTurn
  <2> QED BY <2>1, <2>2, <2>3 DEF BusyMeansOneTurn
<1>3. Reading' /\ Bounded'
  <2>1. Reading'
    BY DEF StoreInv, Reading, Elsewhere
  <2>2. \A q \in Threads : (pc'[q] = "model" => HistoryAccepted(job'[q].history))
                           /\ (pc'[q] = "finish" => job'[q].chars \in Lengths)
    BY DEF StoreInv, Bounded, Elsewhere
  <2> QED BY <2>1, <2>2 DEF StoreInv, Bounded, HistoryAccepted, Fits
<1> QED BY <1>2, <1>3 DEF StoreInv

LEMMA ModelNext ==
  ASSUME StoreInv, NEW p \in Threads, ModelAnswers(p) \/ ModelFails(p)
  PROVE  StoreInv'
<1>0. Typed /\ job \in [Threads -> Jobs] /\ pc \in [Threads -> Points] /\ job[p] \in Jobs
      /\ pc[p] = "model" /\ UNCHANGED <<order, talk, turns, restarts>>
      /\ {"model", "finish", "abort"} \subseteq InTurn \cap Points
      /\ {"ready", "fallback", "error"} \subseteq Results
      /\ "finish" # "abort" /\ "abort" # "model"
  BY DEF StoreInv, Typed, ModelAnswers, ModelFails, InTurn, Points, store, Results
<1>1. CASE ModelAnswers(p)
  <2>1. PICK n \in Lengths : job' = [job EXCEPT ![p].chars = n, ![p].result = "ready"]
    BY <1>1 DEF ModelAnswers
  <2>2. n \in Nat
    BY BoundsAssumption
  <2> DEFINE j == [job[p] EXCEPT !.chars = n, !.result = "ready"]
  <2>3. j \in Jobs /\ j.id = job[p].id /\ j.history = job[p].history /\ j.chars = n
    BY <1>0, <2>2 DEF Jobs
  <2>4. job' = [job EXCEPT ![p] = j]
    BY <1>0, <2>1
  <2> HIDE DEF j
  <2>5. pc' = [pc EXCEPT ![p] = "finish"]
    BY <1>1 DEF ModelAnswers, Goto
  <2>6. Elsewhere(p) /\ pc'[p] = "finish" /\ job'[p] = j /\ job' \in [Threads -> Jobs]
        /\ pc' \in [Threads -> Points]
    BY <1>0, <2>3, <2>4, <2>5 DEF Elsewhere
  <2>7. Typed'
    BY <1>0, <2>6 DEF Typed, Distinct
  <2>8. job[p].history = talk[job[p].id].messages
    BY <1>0 DEF StoreInv, Reading
  <2> QED BY <1>0, <2>3, <2>6, <2>7, <2>8, TurnKeeps
<1>2. CASE ModelFails(p)
  <2>1. PICK r \in {"fallback", "error"} : job' = [job EXCEPT ![p].result = r]
    BY <1>2 DEF ModelFails
  <2> DEFINE j == [job[p] EXCEPT !.result = r]
  <2>2. j \in Jobs /\ j.id = job[p].id
    BY <1>0 DEF Jobs
  <2>3. job' = [job EXCEPT ![p] = j]
    BY <1>0, <2>1
  <2> HIDE DEF j
  <2>4. pc' = [pc EXCEPT ![p] = "abort"]
    BY <1>2 DEF ModelFails, Goto
  <2>5. Elsewhere(p) /\ pc'[p] = "abort" /\ job'[p] = j /\ job' \in [Threads -> Jobs]
        /\ pc' \in [Threads -> Points]
    BY <1>0, <2>2, <2>3, <2>4 DEF Elsewhere
  <2>6. Typed'
    BY <1>0, <2>5 DEF Typed, Distinct
  <2> QED BY <1>0, <2>2, <2>5, <2>6, TurnKeeps
<1> QED BY <1>1, <1>2

LEMMA RequestsNext ==
  ASSUME StoreInv, NEW p \in Threads,
         \/ Deliver(p)
         \/ \E op \in {"create", "inspect", "reset", "chat"}, id \in Ids \cup {NoId} :
              Request(p, op, id)
  PROVE  StoreInv'
<1>0. Typed /\ job \in [Threads -> Jobs] /\ pc \in [Threads -> Points] /\ job[p] \in Jobs
      /\ UNCHANGED <<order, talk, turns, restarts>> /\ Held' = Held
      /\ {"create", "inspect", "reset", "chat", "idle", "replied"} \subseteq Points \ InTurn
  <2>1. UNCHANGED <<order, talk, turns, restarts>>
    BY DEF Deliver, Request, store
  <2>2. {"create", "inspect", "reset", "chat", "idle", "replied"} \subseteq Points \ InTurn
    BY DEF InTurn, Points
  <2> QED BY <2>1, <2>2 DEF StoreInv, Typed, Held
<1>1. /\ pc[p] \in {"idle", "replied"}
      /\ \E op \in {"create", "inspect", "reset", "chat", "idle"} : pc' = [pc EXCEPT ![p] = op]
      /\ \E j \in Jobs : job' = [job EXCEPT ![p] = j]
  <2>1. CASE Deliver(p)
    <3>1. NoJob \in Jobs
      BY DEF NoJob, Jobs, Results, Replies
    <3> QED BY <2>1, <3>1 DEF Deliver, Goto
  <2>2. ASSUME NEW op \in {"create", "inspect", "reset", "chat"}, NEW id \in Ids \cup {NoId},
               Request(p, op, id)
        PROVE  /\ pc[p] = "idle" /\ pc' = [pc EXCEPT ![p] = op]
               /\ \E j \in Jobs : job' = [job EXCEPT ![p] = j]
    <3> DEFINE j == [job[p] EXCEPT !.id = id]
    <3>1. j \in Jobs
      BY <1>0 DEF Jobs
    <3>2. job' = [job EXCEPT ![p] = j]
      BY <1>0, <2>2 DEF Request
    <3> HIDE DEF j
    <3> QED BY <2>2, <3>1, <3>2 DEF Request, Goto
  <2> QED BY <2>1, <2>2
<1>2. Elsewhere(p) /\ pc'[p] \notin InTurn /\ pc[p] \notin InTurn
      /\ job' \in [Threads -> Jobs] /\ pc' \in [Threads -> Points]
  BY <1>0, <1>1 DEF Elsewhere
<1>3. Typed'
  BY <1>0, <1>2 DEF Typed, Distinct
<1> QED BY <1>0, <1>2, <1>3, AsideStill

LEMMA BeginTurnNext ==
  ASSUME StoreInv, NEW p \in Threads, BeginTurn(p)
  PROVE  StoreInv'
<1> DEFINE id == job[p].id
           c == [talk[id] EXCEPT !.busy = TRUE]
           j == [job[p] EXCEPT !.turn = turns + 1, !.history = talk[id].messages]
<1>0. /\ Typed /\ Bounded /\ BusyMeansOneTurn /\ Reading
      /\ job \in [Threads -> Jobs] /\ pc \in [Threads -> Points] /\ job[p] \in Jobs
      /\ talk \in [Ids -> Conversations] /\ turns \in Nat
      /\ id \in Held /\ id \in Ids /\ ~ talk[id].busy /\ pc[p] = "chat"
      /\ turns' = turns + 1 /\ order' = Latest(id) /\ UNCHANGED restarts
      /\ pc' = [pc EXCEPT ![p] = "model"]
      /\ "model" \in Points \cap InTurn /\ "chat" \notin InTurn
  BY TypedFacts DEF StoreInv, Typed, BeginTurn, Goto, InTurn, Points
<1>1. talk' = [talk EXCEPT ![id] = c] /\ job' = [job EXCEPT ![p] = j]
  BY <1>0 DEF BeginTurn
<1>2. /\ c \in Conversations /\ c.messages = talk[id].messages /\ c.busy = TRUE
      /\ j \in Jobs /\ j.id = id /\ j.history = talk[id].messages
  <2>1. talk[id] \in Conversations
    BY <1>0
  <2>2. talk[id].messages \in Seq(Exchanges) /\ turns + 1 \in Nat
    BY <1>0, <2>1 DEF Conversations
  <2> QED BY <1>0, <2>1, <2>2 DEF Conversations, Jobs
<1> HIDE DEF c, j
<1>3. Elsewhere(p) /\ pc'[p] = "model" /\ job'[p] = j /\ job' \in [Threads -> Jobs]
      /\ pc' \in [Threads -> Points]
  BY <1>0, <1>1, <1>2 DEF Elsewhere
<1>4. /\ order' \in Seq(Ids) /\ Distinct(order') /\ Len(order') <= MaxSessions
      /\ Held' = Held
  BY <1>0, LatestStore
<1>5. /\ talk' \in [Ids -> Conversations] /\ talk'[id] = c
      /\ \A x \in Ids \ {id} : talk'[x] = talk[x]
      /\ \A x \in Ids : talk'[x].messages = talk[x].messages
  BY <1>0, <1>1, <1>2
<1>6. Typed'
  BY <1>0, <1>3, <1>4, <1>5 DEF Typed
<1>7. \A q \in Threads : pc[q] \in InTurn => job[q].id # id
  BY <1>0 DEF BusyMeansOneTurn
<1>8. \A q \in Threads :
        /\ (pc'[q] \in InTurn) <=> (q = p \/ pc[q] \in InTurn)
        /\ pc'[q] \in InTurn => job'[q].id = job[q].id
  BY <1>0, <1>2, <1>3 DEF Elsewhere
<1>9. BusyMeansOneTurn'
  <2>1. \A q, r \in Threads :
          pc'[q] \in InTurn /\ pc'[r] \in InTurn /\ job'[q].id = job'[r].id => q = r
    BY <1>0, <1>7, <1>8 DEF BusyMeansOneTurn
  <2>2. \A q \in Threads : pc'[q] \in InTurn => job'[q].id \in Held'
    BY <1>0, <1>4, <1>8 DEF BusyMeansOneTurn
  <2>3. ASSUME NEW x \in Held'
        PROVE  talk'[x].busy <=> \E q \in Threads : pc'[q] \in InTurn /\ job'[q].id = x
    <3>1. CASE x = id
      BY <1>0, <1>2, <1>5, <1>8, <3>1
    <3>2. CASE x # id
      <4>1. x \in Held /\ x \in Ids
        BY <1>0, <1>4, TypedFacts
      <4>2. talk'[x].busy <=> \E q \in Threads : pc[q] \in InTurn /\ job[q].id = x
        BY <1>0, <1>5, <3>2, <4>1 DEF BusyMeansOneTurn
      <4> QED BY <1>8, <3>2, <4>2
    <3> QED BY <3>1, <3>2
  <2> QED BY <2>1, <2>2, <2>3 DEF BusyMeansOneTurn
<1>10. Bounded'
  <2>1. HistoryAccepted(job'[p].history)
    <3>1. Fits(talk[id].messages) /\ talk[id].messages \in Seq(Exchanges)
      BY <1>0, TypedFacts DEF Bounded
    <3> QED BY <1>2, <1>3, <3>1, FitsAccepted
  <2>2. \A x \in Ids : Fits(talk'[x].messages)
    BY <1>0, <1>5 DEF Bounded
  <2>3. \A q \in Threads : (pc'[q] = "model" => HistoryAccepted(job'[q].history))
                           /\ (pc'[q] = "finish" => job'[q].chars \in Lengths)
    BY <1>0, <1>3, <2>1 DEF Bounded, Elsewhere
  <2> QED BY <2>2, <2>3 DEF Bounded, HistoryAccepted, Fits
<1>11. Reading'
  <2>1. ASSUME NEW q \in Threads, pc'[q] \in {"model", "finish"}
        PROVE  job'[q].history = talk'[job'[q].id].messages
    <3>1. CASE q = p
      BY <1>0, <1>2, <1>3, <1>5, <3>1
    <3>2. CASE q # p
      <4>1. pc[q] \in {"model", "finish"} /\ job'[q] = job[q]
        BY <1>3, <2>1, <3>2 DEF Elsewhere
      <4>2. job[q].id \in Ids
        BY <1>0, <4>1, TypedFacts DEF BusyMeansOneTurn, InTurn
      <4> QED BY <1>0, <1>5, <4>1, <4>2 DEF Reading
    <3> QED BY <3>1, <3>2
  <2> QED BY <2>1 DEF Reading
<1> QED BY <1>6, <1>9, <1>10, <1>11 DEF StoreInv

\* The end of a turn: the conversation is no longer busy.
LEMMA EndKeeps ==
  ASSUME StoreInv, NEW p \in Threads, Elsewhere(p), Typed', UNCHANGED order,
         pc[p] \in InTurn, pc'[p] \notin InTurn,
         NEW c \in Conversations, ~ c.busy, Fits(c.messages),
         talk' = [talk EXCEPT ![job[p].id] = c]
  PROVE  StoreInv'
<1> DEFINE id == job[p].id
<1>0. /\ Typed /\ Bounded /\ BusyMeansOneTurn /\ Reading /\ talk \in [Ids -> Conversations]
      /\ id \in Held /\ id \in Ids /\ Held' = Held /\ Held \subseteq Ids
  BY TypedFacts DEF StoreInv, Typed, BusyMeansOneTurn, Held
<1>1. /\ talk'[id] = c /\ \A x \in Ids \ {id} : talk'[x] = talk[x]
  BY <1>0
<1>2. \A q \in Threads \ {p} : pc[q] \in InTurn => job[q].id # id /\ job[q].id \in Ids
  BY <1>0 DEF BusyMeansOneTurn
<1>3. \A q \in Threads : /\ (pc'[q] \in InTurn) <=> (q # p /\ pc[q] \in InTurn)
                         /\ pc'[q] \in InTurn => job'[q] = job[q]
  BY DEF Elsewhere
<1>4. BusyMeansOneTurn'
  <2>1. \A q, r \in Threads :
          pc'[q] \in InTurn /\ pc'[r] \in InTurn /\ job'[q].id = job'[r].id => q = r
    BY <1>0, <1>3 DEF BusyMeansOneTurn
  <2>2. \A q \in Threads : pc'[q] \in InTurn => job'[q].id \in Held'
    BY <1>0, <1>3 DEF BusyMeansOneTurn
  <2>3. ASSUME NEW x \in Held'
        PROVE  talk'[x].busy <=> \E q \in Threads : pc'[q] \in InTurn /\ job'[q].id = x
    <3>1. CASE x = id
      BY <1>1, <1>2, <1>3, <3>1
    <3>2. CASE x # id
      <4>1. x \in Held /\ x \in Ids
        BY <1>0
      <4>2. talk'[x].busy <=> \E q \in Threads : pc[q] \in InTurn /\ job[q].id = x
        BY <1>0, <1>1, <3>2, <4>1 DEF BusyMeansOneTurn
      <4> QED BY <1>3, <3>2, <4>2
    <3> QED BY <3>1, <3>2
  <2> QED BY <2>1, <2>2, <2>3 DEF BusyMeansOneTurn
<1>5. {"model", "finish"} \subseteq InTurn
  BY DEF InTurn
<1>6. Bounded'
  <2>1. \A x \in Ids : Fits(talk'[x].messages)
    BY <1>0, <1>1 DEF Bounded
  <2>2. \A q \in Threads : (pc'[q] = "model" => HistoryAccepted(job'[q].history))
                           /\ (pc'[q] = "finish" => job'[q].chars \in Lengths)
    BY <1>0, <1>3, <1>5 DEF Bounded, Elsewhere
  <2> QED BY <2>1, <2>2 DEF Bounded, HistoryAccepted, Fits
<1>7. Reading'
  BY <1>0, <1>1, <1>2, <1>3, <1>5 DEF Reading, Elsewhere
<1> QED BY <1>4, <1>6, <1>7 DEF StoreInv

\* What finish_turn makes of the conversation.
LEMMA CommittedFacts ==
  ASSUME StoreInv, NEW p \in Threads, pc[p] = "finish"
  PROVE  /\ job[p].id \in Held /\ job[p].id \in Ids /\ talk[job[p].id].busy
         /\ Committed(p) \in Seq(Exchanges)
         /\ LET e == [turn |-> job[p].turn, chars |-> job[p].chars,
                      saw |-> Turns(talk[job[p].id].messages)]
            IN  Committed(p) = Append(talk[job[p].id].messages, e) /\ e \in Exchanges
         /\ job[p].chars <= MaxExchange
<1>0. /\ job[p].id \in Held /\ job[p].id \in Ids /\ talk[job[p].id].busy
      /\ job[p].chars \in Lengths /\ Typed /\ job[p].turn \in Nat /\ job[p].chars \in Nat
      /\ job[p].history = talk[job[p].id].messages
      /\ talk[job[p].id].messages \in Seq(Exchanges)
  BY TypedFacts DEF StoreInv, BusyMeansOneTurn, Bounded, Reading, InTurn
<1> DEFINE h == talk[job[p].id].messages
           e == [turn |-> job[p].turn, chars |-> job[p].chars, saw |-> Turns(h)]
<1>1. Turns(h) \in Seq(Nat)
  <2>1. \A x \in Exchanges : x.turn \in Nat
    BY DEF Exchanges
  <2>2. h \in Seq(Exchanges)
    BY <1>0
  <2> HIDE DEF h
  <2>3. DOMAIN h = 1..Len(h) /\ Len(h) \in Nat /\ \A i \in 1..Len(h) : h[i] \in Exchanges
    BY <2>2
  <2>4. \A i \in 1..Len(h) : h[i].turn \in Nat
    BY <2>1, <2>3
  <2> QED BY <2>3, <2>4 DEF Turns
<1>2. e \in Exchanges
  BY <1>0, <1>1 DEF Exchanges
<1>3. Committed(p) = Append(h, e)
  BY <1>0 DEF Committed
<1>4. Append(h, e) \in Seq(Exchanges)
  BY <1>0, <1>2
<1>5. job[p].chars <= MaxExchange
  BY <1>0, BoundsAssumption
<1> QED BY <1>0, <1>2, <1>3, <1>4, <1>5

LEMMA EndNext ==
  ASSUME StoreInv, NEW p \in Threads, FinishTurn(p) \/ AbortTurn(p)
  PROVE  StoreInv'
<1>0. /\ Typed /\ Bounded /\ BusyMeansOneTurn /\ talk \in [Ids -> Conversations]
      /\ job \in [Threads -> Jobs] /\ pc \in [Threads -> Points]
      /\ pc[p] \in {"finish", "abort"} /\ pc[p] \in InTurn
      /\ "replied" \notin InTurn /\ "lookback" \notin InTurn /\ "lookback" \in Points
      /\ {"done", "raised"} \subseteq Replies
      /\ UNCHANGED <<order, turns, restarts>>
  BY DEF StoreInv, Typed, FinishTurn, AbortTurn, InTurn, Points, Replies
<1>1. job[p].id \in Held /\ job[p].id \in Ids
  BY <1>0, TypedFacts DEF BusyMeansOneTurn
<1>2. CASE FinishTurn(p)
  <2>1. pc[p] = "finish" /\ talk[job[p].id].busy /\ Committed(p) \in Seq(Exchanges)
    BY <1>2, CommittedFacts DEF FinishTurn
  <2> DEFINE c == [messages |-> Trim(Committed(p)), busy |-> FALSE]
  <2>2. talk' = [talk EXCEPT ![job[p].id] = c] /\ Reply(p, job[p].id, "done")
    BY <1>1, <1>2, <2>1 DEF FinishTurn
  <2>3. Trim(Committed(p)) \in Seq(Exchanges) /\ Fits(Trim(Committed(p)))
    BY <2>1, TrimFacts, SuffixFacts
  <2>4. c \in Conversations /\ ~ c.busy /\ Fits(c.messages)
    BY <2>3 DEF Conversations
  <2> HIDE DEF c
  <2>5. Elsewhere(p) /\ pc'[p] = "replied" /\ job' \in [Threads -> Jobs]
        /\ pc' \in [Threads -> Points]
    BY <1>0, <1>1, <2>2, ReplyFacts
  <2>6. Typed'
    BY <1>0, <2>2, <2>4, <2>5 DEF Typed, Distinct
  <2> QED BY <1>0, <2>2, <2>4, <2>5, <2>6, EndKeeps
<1>3. CASE AbortTurn(p)
  <2> DEFINE c == [talk[job[p].id] EXCEPT !.busy = FALSE]
  <2>1. talk' = [talk EXCEPT ![job[p].id] = c]
    BY <1>1, <1>3 DEF AbortTurn
  <2>2. c \in Conversations /\ ~ c.busy /\ c.messages = talk[job[p].id].messages
    <3>1. talk[job[p].id] \in Conversations
      BY <1>0, <1>1
    <3> QED BY <3>1 DEF Conversations
  <2> HIDE DEF c
  <2>3. Fits(c.messages)
    BY <1>0, <1>1, <2>2 DEF Bounded
  <2>4. Elsewhere(p) /\ pc'[p] \in {"replied", "lookback"} /\ job' \in [Threads -> Jobs]
        /\ pc' \in [Threads -> Points]
    <3>1. CASE job[p].result = "error"
      BY <1>0, <1>1, <1>3, <3>1, ReplyFacts DEF AbortTurn
    <3>2. CASE job[p].result # "error"
      BY <1>0, <1>3, <3>2 DEF AbortTurn, Goto, Elsewhere
    <3> QED BY <3>1, <3>2
  <2>5. Typed'
    BY <1>0, <2>1, <2>2, <2>4 DEF Typed, Distinct
  <2> QED BY <1>0, <2>1, <2>2, <2>3, <2>4, <2>5, EndKeeps
<1> QED BY <1>2, <1>3

LEMMA StoreNext ==
  ASSUME StoreInv, [Next]_vars
  PROVE  StoreInv'
<1>1. CASE UNCHANGED vars
  <2>1. Held' = Held
    BY <1>1 DEF vars, Held
  <2> QED BY <1>1, <2>1 DEF StoreInv, Typed, Distinct, Bounded, BusyMeansOneTurn, Reading,
       Fits, HistoryAccepted, vars
<1>2. CASE Restart
  BY <1>2, RestartNext
<1>3. ASSUME NEW p \in Threads,
             \/ \E op \in Operations \ {"create"} : \E id \in Ids : Request(p, op, id)
             \/ "create" \in Operations /\ Request(p, "create", NoId)
             \/ Deliver(p)
      PROVE  StoreInv'
  BY <1>3, StoreAssumption, RequestsNext
<1>4. ASSUME NEW p \in Threads, Handler(p) PROVE StoreInv'
  BY <1>4, RepliesNext, BeginTurnNext, ModelNext, EndNext DEF Handler, Store
<1> QED BY <1>1, <1>2, <1>3, <1>4 DEF Next

\* The limits of the store hold, and no history it keeps is one that the model
\* client refuses (_trim, create, and _validated_history of the model client).
THEOREM TypeTheorem == Spec => []TypeOK
<1>1. StoreInv => TypeOK
  BY DEF StoreInv, Typed, Bounded, Distinct, TypeOK
<1> QED BY <1>1, StoreInit, StoreNext, PTL DEF Spec

\* One turn at a time: the handler between begin_turn and its end is alone with
\* its conversation, which cannot be evicted under it.
THEOREM BusyMeansOneTurnTheorem == Spec => []BusyMeansOneTurn
<1>1. StoreInv => BusyMeansOneTurn
  BY DEF StoreInv
<1> QED BY <1>1, StoreInit, StoreNext, PTL DEF Spec

-----------------------------------------------------------------------------
(* The exchange that is committed stays, and turns are atomic               *)

\* What finish_turn leaves of the history: the exchange appended to a part of
\* the history it was read with.
LEMMA FinishFacts ==
  ASSUME StoreInv, NEW p \in Threads, FinishTurn(p)
  PROVE  LET id     == job[p].id
             before == talk[id].messages
             after  == talk'[id].messages
             e      == [turn |-> job[p].turn, chars |-> job[p].chars, saw |-> Turns(before)]
         IN  \E k \in 0..Len(before) :
               /\ before \in Seq(Exchanges) /\ after \in Seq(Exchanges)
               /\ Len(after) = Len(before) + 1 - k
               /\ after[Len(after)] = e
               /\ \A i \in 1..(Len(before) - k) : after[i] = before[i + k]
<1> DEFINE id == job[p].id
           before == talk[id].messages
           e == [turn |-> job[p].turn, chars |-> job[p].chars, saw |-> Turns(before)]
           full == Committed(p)
<1>1. /\ id \in Held /\ id \in Ids /\ talk[id].busy /\ full \in Seq(Exchanges)
      /\ full = Append(before, e) /\ e \in Exchanges /\ job[p].chars <= MaxExchange
  BY CommittedFacts DEF FinishTurn
<1>2. before \in Seq(Exchanges) /\ talk \in [Ids -> Conversations]
  BY <1>1, TypedFacts DEF StoreInv, Typed
<1>3. talk'[id].messages = Trim(full)
  BY <1>1, <1>2 DEF FinishTurn
<1> HIDE DEF before, e, full
<1>4. /\ Len(before) \in Nat /\ Len(full) = Len(before) + 1
      /\ full[Len(full)] = e /\ \A i \in 1..Len(before) : full[i] = before[i]
  BY <1>1, <1>2
<1>5. e.chars = job[p].chars
  BY DEF e
<1>6. PICK k \in 0..Len(full) : Trim(full) = Suffix(full, k) /\ k < Len(full)
  <2>1. Len(full) > 0 /\ full[Len(full)].chars <= MaxExchange
    BY <1>1, <1>4, <1>5
  <2>2. \E k \in 0..Len(full) : /\ Trim(full) = Suffix(full, k)
                                /\ Len(full) > 0 /\ full[Len(full)].chars <= MaxExchange
                                     => k < Len(full)
    BY <1>1, TrimFacts
  <2> QED BY <2>1, <2>2
<1>7. k \in 0..Len(before)
  BY <1>4, <1>6
<1> DEFINE after == Suffix(full, k)
<1>8. /\ after \in Seq(Exchanges) /\ Len(after) = Len(full) - k
      /\ \A i \in 1..(Len(full) - k) : after[i] = full[i + k]
  BY <1>1, SuffixFacts
<1> HIDE DEF after
<1>9. Len(after) \in 1..(Len(full) - k) /\ Len(after) + k = Len(full)
      /\ Len(after) = Len(before) + 1 - k
  BY <1>4, <1>7, <1>8
<1>10. after[Len(after)] = e
  BY <1>4, <1>8, <1>9
<1>11. \A i \in 1..(Len(before) - k) : after[i] = before[i + k]
  <2> SUFFICES ASSUME NEW i \in 1..(Len(before) - k) PROVE after[i] = before[i + k]
    OBVIOUS
  <2>1. i \in 1..(Len(full) - k) /\ i + k \in 1..Len(before)
    BY <1>4, <1>7
  <2>2. after[i] = full[i + k]
    BY <1>8, <2>1
  <2> QED BY <1>4, <2>1, <2>2
<1>12. talk'[id].messages = after
  BY <1>3, <1>6 DEF after
<1> QED BY <1>2, <1>7, <1>8, <1>9, <1>10, <1>11, <1>12 DEF before, e

\* Only finish_turn itself takes a handler from there to its reply.
LEMMA FinishesItself ==
  ASSUME StoreInv, Next, NEW p \in Threads, pc[p] = "finish", pc'[p] = "replied"
  PROVE  FinishTurn(p)
<1>0. pc \in [Threads -> Points]
  BY DEF StoreInv, Typed
<1>1. ASSUME Restart PROVE FALSE
  BY <1>1 DEF Restart
<1>2. ASSUME NEW q \in Threads,
             \/ \E op \in Operations \ {"create"} : \E id \in Ids : Request(q, op, id)
             \/ "create" \in Operations /\ Request(q, "create", NoId)
             \/ Deliver(q)
             \/ Handler(q)
      PROVE  q = p /\ Handler(q)
  <2>1. CASE Handler(q)
    <3>1. \E point \in Points : Goto(q, point)
      BY <1>0, <2>1 DEF Handler, Store, Create, CreateBusy, NotFound, Inspect, Busy, Reset,
         BeginTurn, ModelAnswers, ModelFails, FinishTurn, AbortTurn, Lookback, Reply, Points, InTurn
    <3> QED BY <1>0, <2>1, <3>1 DEF Goto
  <2>2. CASE ~ Handler(q)
    <3>1. pc[q] \in {"idle", "replied"} /\ \E point \in {"idle"} \cup Operations : Goto(q, point)
      BY <1>2, <2>2 DEF Request, Deliver
    <3> QED BY <1>0, <3>1 DEF Goto
  <2> QED BY <2>1, <2>2
<1>3. Handler(p)
  BY <1>1, <1>2 DEF Next
<1> QED BY <1>3 DEF Handler, Store, Create, CreateBusy, NotFound, Inspect, Busy, Reset,
     BeginTurn, ModelAnswers, ModelFails, AbortTurn, Lookback

\* However short the history has to be cut, the exchange of the turn that cuts it
\* is still its last one (finish_turn calls _trim after it appends).
THEOREM LatestKeptTheorem == Spec => LatestKept
<1> DEFINE Kept == \A p \in Threads :
                     pc[p] = "finish" /\ pc'[p] = "replied" =>
                       LET h == talk'[job[p].id].messages
                       IN  h # << >> /\ h[Len(h)].turn = job[p].turn
<1>1. StoreInv /\ [Next]_vars => [Kept]_vars
  <2> SUFFICES ASSUME StoreInv, Next, NEW p \in Threads, pc[p] = "finish", pc'[p] = "replied"
               PROVE  LET h == talk'[job[p].id].messages
                      IN  h # << >> /\ h[Len(h)].turn = job[p].turn
    OBVIOUS
  <2>1. FinishTurn(p)
    BY FinishesItself
  <2> DEFINE before == talk[job[p].id].messages
             h == talk'[job[p].id].messages
             e == [turn |-> job[p].turn, chars |-> job[p].chars, saw |-> Turns(before)]
  <2>2. PICK k \in 0..Len(before) :
          /\ before \in Seq(Exchanges) /\ h \in Seq(Exchanges)
          /\ Len(h) = Len(before) + 1 - k
          /\ h[Len(h)] = e
    BY <2>1, FinishFacts
  <2>3. e.turn = job[p].turn
    OBVIOUS
  <2> HIDE DEF h, before, e
  <2>4. Len(h) > 0
    BY <2>2
  <2>5. h # << >>
    BY <2>4
  <2> QED BY <2>2, <2>3, <2>5 DEF h
<1> QED BY <1>1, StoreInit, StoreNext, PTL DEF Spec, LatestKept

\* The conversations as the abstract specification sees them.
Log == [id \in Ids |-> [open |-> id \in Held, messages |-> talk[id].messages]]

LEMMA LogFacts ==
  /\ Atomic!Init <=> Log = [id \in Ids |-> Atomic!Shut]
  /\ \A id \in Ids : /\ Log[id].open = (id \in Held)
                     /\ Log[id].messages = talk[id].messages
BY DEF Log, Atomic!Init

\* What leaves the keys and the messages alone is no step of the abstract one.
LEMMA LogStands ==
  ASSUME Held' = Held, \A id \in Ids : talk'[id].messages = talk[id].messages
  PROVE  Log' = Log
BY DEF Log

LEMMA Shutting ==
  ASSUME NEW x \in Ids, NEW m, x \notin Held, m = << >>
  PROVE  [open |-> x \in Held, messages |-> m] = Atomic!Shut
<1>1. (x \in Held) = FALSE
  OBVIOUS
<1> QED BY <1>1, Zenon DEF Atomic!Shut

LEMMA AtomicInit == Init => Atomic!Init
<1> SUFFICES ASSUME Init PROVE Log = [id \in Ids |-> Atomic!Shut]
  BY LogFacts
<1>1. Held = {} /\ \A id \in Ids : talk[id].messages = << >>
  BY DEF Init, Held, New
<1>2. \A id \in Ids : [open |-> id \in Held, messages |-> talk[id].messages] = Atomic!Shut
  BY <1>1, Shutting
<1> QED BY <1>2 DEF Log

LEMMA OpenStep ==
  ASSUME StoreInv, NEW p \in Threads, Create(p)
  PROVE  \E id \in Ids : \E dropped \in {{}} \cup {{x} : x \in Ids} : Atomic!Open(id, dropped)
<1>0. Typed /\ Held \subseteq Ids
  BY TypedFacts DEF StoreInv
<1>1. PICK id \in Ids : Insert(id)
  BY DEF Create
<1>2. PICK gone \in {{}} \cup {{v} : v \in Held} :
        /\ Held' = (Held \ gone) \cup {id} /\ id \notin Held \ gone
        /\ talk' = [x \in Ids |-> IF x = id \/ x \in gone THEN New ELSE talk[x]]
  BY <1>0, <1>1, InsertFacts
<1>3. gone \in {{}} \cup {{x} : x \in Ids}
  BY <1>0
<1>4. \A x \in Ids : Log'[x] = CASE x = id -> Atomic!Fresh
                                 [] x # id /\ x \in gone -> Atomic!Shut
                                 [] OTHER -> Log[x]
  <2> SUFFICES ASSUME NEW x \in Ids
               PROVE  [open |-> x \in Held', messages |-> talk'[x].messages]
                        = CASE x = id -> Atomic!Fresh
                            [] x # id /\ x \in gone -> Atomic!Shut
                            [] OTHER -> [open |-> x \in Held, messages |-> talk[x].messages]
    BY DEF Log
  <2>1. CASE x = id
    BY <1>2, <2>1, NewFacts DEF Atomic!Fresh
  <2>2. CASE x # id /\ x \in gone
    <3>1. talk'[x].messages = << >> /\ (x \in Held') = FALSE
      BY <1>2, <2>2, NewFacts
    <3>2. [open |-> x \in Held', messages |-> talk'[x].messages] = Atomic!Shut
      BY <3>1, Zenon DEF Atomic!Shut
    <3> QED BY <2>2, <3>2
  <2>3. CASE x # id /\ x \notin gone
    <3>1. talk'[x] = talk[x] /\ (x \in Held') = (x \in Held)
      BY <1>2, <2>3
    <3> QED BY <2>3, <3>1
  <2> QED BY <2>1, <2>2, <2>3
<1>5. Log' = [x \in Ids |-> Log'[x]]
  BY DEF Log
<1>6. Log[id].open => id \in gone
  BY <1>2, LogFacts
<1>7. Atomic!Open(id, gone)
  BY <1>4, <1>5, <1>6 DEF Atomic!Open, Log
<1> QED BY <1>3, <1>7

LEMMA SubSeqFacts ==
  ASSUME NEW h \in Seq(Exchanges), NEW n \in 0..Len(h)
  PROVE  /\ SubSeq(h, 1, n) \in Seq(Exchanges) /\ Len(SubSeq(h, 1, n)) = n
         /\ \A i \in 1..n : SubSeq(h, 1, n)[i] = h[i]
OBVIOUS

LEMMA ClearStep ==
  ASSUME StoreInv, NEW p \in Threads, Reset(p)
  PROVE  \E id \in Ids : Atomic!Clear(id)
<1>0. job[p].id \in Ids
  BY TypedFacts DEF Reset, StoreInv
<1>i. PICK id \in Ids : id = job[p].id
  BY <1>0
<1>1. /\ id \in Held /\ Held' = Held /\ talk \in [Ids -> Conversations]
      /\ talk' = [talk EXCEPT ![id].messages = << >>]
  BY <1>i DEF Reset, StoreInv, Typed, Held
<1>2. /\ talk'[id].messages = << >>
      /\ \A x \in Ids \ {id} : talk'[x] = talk[x]
  <2>1. talk[id] \in Conversations
    BY <1>1
  <2> QED BY <1>1, <2>1 DEF Conversations
<1>3. Log' = [Log EXCEPT ![id].messages = << >>]
  <2> DEFINE f == [Log EXCEPT ![id].messages = << >>]
  <2>1. \A x \in Ids : Log'[x] = f[x]
    BY <1>1, <1>2 DEF Log
  <2>2. Log' = [x \in Ids |-> Log'[x]] /\ f = [x \in Ids |-> f[x]]
    BY DEF Log
  <2> HIDE DEF f
  <2> QED BY <2>1, <2>2 DEF f
<1>4. Log[id].open
  BY <1>1, LogFacts
<1>5. Atomic!Clear(id)
  BY <1>3, <1>4 DEF Atomic!Clear, Log
<1> QED BY <1>5

LEMMA TurnStep ==
  ASSUME StoreInv, NEW p \in Threads, FinishTurn(p)
  PROVE  \E id \in Ids : Atomic!Turn(id)
<1>0. job[p].id \in Ids
  BY CommittedFacts DEF FinishTurn
<1>i. PICK id \in Ids : id = job[p].id
  BY <1>0
<1>1. /\ id = job[p].id /\ id \in Held /\ Held' = Held
      /\ talk \in [Ids -> Conversations] /\ talk[id].busy
  <2>1. UNCHANGED order /\ pc[p] = "finish"
    BY DEF FinishTurn
  <2>2. job[p].id \in Held /\ talk[job[p].id].busy
    BY <2>1, CommittedFacts
  <2>3. talk \in [Ids -> Conversations]
    BY DEF StoreInv, Typed
  <2> QED BY <1>i, <2>1, <2>2, <2>3 DEF Held
<1> DEFINE before == talk[id].messages
           after == talk'[id].messages
           e == [turn |-> job[p].turn, chars |-> job[p].chars, saw |-> Turns(before)]
<1>2. \A x \in Ids \ {id} : talk'[x] = talk[x]
  BY <1>1 DEF FinishTurn
<1>3. PICK k \in 0..Len(before) :
        /\ before \in Seq(Exchanges) /\ after \in Seq(Exchanges)
        /\ Len(after) = Len(before) + 1 - k
        /\ after[Len(after)] = e
        /\ \A i \in 1..(Len(before) - k) : after[i] = before[i + k]
  BY <1>1, FinishFacts
<1>4. e.saw = [i \in DOMAIN before |-> before[i].turn]
  BY DEF Turns
<1> HIDE DEF before, after, e
<1>5. Len(after) \in 1..(Len(before) + 1)
  BY <1>3
<1>6. SubSeq(after, 1, Len(after) - 1)
        = SubSeq(before, Len(before) + 2 - Len(after), Len(before))
  <2>0. PICK n \in 0..Len(after) : n = Len(after) - 1 /\ n = Len(before) - k
    <3>1. Len(before) \in Nat /\ Len(after) \in Nat /\ Len(after) - 1 \in 0..Len(after)
          /\ Len(after) - 1 = Len(before) - k
      BY <1>3
    <3> QED BY <3>1
  <2> DEFINE s == SubSeq(after, 1, n)
             t == SubSeq(before, k + 1, Len(before))
  <2>1. Len(before) + 2 - Len(after) = k + 1 /\ Len(before) \in Nat /\ k \in Nat
        /\ Len(after) - 1 = Len(before) - k /\ Len(after) \in Nat /\ Len(before) - k \in Nat
    BY <1>3
  <2>2. s \in Seq(Exchanges) /\ Len(s) = Len(before) - k
        /\ \A i \in 1..(Len(before) - k) : s[i] = after[i]
    BY <1>3, <2>0, SubSeqFacts
  <2>3. t \in Seq(Exchanges) /\ Len(t) = Len(before) - k
        /\ \A i \in 1..(Len(before) - k) : t[i] = before[i + k]
    BY <1>3, SuffixFacts DEF Suffix
  <2> HIDE DEF s, t
  <2>4. \A i \in 1..Len(s) : s[i] = t[i]
    BY <1>3, <2>2, <2>3
  <2>5. s = t
    <3>1. s = [i \in 1..Len(s) |-> s[i]]
      BY <2>2
    <3>2. t = [i \in 1..Len(t) |-> t[i]]
      BY <2>3
    <3> QED BY <2>2, <2>3, <2>4, <3>1, <3>2
  <2> QED BY <2>0, <2>1, <2>5 DEF s, t
<1>7. /\ Log[id].open /\ Log[id].messages = before /\ Log'[id].messages = after
      /\ \A x \in Ids : Log'[x].open = Log[x].open /\ (x # id => Log'[x] = Log[x])
  BY <1>1, <1>2 DEF Log, before, after
<1>8. /\ Log[id].open
      /\ LET b == Log[id].messages
             a == Log'[id].messages
         IN  /\ Len(a) \in 1..(Len(b) + 1)
             /\ a[Len(a)].saw = [i \in DOMAIN b |-> b[i].turn]
             /\ SubSeq(a, 1, Len(a) - 1) = SubSeq(b, Len(b) + 2 - Len(a), Len(b))
      /\ \A x \in Ids : Log'[x].open = Log[x].open /\ (x # id => Log'[x] = Log[x])
  BY <1>3, <1>4, <1>5, <1>6, <1>7
<1>9. Atomic!Turn(id)
  BY <1>8 DEF Atomic!Turn, Log
<1> QED BY <1>9

LEMMA AtomicNext ==
  ASSUME StoreInv, [Next]_vars
  PROVE  [Atomic!Next]_Log
<1>0. Typed
  BY DEF StoreInv
<1>1. CASE UNCHANGED vars
  BY <1>1, LogStands DEF vars, Held
<1>2. CASE Restart
  <2>1. Held' = {} /\ \A id \in Ids : talk'[id].messages = << >>
    BY <1>2 DEF Restart, Held, New
  <2>2. Log' = [id \in Ids |-> Atomic!Shut]
    <3>1. ASSUME NEW id \in Ids
          PROVE  [open |-> id \in Held', messages |-> talk'[id].messages] = Atomic!Shut
      <4>1. talk'[id].messages = << >> /\ (id \in Held') = FALSE
        BY <2>1
      <4> QED BY <4>1, Zenon DEF Atomic!Shut
    <3> QED BY <3>1 DEF Log
  <2> QED BY <2>2 DEF Atomic!Next, Atomic!Forget, Log
<1>3. ASSUME NEW p \in Threads,
             \/ \E op \in Operations \ {"create"} : \E id \in Ids : Request(p, op, id)
             \/ "create" \in Operations /\ Request(p, "create", NoId)
             \/ Deliver(p)
      PROVE  Log' = Log
  <2>1. UNCHANGED <<order, talk>>
    BY <1>3 DEF Request, Deliver, store
  <2> QED BY <2>1, LogStands DEF Held
<1>4. ASSUME NEW p \in Threads, Handler(p) PROVE [Atomic!Next]_Log
  <2>1. CASE Create(p)
    BY <2>1, OpenStep DEF Atomic!Next
  <2>2. CASE Reset(p)
    BY <2>2, ClearStep DEF Atomic!Next
  <2>3. CASE FinishTurn(p)
    BY <2>3, TurnStep DEF Atomic!Next
  <2>4. CASE CreateBusy(p) \/ NotFound(p) \/ Busy(p) \/ ModelAnswers(p) \/ ModelFails(p)
    <3>1. UNCHANGED <<order, talk>>
      BY <2>4 DEF CreateBusy, NotFound, Busy, ModelAnswers, ModelFails, store
    <3> QED BY <3>1, LogStands DEF Held
  <2>5. CASE Inspect(p) \/ Lookback(p)
    <3>1. UNCHANGED talk /\ ((order' = Latest(job[p].id) /\ job[p].id \in Held) \/ UNCHANGED order)
      BY <2>5 DEF Inspect, Lookback
    <3>2. Held' = Held
      BY <1>0, <3>1, LatestStore DEF Held
    <3> QED BY <3>1, <3>2, LogStands
  <2>6. CASE BeginTurn(p)
    <3>1. job[p].id \in Held /\ order' = Latest(job[p].id)
          /\ talk' = [talk EXCEPT ![job[p].id].busy = TRUE]
      BY <2>6 DEF BeginTurn
    <3>2. \A id \in Ids : talk'[id].messages = talk[id].messages
      BY <1>0, <3>1 DEF Typed, Conversations
    <3>3. Held' = Held
      BY <1>0, <3>1, LatestStore
    <3> QED BY <3>2, <3>3, LogStands
  <2>7. CASE AbortTurn(p)
    <3>1. UNCHANGED order /\ Held' = Held
          /\ \/ talk' = [talk EXCEPT ![job[p].id].busy = FALSE]
             \/ UNCHANGED talk
      BY <2>7 DEF AbortTurn, Held
    <3>2. ASSUME NEW id \in Ids PROVE talk'[id].messages = talk[id].messages
      <4>1. talk \in [Ids -> Conversations] /\ talk[id] \in Conversations
        BY <1>0 DEF Typed
      <4>2. CASE id = job[p].id
        BY <3>1, <4>1, <4>2 DEF Conversations
      <4>3. CASE id # job[p].id
        BY <3>1, <4>1, <4>3
      <4> QED BY <4>2, <4>3
    <3> QED BY <3>1, <3>2, LogStands
  <2> QED BY <1>4, <2>1, <2>2, <2>3, <2>4, <2>5, <2>6, <2>7 DEF Handler, Store
<1> QED BY <1>1, <1>2, <1>3, <1>4 DEF Next

\* Every behaviour of the store and its handlers is one of conversations whose
\* turns are atomic: an answer is appended to exactly the history it was given
\* in, though begin_turn and finish_turn take the lock apart.
THEOREM ImplementsConversationLog == Spec => AbstractSpec
<1> QED
  BY StoreInit, StoreNext, AtomicInit, AtomicNext, PTL DEF Spec, AbstractSpec, Atomic!Spec, Log
-----------------------------------------------------------------------------
(* The page: the id a creation draws                                        *)

LEMMA ImageFew ==
  ASSUME NEW S, IsFiniteSet(S), NEW f, DOMAIN f = S
  PROVE  LET T == {f[x] : x \in S}
         IN  IsFiniteSet(T) /\ Cardinality(T) \in Nat /\ Cardinality(T) <= Cardinality(S)
<1> DEFINE T == {f[x] : x \in S}
           g == [x \in S |-> f[x]]
<1>1. g \in Surjection(S, T)
  BY DEF Surjection
<1> HIDE DEF T, g
<1>2. IsFiniteSet(T) /\ Cardinality(T) <= Cardinality(S)
  BY <1>1, FS_Surjection
<1>3. Cardinality(T) \in Nat
  BY <1>2, FS_CardinalityType
<1> QED BY <1>2, <1>3 DEF T

\* There are enough ids: the one drawn is known to nobody.
LEMMA DrawnFacts ==
  ASSUME EnoughIds, Typed
  PROVE  Drawn \in Ids /\ Drawn \notin Held /\ Drawn # activeId
         /\ \A q \in Threads : Drawn # job[q].id
<1> DEFINE known == {job[q].id : q \in Threads}
           page1 == {activeId}
           all   == Held \cup page1 \cup known
<1>1. IsFiniteSet(Held) /\ Cardinality(Held) \in Nat /\ Cardinality(Held) <= MaxSessions
  <2>1. /\ Len(order) \in Nat /\ DOMAIN order = 1..Len(order) /\ Len(order) <= MaxSessions
        /\ MaxSessions \in Nat
    BY TypedFacts, StoreAssumption DEF Typed
  <2>2. IsFiniteSet(DOMAIN order) /\ Cardinality(DOMAIN order) = Len(order)
    <3> DEFINE n == Len(order)
    <3>1. n \in Nat /\ 1 \in Int /\ n \in Int
      BY <2>1
    <3> HIDE DEF n
    <3>2. IsFiniteSet(1..n) /\ Cardinality(1..n) = IF 1 > n THEN 0 ELSE n - 1 + 1
      BY <3>1, FS_Interval
    <3>3. IsFiniteSet(1..n) /\ Cardinality(1..n) = n
      BY <3>1, <3>2
    <3> QED BY <2>1, <3>3 DEF n
  <2>3. IsFiniteSet(Held) /\ Cardinality(Held) \in Nat /\ Cardinality(Held) <= Cardinality(DOMAIN order)
    BY <2>2, ImageFew DEF Held
  <2> QED BY <2>1, <2>2, <2>3
<1>2. IsFiniteSet(known) /\ Cardinality(known) \in Nat /\ Cardinality(known) <= Cardinality(Threads)
  <2> DEFINE f == [q \in Threads |-> job[q].id]
  <2>1. known = {f[q] : q \in Threads} /\ DOMAIN f = Threads
    OBVIOUS
  <2>2. IsFiniteSet(Threads)
    BY DEF EnoughIds
  <2> HIDE DEF f, known
  <2> QED BY <2>1, <2>2, ImageFew
<1>3. IsFiniteSet(page1) /\ Cardinality(page1) = 1
  BY FS_Singleton
<1> HIDE DEF known, page1
<1>4. IsFiniteSet(Held \cup page1) /\ Cardinality(Held \cup page1) \in Nat
      /\ Cardinality(Held \cup page1) <= MaxSessions + 1
  <2>1. /\ IsFiniteSet(Held \cup page1)
        /\ Cardinality(Held \cup page1) =
             Cardinality(Held) + Cardinality(page1) - Cardinality(Held \cap page1)
    BY <1>1, <1>3, FS_Union
  <2>2. IsFiniteSet(Held \cap page1) /\ Cardinality(Held \cap page1) \in Nat
        /\ Cardinality(Held \cup page1) \in Nat
    BY <1>1, <2>1, FS_Intersection, FS_CardinalityType
  <2> QED BY <1>1, <1>3, <2>1, <2>2, StoreAssumption
<1>5. IsFiniteSet(all) /\ Cardinality(all) \in Nat
      /\ Cardinality(all) <= MaxSessions + 1 + Cardinality(Threads)
  <2> DEFINE both == Held \cup page1
  <2>0. IsFiniteSet(both) /\ Cardinality(both) \in Nat /\ Cardinality(both) <= MaxSessions + 1
    BY <1>4
  <2> HIDE DEF both
  <2>1. /\ IsFiniteSet(both \cup known)
        /\ Cardinality(both \cup known) =
             Cardinality(both) + Cardinality(known) - Cardinality(both \cap known)
    BY <1>2, <2>0, FS_Union
  <2>2. IsFiniteSet(both \cap known) /\ Cardinality(both \cap known) \in Nat
        /\ Cardinality(both \cup known) \in Nat
    BY <2>0, <2>1, FS_Intersection, FS_CardinalityType
  <2>3. Cardinality(Threads) \in Nat
    BY FS_CardinalityType DEF EnoughIds
  <2> QED BY <1>2, <2>0, <2>1, <2>2, <2>3, StoreAssumption DEF both
<1> HIDE DEF all
<1>6. \E id \in Ids : id \notin all
  <2> SUFFICES ASSUME Ids \subseteq all PROVE FALSE
    OBVIOUS
  <2>1. Cardinality(Ids) <= Cardinality(all)
    BY <1>5, FS_Subset
  <2>2. Cardinality(Ids) \in Nat /\ Cardinality(Threads) \in Nat
    BY FS_CardinalityType DEF EnoughIds
  <2> QED BY <1>5, <2>1, <2>2, StoreAssumption DEF EnoughIds
<1>7. Drawn \in Ids /\ Drawn \notin all
  BY <1>6 DEF Drawn, all, known, page1
<1> QED BY <1>7 DEF all, known, page1

-----------------------------------------------------------------------------
(* The page: who chats, and who was given an id                             *)

Chatting == {"chat", "lookback", "replied"} \cup InTurn

\* What the page's task awaits tells where the handler of its request is.
Served ==
  /\ task \in [Threads -> Waits]
  /\ \A t \in Threads :
       /\ task[t] = "none" => pc[t] = "idle"
       /\ task[t] \in {"ensure", "new"} => pc[t] \in {"create", "replied"}
       /\ task[t] = "answer" => pc[t] \in Chatting

\* The reply to a creation is on its way to the page.
GivenId(t) == task[t] \in {"ensure", "new"} /\ pc[t] = "replied" /\ job[t].reply = "done"

\* A conversation the page has not heard of yet is known to nobody else and empty.
Unknown(t) ==
  GivenId(t) =>
    /\ job[t].id \in Ids /\ job[t].id # activeId
    /\ \A u \in Threads \ {t} : job[u].id # job[t].id
    /\ job[t].id \in Held => talk[job[t].id].messages = << >>

Quiet ==
  fresh = "quiet" =>
    /\ \A t \in Threads : task[t] # "answer"
    /\ activeId \in Held => talk[activeId].messages = << >>

PageInv == Served /\ (\A t \in Threads : Unknown(t)) /\ Quiet /\ activeId \in Ids \cup {NoId}

ChatInv == StoreInv /\ PageInv

\* The conversations that are held afterwards were held before, with the messages
\* they had or none; one may be excepted.
OthersKept(excepted) ==
  \A x \in Held' \ excepted :
    x \in Held /\ talk'[x].messages \in {talk[x].messages, << >>}

\* What inserting a conversation does.
LEMMA InsertKeeps ==
  ASSUME Typed, NEW id \in Ids, Insert(id)
  PROVE  OthersKept({id}) /\ talk'[id].messages = << >>
<1>1. PICK gone \in {{}} \cup {{v} : v \in Held} :
        /\ \A v \in gone : ~ talk[v].busy
        /\ Held' = (Held \ gone) \cup {id} /\ id \notin Held \ gone
        /\ talk' = [x \in Ids |-> IF x = id \/ x \in gone THEN New ELSE talk[x]]
  BY InsertFacts
<1>2. Held \subseteq Ids
  BY TypedFacts
<1> QED BY <1>1, <1>2, NewFacts DEF OthersKept

\* What a handler does to the conversations: its own one may get a turn.
LEMMA HandlerKeeps ==
  ASSUME StoreInv, NEW p \in Threads, Handler(p), pc[p] # "create"
  PROVE  /\ OthersKept({job[p].id}) /\ Elsewhere(p)
         /\ job'[p].id = job[p].id
         /\ pc[p] \in {"inspect", "reset"} \/ (pc[p] \in Chatting \ {"replied"} /\ pc'[p] \in Chatting)
<1>0. Typed /\ job \in [Threads -> Jobs] /\ pc \in [Threads -> Points] /\ talk \in [Ids -> Conversations]
      /\ job[p].id \in Ids \cup {NoId} /\ Held \subseteq Ids
      /\ {"none", "done", "fallback", "busy", "notfound", "raised"} \subseteq Replies
  BY TypedFacts DEF StoreInv, Typed, Replies
<1>1. ASSUME NEW answer \in Replies, Reply(p, job[p].id, answer)
      PROVE  Elsewhere(p) /\ pc'[p] = "replied" /\ job'[p].id = job[p].id
  BY <1>0, <1>1, ReplyFacts
<1>2. CASE NotFound(p) \/ Busy(p)
  <2>1. UNCHANGED <<order, talk>> /\ \E answer \in Replies : Reply(p, job[p].id, answer)
    BY <1>0, <1>2 DEF NotFound, Busy, store
  <2>2. OthersKept({job[p].id})
    BY <2>1 DEF OthersKept, Held
  <2> QED BY <1>1, <1>2, <2>1, <2>2 DEF NotFound, Busy, Chatting
<1>3. CASE Inspect(p) \/ Lookback(p)
  <2>1. /\ UNCHANGED talk
        /\ (order' = Latest(job[p].id) /\ job[p].id \in Held) \/ UNCHANGED order
        /\ \E answer \in Replies : Reply(p, job[p].id, answer)
    BY <1>0, <1>3 DEF Inspect, Lookback
  <2>2. Held' = Held
    BY <1>0, <2>1, LatestStore DEF Held
  <2>3. OthersKept({job[p].id})
    BY <2>1, <2>2 DEF OthersKept
  <2> QED BY <1>1, <1>3, <2>1, <2>3 DEF Inspect, Lookback, Chatting
<1>4. CASE Reset(p) \/ FinishTurn(p) \/ AbortTurn(p)
  <2>1. /\ UNCHANGED order
        /\ \A x \in Held \ {job[p].id} : talk'[x] = talk[x]
    BY <1>0, <1>4 DEF Reset, FinishTurn, AbortTurn
  <2>2. OthersKept({job[p].id})
    BY <2>1 DEF OthersKept, Held
  <2>3. Elsewhere(p) /\ job'[p].id = job[p].id
        /\ pc'[p] \in {"replied", "lookback"}
    <3>1. (\E answer \in Replies : Reply(p, job[p].id, answer)) \/ (Goto(p, "lookback") /\ UNCHANGED job)
      BY <1>0, <1>4 DEF Reset, FinishTurn, AbortTurn
    <3>2. Goto(p, "lookback") => \A q \in Threads : pc'[q] = IF q = p THEN "lookback" ELSE pc[q]
      BY <1>0 DEF Goto
    <3> QED BY <1>1, <3>1, <3>2 DEF Elsewhere
  <2> QED BY <1>4, <2>2, <2>3 DEF Reset, FinishTurn, AbortTurn, Chatting, InTurn
<1>5. CASE BeginTurn(p)
  <2>1. /\ Held' = Held /\ \A x \in Held \ {job[p].id} : talk'[x] = talk[x]
    BY <1>0, <1>5, LatestStore DEF BeginTurn
  <2>2. OthersKept({job[p].id})
    BY <2>1 DEF OthersKept
  <2>3. Elsewhere(p) /\ job'[p].id = job[p].id /\ pc'[p] = "model"
    BY <1>0, <1>5 DEF BeginTurn, Goto, Elsewhere, Jobs
  <2> QED BY <1>5, <2>2, <2>3 DEF BeginTurn, Chatting, InTurn
<1>6. CASE ModelAnswers(p) \/ ModelFails(p)
  <2>1. OthersKept({job[p].id})
    BY <1>6 DEF ModelAnswers, ModelFails, store, OthersKept, Held
  <2>2. Elsewhere(p) /\ job'[p].id = job[p].id /\ pc'[p] \in {"finish", "abort"}
    BY <1>0, <1>6 DEF ModelAnswers, ModelFails, Goto, Elsewhere, Jobs
  <2> QED BY <1>6, <2>1, <2>2 DEF ModelAnswers, ModelFails, Chatting, InTurn
<1> QED BY <1>2, <1>3, <1>4, <1>5, <1>6 DEF Handler, Store, Create, CreateBusy

-----------------------------------------------------------------------------
(* The page: every step keeps the store and what the page knows             *)

LEMMA ChatInitInv == ChatInit => ChatInv
<1> SUFFICES ASSUME ChatInit PROVE ChatInv
  OBVIOUS
<1>1. StoreInv
  BY StoreInit DEF ChatInit
<1>2. PageInv
  BY DEF ChatInit, Init, PageInv, Served, Unknown, GivenId, Quiet, Waits
<1> QED BY <1>1, <1>2 DEF ChatInv

\* Another client's creation.
LEMMA OthersStore ==
  ASSUME StoreInv, EnoughIds, OtherCreates
  PROVE  StoreInv'
<1>1. Typed /\ UNCHANGED <<pc, job, turns, restarts>>
  BY DEF StoreInv, OtherCreates
<1>2. Drawn \in Ids /\ Insert(Drawn)
  BY <1>1, DrawnFacts DEF OtherCreates
<1> DEFINE P == {}
<1>3. Typed'
  BY <1>1, <1>2, InsertStore DEF Typed
<1>4. P \in SUBSET Threads /\ (\A q \in P : pc[q] \notin InTurn /\ pc'[q] \notin InTurn)
      /\ \A q \in Threads \ P : pc'[q] = pc[q] /\ job'[q] = job[q]
  BY <1>1
<1> HIDE DEF P
<1> QED BY <1>2, <1>3, <1>4, InsertStore, TurnsStand

\* The message that follows a creation.
LEMMA EnsureStore ==
  ASSUME StoreInv, NEW t \in Threads, EnsureDone(t)
  PROVE  StoreInv' /\ Elsewhere(t) /\ pc'[t] = "chat" /\ job'[t].id = job[t].id
<1>0. /\ Typed /\ job \in [Threads -> Jobs] /\ pc \in [Threads -> Points]
      /\ job[t].id \in Ids \cup {NoId} /\ UNCHANGED <<order, talk, turns, restarts>>
      /\ pc[t] = "replied" /\ pc' = [pc EXCEPT ![t] = "chat"]
      /\ "chat" \in Points \ InTurn /\ "replied" \notin InTurn
  BY TypedFacts DEF StoreInv, Typed, EnsureDone, store, Points, InTurn
<1> DEFINE j == [NoJob EXCEPT !.id = job[t].id]
<1>1. j \in Jobs /\ j.id = job[t].id
  <2>1. NoJob \in Jobs
    BY DEF NoJob, Jobs, Results, Replies
  <2> QED BY <1>0, <2>1 DEF Jobs
<1>2. job' = [job EXCEPT ![t] = j]
  BY DEF EnsureDone
<1> HIDE DEF j
<1>3. /\ Elsewhere(t) /\ pc'[t] = "chat" /\ job'[t].id = job[t].id
      /\ job' \in [Threads -> Jobs] /\ pc' \in [Threads -> Points]
  BY <1>0, <1>1, <1>2 DEF Elsewhere
<1>4. Typed' /\ Held' = Held
  BY <1>0, <1>3 DEF Typed, Distinct, Held
<1>5. StoreInv'
  BY <1>0, <1>3, <1>4, AsideStill
<1> QED BY <1>3, <1>5

\* A request of the page, or a reply that reaches it.
LEMMA RequestFacts ==
  ASSUME StoreInv, NEW t \in Threads, NEW op \in {"create", "chat"}, NEW id \in Ids \cup {NoId},
         Request(t, op, id)
  PROVE  /\ StoreInv' /\ UNCHANGED talk /\ Held' = Held
         /\ Elsewhere(t) /\ pc[t] = "idle" /\ pc'[t] = op /\ job'[t].id = id
<1>0. job \in [Threads -> Jobs] /\ pc \in [Threads -> Points] /\ job[t] \in Jobs
  BY DEF StoreInv, Typed
<1>1. StoreInv'
  BY RequestsNext
<1>2. UNCHANGED talk /\ Held' = Held /\ pc[t] = "idle"
  BY DEF Request, store, Held
<1>3. Elsewhere(t) /\ pc'[t] = op /\ job'[t].id = id
  BY <1>0 DEF Request, Goto, Elsewhere, Jobs
<1> QED BY <1>1, <1>2, <1>3

LEMMA DeliverFacts ==
  ASSUME StoreInv, NEW t \in Threads, Deliver(t)
  PROVE  /\ StoreInv' /\ UNCHANGED talk /\ Held' = Held
         /\ Elsewhere(t) /\ pc[t] = "replied" /\ pc'[t] = "idle" /\ job'[t].id = NoId
<1>0. job \in [Threads -> Jobs] /\ pc \in [Threads -> Points]
  BY DEF StoreInv, Typed
<1>1. StoreInv'
  BY RequestsNext
<1>2. UNCHANGED talk /\ Held' = Held /\ pc[t] = "replied"
  BY DEF Deliver, store, Held
<1>3. Elsewhere(t) /\ pc'[t] = "idle" /\ job'[t].id = NoId
  BY <1>0 DEF Deliver, Goto, Elsewhere, NoJob
<1> QED BY <1>1, <1>2, <1>3

\* A step of one task of the page, which leaves the conversations alone.
LEMMA TaskKeeps ==
  ASSUME ChatInv, NEW t \in Threads, NEW w \in Waits, Await(t, w),
         Elsewhere(t), UNCHANGED talk, Held' = Held,
         \/ w = "none" /\ pc'[t] = "idle"
         \/ w \in {"ensure", "new"} /\ pc'[t] = "create"
         \/ w = "answer" /\ pc'[t] = "chat",
         activeId' \in {activeId, job[t].id}, job'[t].id \in {NoId, activeId, job[t].id},
         Quiet'
  PROVE  PageInv'
<1>0. /\ StoreInv /\ Served /\ (\A u \in Threads : Unknown(u)) /\ NoId \notin Ids
      /\ activeId \in Ids \cup {NoId} /\ job[t].id \in Ids \cup {NoId}
      /\ "chat" \in Chatting /\ task \in [Threads -> Waits]
  BY TypedFacts, StoreAssumption DEF ChatInv, PageInv, StoreInv, Chatting, Served
<1>1. task' \in [Threads -> Waits] /\ task'[t] = w /\ \A u \in Threads \ {t} : task'[u] = task[u]
  BY <1>0 DEF Await
<1>2. Served'
  <2> SUFFICES ASSUME NEW u \in Threads
               PROVE  /\ task'[u] = "none" => pc'[u] = "idle"
                      /\ task'[u] \in {"ensure", "new"} => pc'[u] \in {"create", "replied"}
                      /\ task'[u] = "answer" => pc'[u] \in Chatting
    BY <1>1 DEF Served, Chatting, InTurn
  <2>1. CASE u = t
    BY <1>0, <1>1, <2>1
  <2>2. CASE u # t
    BY <1>0, <1>1, <2>2 DEF Elsewhere, Served
  <2> QED BY <2>1, <2>2
<1>3. ASSUME NEW u \in Threads, GivenId(u)' PROVE Unknown(u)'
  <2>1. u # t
    BY <1>1, <1>3 DEF GivenId
  <2>2. GivenId(u) /\ job'[u] = job[u]
    BY <1>1, <1>3, <2>1 DEF GivenId, Elsewhere
  <2>3. /\ job[u].id \in Ids /\ job[u].id # activeId
        /\ \A v \in Threads \ {u} : job[v].id # job[u].id
        /\ job[u].id \in Held => talk[job[u].id].messages = << >>
    BY <1>0, <2>2 DEF Unknown
  <2>4. job[u].id # activeId' /\ job[u].id # job'[t].id
    BY <1>0, <2>1, <2>3
  <2>5. \A v \in Threads \ {u} : job'[v].id # job[u].id
    BY <2>3, <2>4 DEF Elsewhere
  <2> QED BY <2>2, <2>3, <2>4, <2>5 DEF Unknown
<1>4. \A u \in Threads : Unknown(u)'
  BY <1>3 DEF Unknown
<1> QED BY <1>0, <1>2, <1>4 DEF PageInv

\* An id that was on its way reaches the page: its conversation is empty.
LEMMA GivenFacts ==
  ASSUME ChatInv, NEW t \in Threads, task[t] \in {"ensure", "new"},
         pc[t] = "replied", job[t].reply = "done"
  PROVE  job[t].id \in Held => talk[job[t].id].messages = << >>
BY DEF ChatInv, PageInv, Unknown, GivenId

LEMMA PageStarts ==
  ASSUME ChatInv, NEW t \in Threads, Send(t) \/ SendFirst(t) \/ NewConversation(t)
  PROVE  ChatInv'
<1>0. /\ StoreInv /\ activeId \in Ids \cup {NoId} /\ NoId \in Ids \cup {NoId}
      /\ {"ensure", "new", "answer"} \subseteq Waits /\ Quiet
      /\ task \in [Threads -> Waits]
  BY DEF ChatInv, PageInv, Waits, Served
<1>1. CASE Send(t)
  <2>1. /\ Request(t, "chat", activeId) /\ activeId' = activeId /\ fresh' = "no"
        /\ Await(t, "answer")
    BY <1>1 DEF Send, PostChat
  <2>2. /\ StoreInv' /\ UNCHANGED talk /\ Held' = Held
        /\ Elsewhere(t) /\ pc'[t] = "chat" /\ job'[t].id = activeId
    BY <1>0, <2>1, RequestFacts
  <2>3. Quiet'
    BY <2>1 DEF Quiet
  <2>4. PageInv'
    BY <1>0, <2>1, <2>2, <2>3, TaskKeeps
  <2> QED BY <2>2, <2>4 DEF ChatInv
<1>2. CASE SendFirst(t) \/ NewConversation(t)
  <2>1. PICK w \in {"ensure", "new"} :
          /\ Request(t, "create", NoId) /\ Await(t, w) /\ UNCHANGED <<activeId, pending, fresh>>
    BY <1>2 DEF SendFirst, NewConversation
  <2>2. /\ StoreInv' /\ UNCHANGED talk /\ Held' = Held
        /\ Elsewhere(t) /\ pc'[t] = "create" /\ job'[t].id = NoId
    BY <1>0, <2>1, RequestFacts
  <2>3. Quiet'
    BY <1>0, <2>1, <2>2 DEF Quiet, Await
  <2>4. PageInv'
    BY <1>0, <2>1, <2>2, <2>3, TaskKeeps
  <2> QED BY <2>2, <2>4 DEF ChatInv
<1> QED BY <1>1, <1>2

LEMMA PageHears ==
  ASSUME ChatInv, NEW t \in Threads, Page(t)
  PROVE  ChatInv'
<1>0. /\ StoreInv /\ Quiet /\ task \in [Threads -> Waits] /\ "answer" \in Waits /\ "none" \in Waits
  BY DEF ChatInv, PageInv, Waits, Served
<1>1. CASE EnsureDone(t)
  <2>1. activeId' = job[t].id /\ fresh' = "no" /\ Await(t, "answer") /\ UNCHANGED talk
        /\ UNCHANGED order
    BY <1>1 DEF EnsureDone, store
  <2>2. StoreInv' /\ Elsewhere(t) /\ pc'[t] = "chat" /\ job'[t].id = job[t].id
    BY <1>0, <1>1, EnsureStore
  <2>3. Quiet' /\ Held' = Held
    BY <2>1 DEF Quiet, Held
  <2>4. PageInv'
    BY <1>0, <2>1, <2>2, <2>3, TaskKeeps
  <2> QED BY <2>2, <2>4 DEF ChatInv
<1>2. CASE ~ EnsureDone(t)
  <2>1. /\ Deliver(t) /\ Await(t, "none")
        /\ \/ task[t] = "new" /\ job[t].reply = "done" /\ activeId' = job[t].id
              /\ fresh' = Announced(t)
           \/ task[t] = "ensure" /\ job[t].reply = "done" /\ activeId' = job[t].id
              /\ UNCHANGED fresh
           \/ task[t] \in {"ensure", "new"} /\ UNCHANGED <<activeId, fresh>>
           \/ task[t] = "answer" /\ activeId' \in {activeId, job[t].id} /\ UNCHANGED fresh
    BY <1>2 DEF Page, NewDone, CreateRefused, AnswerDone, PageClosed
  <2>2. /\ StoreInv' /\ UNCHANGED talk /\ Held' = Held
        /\ Elsewhere(t) /\ pc[t] = "replied" /\ pc'[t] = "idle" /\ job'[t].id = NoId
    BY <1>0, <2>1, DeliverFacts
  <2>3. \A u \in Threads : task'[u] = IF u = t THEN "none" ELSE task[u]
    BY <1>0, <2>1 DEF Await
  <2>4. Quiet'
    <3> SUFFICES ASSUME fresh' = "quiet"
                 PROVE  /\ \A u \in Threads : task'[u] # "answer"
                        /\ activeId' \in Held' => talk'[activeId'].messages = << >>
      BY DEF Quiet
    <3>1. CASE task[t] = "new" /\ job[t].reply = "done" /\ activeId' = job[t].id
               /\ fresh' = Announced(t)
      <4>1. \A u \in Threads \ {t} : task[u] # "answer"
        BY <3>1 DEF Announced
      <4>2. job[t].id \in Held => talk[job[t].id].messages = << >>
        BY <2>2, <3>1, GivenFacts
      <4> QED BY <2>2, <2>3, <3>1, <4>1, <4>2
    <3>2. CASE task[t] = "ensure" /\ job[t].reply = "done" /\ activeId' = job[t].id
               /\ UNCHANGED fresh
      <4>1. job[t].id \in Held => talk[job[t].id].messages = << >>
        BY <2>2, <3>2, GivenFacts
      <4> QED BY <1>0, <2>2, <2>3, <3>2, <4>1 DEF Quiet
    <3>3. CASE task[t] \in {"ensure", "new"} /\ UNCHANGED <<activeId, fresh>>
      BY <1>0, <2>2, <2>3, <3>3 DEF Quiet
    <3>4. CASE task[t] = "answer" /\ UNCHANGED fresh
      BY <1>0, <3>4 DEF Quiet
    <3> QED BY <2>1, <3>1, <3>2, <3>3, <3>4
  <2>5. PageInv'
    BY <1>0, <2>1, <2>2, <2>4, TaskKeeps
  <2> QED BY <2>2, <2>5 DEF ChatInv
<1> QED BY <1>1, <1>2

\* The conversations that somebody else's creation may have evicted.
LEMMA OthersKeep ==
  ASSUME ChatInv, EnoughIds, OtherCreates
  PROVE  ChatInv'
<1>0. /\ StoreInv /\ Typed /\ Served /\ Quiet /\ (\A u \in Threads : Unknown(u))
      /\ activeId \in Ids \cup {NoId} /\ Insert(Drawn)
      /\ UNCHANGED <<pc, job, activeId, fresh, task>>
  BY DEF ChatInv, PageInv, StoreInv, OtherCreates, page
<1>1. StoreInv'
  BY <1>0, OthersStore
<1>2. /\ Drawn \in Ids /\ Drawn # activeId /\ \A q \in Threads : Drawn # job[q].id
  BY <1>0, DrawnFacts
<1>3. OthersKept({Drawn})
  BY <1>0, <1>2, InsertKeeps
<1>4. Served'
  BY <1>0 DEF Served
<1>5. Quiet'
  BY <1>0, <1>2, <1>3 DEF Quiet, OthersKept
<1>6. \A u \in Threads : Unknown(u)'
  BY <1>0, <1>2, <1>3 DEF Unknown, GivenId, OthersKept
<1> QED BY <1>0, <1>1, <1>4, <1>5, <1>6 DEF ChatInv, PageInv

\* A creation of the page is answered with an id known to nobody else.
LEMMA CreateServed ==
  ASSUME ChatInv, EnoughIds, NEW p \in Threads, Serve(p), pc[p] = "create"
  PROVE  PageInv'
<1>0. /\ StoreInv /\ Typed /\ Served /\ Quiet /\ (\A u \in Threads : Unknown(u))
      /\ activeId \in Ids \cup {NoId} /\ NoId \notin Ids
      /\ UNCHANGED <<activeId, fresh, task>>
      /\ {"done", "busy"} \subseteq Replies
      /\ job \in [Threads -> Jobs]
  BY StoreAssumption DEF ChatInv, PageInv, StoreInv, Serve, page, Replies, Typed
<1>1. Create(p) \/ CreateBusy(p)
  BY DEF Serve, Handler, Store, NotFound, Inspect, Busy, Reset, BeginTurn, ModelAnswers,
     ModelFails, FinishTurn, AbortTurn, Lookback
<1>2. task[p] \in {"ensure", "new"}
  BY <1>0 DEF Served, Waits, Chatting, InTurn
<1>3. ASSUME NEW id \in Ids \cup {NoId}, NEW answer \in Replies, Reply(p, id, answer)
      PROVE  /\ Elsewhere(p) /\ pc'[p] = "replied" /\ job'[p].id = id
             /\ job'[p].reply = answer
  <2>1. Elsewhere(p) /\ pc'[p] = "replied" /\ job'[p].id = id
    BY <1>0, <1>3, ReplyFacts
  <2> DEFINE j == [job[p] EXCEPT !.id = id, !.reply = answer]
  <2>2. j.reply = answer
    BY <1>0 DEF Jobs
  <2>3. job' = [job EXCEPT ![p] = j]
    BY <1>3 DEF Reply
  <2> HIDE DEF j
  <2>4. job'[p].reply = answer
    BY <1>0, <2>2, <2>3
  <2> QED BY <2>1, <2>4
<1>4. ASSUME Elsewhere(p), pc'[p] = "replied" PROVE Served'
  BY <1>0, <1>2, <1>4 DEF Served, Elsewhere
<1>5. CASE CreateBusy(p)
  <2>1. Reply(p, NoId, "busy") /\ UNCHANGED <<order, talk>> /\ Held' = Held
    BY <1>5 DEF CreateBusy, store, Held
  <2>2. Elsewhere(p) /\ pc'[p] = "replied" /\ job'[p].id = NoId /\ job'[p].reply = "busy"
    BY <1>0, <1>3, <2>1
  <2>3. Quiet'
    BY <1>0, <2>1 DEF Quiet
  <2>4. ASSUME NEW u \in Threads, GivenId(u)' PROVE Unknown(u)'
    <3>1. u # p
      BY <2>2, <2>4 DEF GivenId
    <3>2. GivenId(u) /\ job'[u] = job[u]
      BY <1>0, <2>2, <2>4, <3>1 DEF GivenId, Elsewhere
    <3>3. /\ job[u].id \in Ids /\ job[u].id # activeId
          /\ \A v \in Threads \ {u} : job[v].id # job[u].id
          /\ job[u].id \in Held => talk[job[u].id].messages = << >>
      BY <1>0, <3>2 DEF Unknown
    <3>4. \A v \in Threads \ {u} : job'[v].id # job[u].id
      BY <1>0, <2>2, <3>3 DEF Elsewhere
    <3> QED BY <1>0, <2>1, <3>2, <3>3, <3>4 DEF Unknown
  <2>5. \A u \in Threads : Unknown(u)'
    BY <2>4 DEF Unknown
  <2> QED BY <1>0, <1>4, <2>2, <2>3, <2>5 DEF PageInv
<1>6. CASE Create(p)
  <2>1. PICK id \in Ids : Insert(id) /\ Reply(p, id, "done")
    BY <1>6 DEF Create
  <2>2. Elsewhere(p) /\ pc'[p] = "replied" /\ job'[p].id = id /\ job'[p].reply = "done"
    BY <1>0, <1>3, <2>1
  <2>3. id = Drawn
    BY <2>2 DEF Serve
  <2>4. id # activeId /\ \A q \in Threads : id # job[q].id
    BY <1>0, <2>3, DrawnFacts
  <2>5. OthersKept({id}) /\ talk'[id].messages = << >>
    BY <1>0, <2>1, InsertKeeps
  <2>6. Quiet'
    BY <1>0, <2>4, <2>5 DEF Quiet, OthersKept
  <2>7. ASSUME NEW u \in Threads, GivenId(u)' PROVE Unknown(u)'
    <3>1. CASE u = p
      <4>1. \A v \in Threads \ {p} : job'[v].id # id
        BY <2>2, <2>4 DEF Elsewhere
      <4> QED BY <1>0, <2>2, <2>4, <2>5, <3>1, <4>1 DEF Unknown
    <3>2. CASE u # p
      <4>1. GivenId(u) /\ job'[u] = job[u]
        BY <1>0, <2>2, <2>7, <3>2 DEF GivenId, Elsewhere
      <4>2. /\ job[u].id \in Ids /\ job[u].id # activeId
            /\ \A v \in Threads \ {u} : job[v].id # job[u].id
            /\ job[u].id \in Held => talk[job[u].id].messages = << >>
        BY <1>0, <4>1 DEF Unknown
      <4>3. \A v \in Threads \ {u} : job'[v].id # job[u].id
        BY <2>2, <2>4, <4>2 DEF Elsewhere
      <4>4. job[u].id \in Held' => talk'[job[u].id].messages = << >>
        BY <2>4, <2>5, <4>2 DEF OthersKept
      <4> QED BY <1>0, <4>1, <4>2, <4>3, <4>4 DEF Unknown
    <3> QED BY <3>1, <3>2
  <2>8. \A u \in Threads : Unknown(u)'
    BY <2>7 DEF Unknown
  <2> QED BY <1>0, <1>4, <2>2, <2>6, <2>8 DEF PageInv
<1> QED BY <1>1, <1>5, <1>6

\* While a chat request of the page is served, nothing is quiet.
LEMMA ChatServed ==
  ASSUME ChatInv, NEW p \in Threads, Serve(p), pc[p] # "create"
  PROVE  PageInv'
<1>0. /\ StoreInv /\ Served /\ Quiet /\ (\A u \in Threads : Unknown(u))
      /\ activeId \in Ids \cup {NoId} /\ Handler(p)
      /\ UNCHANGED <<activeId, fresh, task>>
  BY DEF ChatInv, PageInv, Serve, page
<1>1. /\ OthersKept({job[p].id}) /\ Elsewhere(p) /\ job'[p].id = job[p].id
      /\ pc[p] \in {"inspect", "reset"} \/ (pc[p] \in Chatting \ {"replied"} /\ pc'[p] \in Chatting)
  BY <1>0, HandlerKeeps
<1>2. task[p] = "answer" /\ pc'[p] \in Chatting
  BY <1>0, <1>1 DEF Served, Waits, Chatting, InTurn
<1>3. Served'
  BY <1>0, <1>1, <1>2 DEF Served, Elsewhere
<1>4. Quiet'
  BY <1>0, <1>2 DEF Quiet
<1>5. ASSUME NEW u \in Threads, GivenId(u)' PROVE Unknown(u)'
  <2>1. u # p
    BY <1>0, <1>2, <1>5 DEF GivenId
  <2>2. GivenId(u) /\ job'[u] = job[u]
    BY <1>0, <1>1, <1>5, <2>1 DEF GivenId, Elsewhere
  <2>3. /\ job[u].id \in Ids /\ job[u].id # activeId
        /\ \A v \in Threads \ {u} : job[v].id # job[u].id
        /\ job[u].id \in Held => talk[job[u].id].messages = << >>
    BY <1>0, <2>2 DEF Unknown
  <2>4. \A v \in Threads \ {u} : job'[v].id # job[u].id
    BY <1>1, <2>3 DEF Elsewhere
  <2>5. job[u].id \in Held' => talk'[job[u].id].messages = << >>
    BY <1>1, <2>1, <2>3 DEF OthersKept
  <2> QED BY <1>0, <2>2, <2>3, <2>4, <2>5 DEF Unknown
<1>6. \A u \in Threads : Unknown(u)'
  BY <1>5 DEF Unknown
<1> QED BY <1>0, <1>3, <1>4, <1>6 DEF PageInv

LEMMA ChatNextInv ==
  ASSUME ChatInv, EnoughIds, [ChatNext]_chatVars
  PROVE  ChatInv'
<1>1. CASE UNCHANGED chatVars
  <2>1. StoreInv'
    BY <1>1, StoreNext DEF ChatInv, chatVars
  <2>2. /\ UNCHANGED <<order, talk, pc, job, activeId, fresh, task>> /\ Held' = Held
        /\ PageInv
    BY <1>1 DEF ChatInv, chatVars, vars, page, Held
  <2>3. Served' /\ Quiet'
    BY <2>2 DEF PageInv, Served, Quiet
  <2>4. \A u \in Threads : Unknown(u)'
    BY <2>2 DEF PageInv, Unknown, GivenId
  <2> QED BY <2>1, <2>2, <2>3, <2>4 DEF ChatInv, PageInv
<1>2. ASSUME NEW t \in Threads, Send(t) \/ SendFirst(t) \/ NewConversation(t) PROVE ChatInv'
  BY <1>2, PageStarts
<1>3. ASSUME NEW t \in Threads, Page(t) PROVE ChatInv'
  BY <1>3, PageHears
<1>4. ASSUME NEW p \in Threads, Serve(p) PROVE ChatInv'
  <2>1. StoreInv /\ Handler(p)
    BY <1>4 DEF ChatInv, Serve
  <2>2. StoreInv'
    BY <2>1, RepliesNext, BeginTurnNext, ModelNext, EndNext DEF Handler, Store
  <2>3. PageInv'
    BY <1>4, CreateServed, ChatServed
  <2> QED BY <2>2, <2>3 DEF ChatInv
<1>5. CASE OtherCreates
  BY <1>5, OthersKeep
<1>6. CASE GatewayRestart
  <2>1. StoreInv' /\ Held' = {}
    BY <1>6, RestartNext DEF ChatInv, GatewayRestart, Restart, Held
  <2>2. /\ pc' = [t \in Threads |-> "idle"] /\ task' = [t \in Threads |-> "none"]
        /\ activeId' = activeId /\ activeId \in Ids \cup {NoId}
    BY <1>6 DEF GatewayRestart, Restart, ChatInv, PageInv
  <2>3. PageInv'
    BY <2>1, <2>2 DEF PageInv, Served, Unknown, GivenId, Quiet, Waits
  <2> QED BY <2>1, <2>3 DEF ChatInv
<1> QED BY <1>1, <1>2, <1>3, <1>4, <1>5, <1>6 DEF ChatNext

\* If the ids suffice for one to be drawn afresh, the message after a new
\* conversation that was announced with no answer outstanding goes to an empty
\* one, whatever else the page, other clients, evictions and restarts did since
\* (createDirectConversation and sendWorkbenchDirectChat of app.js).
THEOREM QuietNewStartsEmptyTheorem ==
  ASSUME EnoughIds
  PROVE  ChatSpec => []QuietNewStartsEmpty
<1>1. ChatInv => QuietNewStartsEmpty
  BY DEF ChatInv, PageInv, Quiet, QuietNewStartsEmpty
<1>2. ChatInv /\ [ChatNext]_chatVars => ChatInv'
  BY ChatNextInv
<1> QED BY <1>1, <1>2, ChatInitInv, PTL DEF ChatSpec

=============================================================================
