---------------------------- MODULE AgentToolProofs ----------------------------
(***************************************************************************)
(* Proofs about the agent tool's answer, for every set of entries and      *)
(* kinds of failure, every interval and any number of polls.  HistoryInv   *)
(* ties a listed value to the entry it was made of, to when that was taken *)
(* and to the poll that made it; it is inductive beside RangeOK.           *)
(***************************************************************************)
EXTENDS AgentTool, FiniteSetTheorems, FunctionTheorems, WellFoundedInduction, TLAPS

-----------------------------------------------------------------------------
(***************************************************************************)
(* The order in which a loop takes positions.                              *)
(***************************************************************************)
(* A set of natural numbers that is not empty has a least one. *)
LEMMA LeastNumber ==
    ASSUME NEW T \in SUBSET Nat, T # {}
    PROVE  \E m \in T : \A n \in T : m <= n
  <1> DEFINE upto == {1..n : n \in T}
             R == StrictSubsetOrdering(Nat)
  <1>1. IsWellFoundedOn(R, FiniteSubsetsOf(Nat))
    BY FS_StrictSubsetOrderingWellFounded
  <1>2. upto \subseteq FiniteSubsetsOf(Nat)
    <2> SUFFICES ASSUME NEW n \in T PROVE 1..n \in FiniteSubsetsOf(Nat)
      OBVIOUS
    <2>1. 1 \in Int /\ n \in Int /\ 1..n \subseteq Nat
      OBVIOUS
    <2>2. IsFiniteSet(1..n)
      BY <2>1, FS_Interval
    <2> QED BY <2>1, <2>2 DEF FiniteSubsetsOf
  <1>3. upto # {}
    OBVIOUS
  <1>4. \E x \in upto : \A y \in upto : ~ (<<y, x>> \in R)
    <2> HIDE DEF upto, R
    <2> QED BY <1>1, <1>2, <1>3, WFMin
  <1>5. PICK m \in T : \A n \in T : <<1..n, 1..m>> \notin R
    BY <1>4
  <1>6. ASSUME NEW n \in T, n < m PROVE FALSE
    <2>1. 1..n \subseteq 1..m /\ 1..n # 1..m
      <3>1. m \in 1..m /\ m \notin 1..n
        BY <1>6
      <3> QED BY <1>6, <3>1
    <2>2. <<1..n, 1..m>> \in R
      BY <2>1 DEF StrictSubsetOrdering
    <2> QED BY <1>5, <2>2
  <1>7. \A n \in T : m <= n
    BY <1>6
  <1> QED BY <1>7

(* The number of positions up to n, which Ordered sorts by. *)
Rank(at, n) == Cardinality({m \in at : m <= n})

LEMMA RankGrows ==
    ASSUME NEW at \in SUBSET Int, IsFiniteSet(at), NEW n \in at
    PROVE  /\ Rank(at, n) \in 1..Cardinality(at)
           /\ \A k \in at : n < k => Rank(at, n) < Rank(at, k)
  <1> DEFINE upto(k) == {m \in at : m <= k}
  <1>1. \A k \in at : /\ IsFiniteSet(upto(k))
                      /\ Cardinality(upto(k)) \in Nat
                      /\ Cardinality(upto(k)) <= Cardinality(at)
    <2> TAKE k \in at
    <2>1. upto(k) \in SUBSET at
      OBVIOUS
    <2> QED BY <2>1, FS_Subset, FS_CardinalityType
  <1>2. Cardinality(at) \in Nat
    BY FS_CardinalityType
  <1>3. upto(n) # {}
    OBVIOUS
  <1>4. Cardinality(upto(n)) # 0
    BY <1>1, <1>3, FS_EmptySet
  <1>5. ASSUME NEW k \in at, n < k
        PROVE  Cardinality(upto(n)) < Cardinality(upto(k))
    <2>1. \A m \in at : m <= n => m <= k
      BY <1>5
    <2>2. k \in upto(k) /\ k \notin upto(n)
      BY <1>5
    <2>3. Cardinality(upto(n)) <= Cardinality(upto(k)) /\ Cardinality(upto(n)) # Cardinality(upto(k))
      <3>1. upto(n) \in SUBSET upto(k)
        BY <2>1
      <3> QED BY <1>1, <2>2, <3>1, FS_Subset
    <2> QED BY <1>1, <2>3
  <1> QED BY <1>1, <1>2, <1>4, <1>5 DEF Rank

LEMMA OrderedLists ==
    ASSUME NEW at \in SUBSET Int, IsFiniteSet(at)
    PROVE  /\ Cardinality(at) \in Nat
           /\ \A i \in 1..Cardinality(at) : Ordered(at)[i] \in at
           /\ \A i, j \in 1..Cardinality(at) : i < j => Ordered(at)[i] < Ordered(at)[j]
           /\ \A n \in at : \E i \in 1..Cardinality(at) : Ordered(at)[i] = n
  <1> DEFINE N == Cardinality(at)
             rank == [n \in at |-> Rank(at, n)]
  <1>1. N \in Nat
    BY FS_CardinalityType
  <1>2. rank \in [at -> 1..N]
    BY RankGrows
  <1>3. \A n, k \in at : rank[n] = rank[k] => n = k
    <2> SUFFICES ASSUME NEW n \in at, NEW k \in at, n # k PROVE rank[n] # rank[k]
      OBVIOUS
    <2>1. n < k \/ k < n
      OBVIOUS
    <2> QED BY <2>1, <1>2, RankGrows
  <1>4. rank \in Injection(at, 1..N)
    BY <1>2, <1>3, Fun_IsInj
  <1>5. IsFiniteSet(1..N) /\ Cardinality(1..N) = N
    BY <1>1, FS_Interval
  <1>6. rank \in Surjection(at, 1..N)
    <2> HIDE DEF rank, N
    <2> QED BY <1>4, <1>5, FS_Injection DEF N
  <1>7. \A i \in 1..N : \E n \in at : Rank(at, n) = i
    BY <1>6 DEF Surjection
  <1>8. \A i \in 1..N : Ordered(at)[i] \in at /\ Rank(at, Ordered(at)[i]) = i
    BY <1>7 DEF Ordered, Rank
  <1>9. ASSUME NEW i \in 1..N, NEW j \in 1..N, i < j
        PROVE  Ordered(at)[i] < Ordered(at)[j]
    <2>1. PICK n, k \in at : /\ n = Ordered(at)[i] /\ Rank(at, n) = i
                             /\ k = Ordered(at)[j] /\ Rank(at, k) = j
      BY <1>8
    <2>2. ~(Rank(at, k) < Rank(at, n)) /\ Rank(at, n) # Rank(at, k)
      BY <1>1, <1>9, <2>1
    <2>3. ~(k < n) /\ n # k
      BY <2>2, RankGrows
    <2> QED BY <2>1, <2>3
  <1>10. ASSUME NEW n \in at PROVE \E i \in 1..N : Ordered(at)[i] = n
    <2>1. rank[n] \in 1..N
      BY <1>2
    <2>2. Ordered(at)[rank[n]] \in at /\ rank[Ordered(at)[rank[n]]] = rank[n]
      BY <1>8, <2>1
    <2> QED BY <1>3, <2>1, <2>2
  <1> QED BY <1>1, <1>8, <1>9, <1>10


LEMMA SlotSourcesList ==
    ASSUME NEW e
    PROVE  LET n == Cardinality(SlotsAt(e))
               xs == SlotSources(e)
           IN /\ n \in Nat
              /\ xs = [i \in 1..n |-> xs[i]]
              /\ \A i \in 1..n : \E s \in SlotsAt(e) : xs[i] = Slot(s)
              /\ \A i, j \in 1..n : xs[i] = xs[j] => i = j
              /\ \A s \in SlotsAt(e) : \E i \in 1..n : xs[i] = Slot(s)
  <1>1. SlotsAt(e) \in SUBSET Int /\ IsFiniteSet(SlotsAt(e))
    <2>1. SlotsAt(e) \in SUBSET (1..3)
      BY DEF SlotsAt
    <2>2. 1 \in Int /\ 3 \in Int
      OBVIOUS
    <2>3. IsFiniteSet(1..3)
      BY <2>2, FS_Interval, Zenon
    <2>4. SlotsAt(e) \subseteq Int
      BY <2>1
    <2> QED BY <2>1, <2>3, <2>4, FS_Subset
  <1> QED BY <1>1, OrderedLists DEF SlotSources, Slot

LEMMA ExtraSourcesList ==
    ASSUME NEW provider, NEW e \in EntryType
    PROVE  LET n == Cardinality(ExtrasAt(provider, e))
               xs == ExtraSources(provider, e)
           IN /\ n \in Nat
              /\ xs = [i \in 1..n |-> xs[i]]
              /\ \A i \in 1..n : \E k \in ExtrasAt(provider, e) : xs[i] = Extra(k)
              /\ \A i, j \in 1..n : xs[i] = xs[j] => i = j
              /\ \A k \in ExtrasAt(provider, e) : \E i \in 1..n : xs[i] = Extra(k)
  <1>1. /\ ExtrasAt(provider, e) \in SUBSET Int
        /\ IsFiniteSet(ExtrasAt(provider, e))
    <2>1. Len(e.extras) \in Nat
      BY DEF EntryType
    <2>2. ExtrasAt(provider, e) \in SUBSET (1..Len(e.extras))
      BY DEF ExtrasAt
    <2>3. IsFiniteSet(1..Len(e.extras))
      BY <2>1, FS_Interval
    <2> QED BY <2>1, <2>2, <2>3, FS_Subset
  <1> QED BY <1>1, OrderedLists DEF ExtraSources, Extra

(* Where the windows that are listed are in the entry. *)
Positions(provider, e) ==
    {Slot(s) : s \in SlotsAt(e)} \union {Extra(k) : k \in ExtrasAt(provider, e)}

LEMMA SourcesList ==
    ASSUME NEW provider, NEW e \in EntryType
    PROVE  LET xs == Sources(provider, e) IN
             /\ Len(xs) \in Nat
             /\ \A i \in 1..Len(xs) : xs[i] \in Positions(provider, e)
             /\ \A i, j \in 1..Len(xs) : xs[i] = xs[j] => i = j
             /\ \A x \in Positions(provider, e) : \E i \in 1..Len(xs) : xs[i] = x
  <1> DEFINE m == Cardinality(SlotsAt(e))
             n == Cardinality(ExtrasAt(provider, e))
             ss == SlotSources(e)
             es == ExtraSources(provider, e)
             xs == Sources(provider, e)
  <1>1. m \in Nat /\ n \in Nat
    BY SlotSourcesList, ExtraSourcesList
  <1>2. ss = [i \in 1..m |-> ss[i]] /\ es = [i \in 1..n |-> es[i]]
    BY SlotSourcesList, ExtraSourcesList
  <1>3. \A i \in 1..m : \E s \in SlotsAt(e) : ss[i] = Slot(s)
    BY SlotSourcesList
  <1>4. \A i \in 1..n : \E k \in ExtrasAt(provider, e) : es[i] = Extra(k)
    BY ExtraSourcesList
  <1>5. /\ \A i, j \in 1..m : ss[i] = ss[j] => i = j
        /\ \A i, j \in 1..n : es[i] = es[j] => i = j
    BY SlotSourcesList, ExtraSourcesList
  <1>6. /\ \A s \in SlotsAt(e) : \E i \in 1..m : ss[i] = Slot(s)
        /\ \A k \in ExtrasAt(provider, e) : \E i \in 1..n : es[i] = Extra(k)
    BY SlotSourcesList, ExtraSourcesList
  <1>7. /\ Len(xs) = m + n
        /\ \A i \in 1..m : xs[i] = ss[i]
        /\ \A i \in m + 1..m + n : xs[i] = es[i - m]
    <2> HIDE DEF m, n, ss, es
    <2>1. xs = ss \o es
      BY DEF Sources, ss, es
    <2>2. ss \in Seq({ss[i] : i \in 1..m}) /\ Len(ss) = m
      BY <1>1, <1>2
    <2>3. es \in Seq({es[i] : i \in 1..n}) /\ Len(es) = n
      BY <1>1, <1>2
    <2> QED BY <1>1, <2>1, <2>2, <2>3
  <1> HIDE DEF m, n, ss, es, xs
  <1>8. \A i \in 1..m + n : i \in 1..m \/ (i \in m + 1..m + n /\ i - m \in 1..n)
    BY <1>1
  <1>9. \A i \in 1..n : \E j \in m + 1..m + n : j \in 1..m + n /\ j - m = i
    <2> TAKE i \in 1..n
    <2>1. i + m \in m + 1..m + n
      BY <1>1
    <2> WITNESS i + m \in m + 1..m + n
    <2> QED BY <1>1
  <1>10. \A i \in 1..m + n : xs[i] \in Positions(provider, e)
    BY <1>3, <1>4, <1>7, <1>8 DEF Positions
  <1>11. \A x \in Positions(provider, e) : \E i \in 1..m + n : xs[i] = x
    <2> SUFFICES ASSUME NEW x \in Positions(provider, e)
                 PROVE  \E i \in 1..m + n : xs[i] = x
      OBVIOUS
    <2>1. CASE \E s \in SlotsAt(e) : x = Slot(s)
      BY <1>1, <1>6, <1>7, <2>1
    <2>2. CASE \E k \in ExtrasAt(provider, e) : x = Extra(k)
      <3>1. PICK i \in 1..n : es[i] = x
        BY <1>6, <2>2
      <3>2. PICK j \in m + 1..m + n : j \in 1..m + n /\ j - m = i
        BY <1>9
      <3>3. xs[j] = es[j - m]
        BY <1>7
      <3> QED BY <3>1, <3>2, <3>3
    <2> QED BY <2>1, <2>2 DEF Positions
  <1>12. \A s \in SlotsAt(e), k \in ExtrasAt(provider, e) : Slot(s) # Extra(k)
    BY DEF SlotsAt, Slot, Extra
  <1>13. ASSUME NEW i \in 1..m + n, NEW j \in 1..m + n, xs[i] = xs[j]
         PROVE  i = j
    <2>1. CASE i \in 1..m /\ j \in 1..m
      BY <1>5, <1>7, <1>13, <2>1
    <2>2. CASE i \in 1..m /\ j \notin 1..m
      BY <1>3, <1>4, <1>7, <1>8, <1>12, <1>13, <2>2
    <2>3. CASE i \notin 1..m /\ j \in 1..m
      BY <1>3, <1>4, <1>7, <1>8, <1>12, <1>13, <2>3
    <2>4. CASE i \notin 1..m /\ j \notin 1..m
      <3>1. i - m \in 1..n /\ j - m \in 1..n /\ es[i - m] = es[j - m]
        BY <1>7, <1>8, <1>13, <2>4
      <3>2. i - m = j - m
        BY <1>5, <3>1
      <3> QED BY <1>1, <3>2
    <2> QED BY <2>1, <2>2, <2>3, <2>4
  <1> QED BY <1>1, <1>7, <1>10, <1>11, <1>13 DEF xs

(* A window of an entry has numbers, or nothing, in its fields. *)
LEMMA SourceTyped ==
    ASSUME NEW provider, NEW e \in EntryType, NEW x \in Positions(provider, e)
    PROVE  /\ Source(e, x).used \in Int
           /\ Source(e, x).reset \in Int \union {None}
           /\ Source(e, x).minutes \in Int
  <1> DEFINE wire == IF x.slot # 0 THEN e.slots[x.slot] ELSE e.extras[x.extra].window
  <1>1. wire \in WindowType
    <2>1. CASE \E s \in SlotsAt(e) : x = Slot(s)
      BY <2>1 DEF SlotsAt, Slot, EntryType
    <2>2. CASE \E k \in ExtrasAt(provider, e) : x = Extra(k)
      <3>1. PICK k \in ExtrasAt(provider, e) : x = Extra(k)
        BY <2>2
      <3>2. k \in 1..Len(e.extras) /\ e.extras[k].window # None
        BY DEF ExtrasAt
      <3> DEFINE Extras == [id : Ids \union {None}, window : WindowType \union {None}]
      <3>3. e.extras \in Seq(Extras)
        BY DEF EntryType
      <3>4. e.extras[k] \in Extras
        <4> HIDE DEF Extras
        <4> QED BY <3>2, <3>3
      <3>5. e.extras[k].window \in WindowType
        BY <3>2, <3>4
      <3> QED BY <3>1, <3>5 DEF Extra
    <2> QED BY <2>1, <2>2 DEF Positions
  <1>2. Source(e, x) = Decoded(wire)
    BY DEF Source
  <1> HIDE DEF wire
  <1> QED BY <1>1, <1>2 DEF Decoded, Filled, WindowType, FieldsType

(* The list of windows, field by field. *)
LEMMA UsageWindowsAre ==
    ASSUME NEW provider, NEW e \in EntryType, NEW t
    PROVE  LET xs == Sources(provider, e)
               u == Usage(provider, e, t)
           IN /\ DOMAIN u.windows = 1..Len(xs)
              /\ \A i \in 1..Len(xs) :
                   /\ u.windows[i].from = Window(e, xs[i]).from
                   /\ u.windows[i].used = Source(e, xs[i]).used
                   /\ u.windows[i].reset = Source(e, xs[i]).reset
                   /\ u.windows[i].scoped = (xs[i].extra # 0)
                   /\ u.windows[i].pace =
                        IF provider = "codex"
                        THEN CodexPace(e, xs[i], Source(e, xs[i]).reset, FetchedAt(e, t), t)
                        ELSE None
  <1> DEFINE xs == Sources(provider, e)
             n == Len(xs)
             ws == Windows(provider, e)
             paces == WindowPaces(provider, e, ws, t)
  <1>1. n \in Nat
    BY SourcesList
  <1>2. ws = [i \in 1..n |-> Window(e, xs[i])]
    BY DEF Windows
  <1>3. Len(ws) = n
    <2> HIDE DEF xs, n, ws
    <2> QED BY <1>1, <1>2
  <1>4. PacedSources(e) = Sources("codex", e)
    BY DEF PacedSources, Sources
  <1>5. \A i \in 1..n : paces[i] =
          IF provider = "codex"
          THEN CodexPace(e, xs[i], ws[i].reset, FetchedAt(e, t), t) ELSE None
    <2> HIDE DEF ws
    <2> QED BY <1>1, <1>3, <1>4 DEF WindowPaces
  <1>6. Usage(provider, e, t).windows = [i \in 1..n |-> [ws[i] EXCEPT !.pace = paces[i]]]
    <2> HIDE DEF n, paces
    <2> QED BY <1>3 DEF Usage, ws, paces
  <1>7. \A i \in 1..n : ws[i] = Window(e, xs[i])
    BY <1>2
  <1> DEFINE u == Usage(provider, e, t)
  <1>8. DOMAIN u.windows = 1..n
    BY <1>6
  <1>9. ASSUME NEW i \in 1..n
        PROVE  /\ u.windows[i].from = Window(e, xs[i]).from
               /\ u.windows[i].used = Source(e, xs[i]).used
               /\ u.windows[i].reset = Source(e, xs[i]).reset
               /\ u.windows[i].scoped = (xs[i].extra # 0)
               /\ u.windows[i].pace =
                    IF provider = "codex"
                    THEN CodexPace(e, xs[i], Source(e, xs[i]).reset, FetchedAt(e, t), t)
                    ELSE None
    <2> HIDE DEF ws, paces, n, u
    <2>1. u.windows[i] = [ws[i] EXCEPT !.pace = paces[i]]
      BY <1>6 DEF u
    <2>2. ws[i] = Window(e, xs[i])
      BY <1>7
    <2>3. u.windows[i] = [Window(e, xs[i]) EXCEPT !.pace = paces[i]]
      BY <2>1, <2>2
    <2>4. Window(e, xs[i]).reset = Source(e, xs[i]).reset
      BY DEF Window
    <2>5. u.windows[i].pace = paces[i]
      BY <2>3 DEF Window
    <2> HIDE DEF xs
    <2> QED BY <1>5, <2>2, <2>3, <2>4, <2>5 DEF Window
  <1> QED BY <1>8, <1>9

(* Codex's side paces are those of its slots, wherever these are listed. *)
LEMMA CodexSidesAre ==
    ASSUME NEW e \in EntryType, NEW t, NEW s \in 1..2, e.slots[s] # None
    PROVE  Usage("codex", e, t).sides[s] =
             CodexPace(e, Slot(s), Source(e, Slot(s)).reset, FetchedAt(e, t), t)
  <1> DEFINE xs == Sources("codex", e)
             n == Len(xs)
             ws == Windows("codex", e)
             c == CHOOSE i \in 1..Len(ws) : PacedSources(e)[i] = Slot(s)
  <1>1. n \in Nat
    BY SourcesList
  <1>2. ws = [i \in 1..n |-> Window(e, xs[i])]
    BY DEF Windows
  <1>3. Len(ws) = n
    <2> HIDE DEF xs, n, ws
    <2> QED BY <1>1, <1>2
  <1>4. PacedSources(e) = xs
    BY DEF PacedSources, Sources
  <1>5. Slot(s) \in Positions("codex", e)
    BY DEF Positions, SlotsAt
  <1>6. \E i \in 1..n : xs[i] = Slot(s)
    BY <1>5, SourcesList
  <1>7. c \in 1..n /\ xs[c] = Slot(s)
    <2> HIDE DEF ws, xs, n
    <2> QED BY <1>3, <1>4, <1>6
  <1>8. ws[c].reset = Source(e, Slot(s)).reset
    <2> HIDE DEF c, n, xs, ws
    <2> QED BY <1>2, <1>7 DEF Window
  <1>9. Usage("codex", e, t).sides[s] =
          CodexPace(e, Slot(s), ws[c].reset, FetchedAt(e, t), t)
    BY DEF Usage, SidePaces
  <1> QED BY <1>8, <1>9

-----------------------------------------------------------------------------
(* What a record says of availability is one of the values that are declared. *)
LEMMA RecordAvailability ==
    ASSUME NEW p \in Reported
    PROVE  Record(p).availability \in
             {"available", "quota_exhausted", "telemetry_stale", "not_configured",
              "unsupported", "provider_unavailable", "unknown"}
  <1>1. CASE Listed(p)
    <2>1. Record(p).availability = Availability(p)
      BY <1>1 DEF Record
    <2> QED BY <2>1 DEF Availability
  <1>2. CASE ~Listed(p)
    <2>1. Record(p).availability = State(failed[p])
      BY <1>2 DEF Record
    <2> QED BY <2>1 DEF State
  <1> QED BY <1>1, <1>2

LEMMA InitTool == Init => ToolInv
  <1> SUFFICES ASSUME Init PROVE ToolInv
    OBVIOUS
  <1>1. RangeOK
    <2>1. 0 \in 0..MaxTime
      BY ToolAssumption
    <2>2. \A p \in Providers : entry[p] = None
      BY DEF Init, Nothing
    <2>3. failed \in [Providers -> Kinds \union {"provider_unavailable", None}]
      BY DEF Init, Nothing
    <2> QED BY <2>1, <2>2, <2>3 DEF Init, RangeOK
  <1>2. HistoryInv
    BY DEF Init, HistoryInv, Listed
  <1> QED BY <1>1, <1>2 DEF ToolInv

LEMMA TickTool == ToolInv /\ Tick => ToolInv'
  <1> SUFFICES ASSUME ToolInv, Tick PROVE ToolInv'
    OBVIOUS
  <1>1. RangeOK
    BY DEF ToolInv
  <1>2. now' = now + 1 /\ now \in Nat
    BY <1>1, ToolAssumption DEF Tick, RangeOK
  <1>3. RangeOK'
    BY <1>1, <1>2, ToolAssumption DEF Tick, RangeOK, snapshot, history
  <1>4. HistoryInv'
    BY <1>1, <1>2
       DEF ToolInv, RangeOK, HistoryInv, Tick, Listed, snapshot, history
  <1> QED BY <1>3, <1>4 DEF ToolInv

LEMMA PollTool == ToolInv /\ Poll => ToolInv'
  <1> SUFFICES ASSUME ToolInv, Poll PROVE ToolInv'
    OBVIOUS
  <1>1. RangeOK /\ HistoryInv
    BY DEF ToolInv
  <1>2. now' = now /\ now \in Nat /\ now \in 0..MaxTime /\ published' = TRUE
    BY <1>1, ToolAssumption DEF Poll, RangeOK
  <1>3. PICK outcome \in Reports :
          /\ usage' = [p \in Providers |->
                         IF outcome[p].entry # None THEN Made(p, outcome[p].entry, now)
                         ELSE IF outcome[p].failure # None THEN Kept(p) ELSE None]
          /\ failed' = [p \in Providers |-> outcome[p].failure]
          /\ entry' = [p \in Providers |->
                         IF outcome[p].entry # None THEN outcome[p].entry
                         ELSE IF usage'[p] # None THEN entry[p] ELSE None]
          /\ taken' = [p \in Providers |->
                         IF outcome[p].entry # None THEN now
                         ELSE IF usage'[p] # None THEN taken[p] ELSE 0]
          /\ fresh' = {p \in Providers : outcome[p].entry # None}
          /\ ~installed' => \A p \in Cli : outcome[p] =
               [entry |-> None,
                failure |-> IF Kept(p) # None THEN "provider_unavailable" ELSE None]
    BY DEF Poll
  <1>4. \A p \in Providers :
          /\ outcome[p].entry \in Entries[p] \union {None}
          /\ outcome[p].failure \in Kinds \union {None}
    BY DEF Reports, Outcomes, Providers, Cli
  <1>5. ASSUME NEW p \in Providers, outcome[p].entry # None
        PROVE  /\ entry'[p] = outcome[p].entry
               /\ taken'[p] = now
               /\ usage'[p] = Made(p, entry'[p], taken'[p])
               /\ p \in fresh'
    BY <1>3, <1>5
  <1>6. ASSUME NEW p \in Providers, outcome[p].entry = None, usage'[p] # None
        PROVE  /\ failed'[p] # None
               /\ Listed(p)
               /\ usage'[p] = usage[p]
               /\ entry'[p] = entry[p]
               /\ taken'[p] = taken[p]
    BY <1>3, <1>6 DEF Kept, Listed
  <1>7. RangeOK'
    <2>2. (failed \in [Providers -> Kinds \union {"provider_unavailable", None}])'
      BY <1>3, <1>4
    <2>3. \A p \in Providers : (entry[p] \in Entries[p] \union {None})'
      BY <1>1, <1>3, <1>4 DEF RangeOK
    <2>4. (taken \in [Providers -> 0..MaxTime])'
      BY <1>1, <1>2, <1>3, ToolAssumption DEF RangeOK
    <2>5. fresh' \subseteq Providers /\ installed' \in BOOLEAN
      BY <1>3 DEF Poll
    <2> QED BY <1>2, <2>2, <2>3, <2>4, <2>5 DEF RangeOK
  <1>8. HistoryInv'
    <2> SUFFICES ASSUME NEW p \in Providers, Listed(p)'
                 PROVE  /\ entry'[p] # None
                        /\ taken'[p] <= now'
                        /\ usage'[p] = Made(p, entry'[p], taken'[p])
                        /\ failed'[p] = None => p \in fresh'
      BY DEF HistoryInv
    <2>1. CASE outcome[p].entry # None
      BY <1>2, <1>5, <2>1
    <2>2. CASE outcome[p].entry = None
      <3>1. usage'[p] # None
        BY DEF Listed
      <3> QED BY <1>1, <1>2, <1>6, <2>2, <3>1 DEF HistoryInv
    <2> QED BY <2>1, <2>2
  <1> QED BY <1>7, <1>8 DEF ToolInv

LEMMA DropTool == ToolInv /\ Drop => ToolInv'
  <1> SUFFICES ASSUME ToolInv, Drop PROVE ToolInv'
    OBVIOUS
  <1>1. RangeOK
    BY DEF ToolInv
  <1>2. RangeOK'
    <2>1. 0 \in 0..MaxTime
      BY ToolAssumption
    <2>2. \A p \in Providers : entry'[p] = None
      BY DEF Drop, Nothing
    <2>3. failed' \in [Providers -> Kinds \union {"provider_unavailable", None}]
      BY DEF Drop, Nothing
    <2> QED BY <1>1, <2>1, <2>2, <2>3 DEF Drop, RangeOK
  <1>3. HistoryInv'
    BY DEF Drop, HistoryInv, Listed
  <1> QED BY <1>2, <1>3 DEF ToolInv

LEMMA StepTool == ToolInv /\ [Next]_vars => ToolInv'
  <1> SUFFICES ASSUME ToolInv, [Next]_vars PROVE ToolInv'
    OBVIOUS
  <1>1. CASE UNCHANGED vars
    <2>1. RangeOK'
      BY <1>1 DEF ToolInv, RangeOK, vars, snapshot, history
    <2>2. HistoryInv'
      BY <1>1 DEF ToolInv, HistoryInv, Listed, vars, snapshot, history
    <2> QED BY <2>1, <2>2 DEF ToolInv
  <1> QED BY <1>1, TickTool, PollTool, DropTool DEF Next

(* What is listed of a provider that CodexBar reports. *)
LEMMA ListedUsage ==
    ASSUME ToolInv, NEW p \in Cli, Listed(p)
    PROVE  /\ entry[p] \in EntryType
           /\ usage[p] = Usage(p, entry[p], taken[p])
           /\ taken[p] \in Nat /\ taken[p] <= now /\ now \in Nat
  <1>1. p \in Providers /\ p # "augment"
    BY DEF Providers, Cli
  <1>2. entry[p] \in Entries[p]
    BY <1>1 DEF ToolInv, RangeOK, HistoryInv
  <1>3. usage[p] = Made(p, entry[p], taken[p])
    BY <1>1 DEF ToolInv, HistoryInv
  <1> QED BY <1>1, <1>2, <1>3, ToolAssumption DEF ToolInv, RangeOK, HistoryInv, Made

(* A value is dated by its entry, Augment's by the poll. *)
LEMMA ListedFetched ==
    ASSUME ToolInv, NEW p \in Providers, Listed(p)
    PROVE  /\ usage[p].fetched = IF p \in Cli THEN FetchedAt(entry[p], taken[p]) ELSE taken[p]
           /\ usage[p].fetched \in Int
  <1>1. taken[p] \in Int
    BY ToolAssumption DEF ToolInv, RangeOK
  <1>2. CASE p \in Cli
    <2>1. usage[p] = Usage(p, entry[p], taken[p])
      BY <1>2, ListedUsage
    <2>2. usage[p].fetched = FetchedAt(entry[p], taken[p])
      BY <2>1 DEF Usage
    <2>3. entry[p].updated \in Int \union {None}
      BY <1>2, ListedUsage DEF EntryType
    <2> QED BY <1>1, <1>2, <2>2, <2>3 DEF FetchedAt
  <1>3. CASE p \notin Cli
    <2>1. usage[p] = Analytics(entry[p], taken[p])
      BY <1>3 DEF ToolInv, HistoryInv, Made, Providers
    <2> QED BY <1>1, <1>3, <2>1 DEF Analytics
  <1> QED BY <1>2, <1>3

(* A value that is not called stale was taken within two intervals. *)
LEMMA RecentFromHistory == ToolInv => FreshIsRecent
  <1> SUFFICES ASSUME ToolInv, NEW p \in Reported, Listed(p), ~Record(p).stale,
                      p \in Cli => FetchedAt(entry[p], taken[p]) <= taken[p]
               PROVE  now - taken[p] < 2 * Interval
    BY DEF FreshIsRecent
  <1>1. RangeOK /\ HistoryInv
    BY DEF ToolInv
  <1>2. p \in Providers /\ usage[p] # None
    BY DEF Reported, Listed
  <1>3. now \in Int /\ taken[p] \in Int /\ taken[p] <= now
    BY <1>1, <1>2, ToolAssumption DEF RangeOK, HistoryInv
  <1>4. usage[p].fetched \in Int /\ usage[p].fetched <= taken[p]
    BY <1>1, <1>2, <1>3, ListedFetched
  <1>5. ~Stale(p)
    BY DEF Record
  <1>6. Age(p) < 2 * Interval /\ Interval \in Nat /\ Interval > 0
    BY <1>3, <1>4, <1>5, ToolAssumption DEF Stale, Age
  <1> QED BY <1>3, <1>4, <1>6 DEF Age

(* A listed window: where it is in the entry, and what it has from there. *)
LEMMA ListedWindow ==
    ASSUME ToolInv, NEW p \in Cli, Listed(p)
    PROVE  LET xs == Sources(p, entry[p])
               ws == usage[p].windows
           IN /\ DOMAIN ws = 1..Len(xs)
              /\ \A i \in 1..Len(xs) :
                   /\ xs[i] \in Positions(p, entry[p])
                   /\ ws[i].from = Window(entry[p], xs[i]).from
                   /\ ws[i].used = Source(entry[p], xs[i]).used
                   /\ ws[i].used \in Int
                   /\ ws[i].reset = Source(entry[p], xs[i]).reset
                   /\ ws[i].reset \in Int \union {None}
                   /\ ws[i].scoped = (xs[i].extra # 0)
                   /\ ws[i].pace =
                        IF p = "codex"
                        THEN CodexPace(entry[p], xs[i], Source(entry[p], xs[i]).reset,
                                       FetchedAt(entry[p], taken[p]), taken[p])
                        ELSE None
  <1> DEFINE e == entry[p]
             xs == Sources(p, e)
  <1>1. e \in EntryType /\ usage[p] = Usage(p, e, taken[p])
    BY ListedUsage
  <1> HIDE DEF e
  <1>2. \A i \in 1..Len(xs) : xs[i] \in Positions(p, e)
    BY <1>1, SourcesList
  <1>3. \A x \in Positions(p, e) :
          Source(e, x).used \in Int /\ Source(e, x).reset \in Int \union {None}
    BY <1>1, SourceTyped
  <1> QED BY <1>1, <1>2, <1>3, UsageWindowsAre DEF e

(* The name that the window at a position of an entry is given. *)
NameOf(e, x) ==
    IF x.extra = 0 THEN <<"window", x.slot>>
    ELSE IF e.extras[x.extra].id # None THEN <<"extra-id", e.extras[x.extra].id>>
    ELSE <<"extra-slot", x.extra>>

LEMMA RecordWindows ==
    ASSUME ToolInv, NEW p \in Cli, Listed(p)
    PROVE  LET xs == Sources(p, entry[p])
               rs == Record(p).windows
           IN /\ DOMAIN rs = 1..Len(xs)
              /\ \A i \in 1..Len(xs) :
                   /\ rs[i].id = NameOf(entry[p], xs[i])
                   /\ rs[i].state = WindowState(p, i)
                   /\ rs[i].used = Bounded(Source(entry[p], xs[i]).used)
  <1> DEFINE e == entry[p]
             xs == Sources(p, e)
             ws == usage[p].windows
             rs == Record(p).windows
  <1>1. /\ DOMAIN ws = 1..Len(xs)
        /\ \A i \in 1..Len(xs) :
             /\ xs[i] \in Positions(p, e)
             /\ ws[i].from = Window(e, xs[i]).from
             /\ ws[i].used = Source(e, xs[i]).used
             /\ ws[i].scoped = (xs[i].extra # 0)
    BY ListedWindow
  <1>2. rs = [i \in DOMAIN ws |-> [id |-> WindowId(i, ws[i]), state |-> WindowState(p, i),
                                   used |-> Bounded(ws[i].used)]]
    BY DEF Record
  <1> HIDE DEF e, xs, ws, rs
  <1>3. ASSUME NEW i \in 1..Len(xs) PROVE WindowId(i, ws[i]) = NameOf(e, xs[i])
    <2>1. xs[i].slot # 0 \/ xs[i].extra # 0
      <3>1. xs[i] \in Positions(p, e)
        BY <1>1
      <3> QED BY <3>1 DEF Positions, Slot, Extra, SlotsAt, ExtrasAt
    <2>2. ws[i].from = Window(e, xs[i]).from
      BY <1>1
    <2>3. /\ ws[i].from.slot = xs[i].slot
          /\ ws[i].from.at = xs[i].extra
          /\ xs[i].extra # 0 => ws[i].from.id = e.extras[xs[i].extra].id
      BY <2>2 DEF Window
    <2>4. ws[i].scoped = (xs[i].extra # 0)
      BY <1>1
    <2> QED BY <2>1, <2>3, <2>4 DEF WindowId, NameOf
  <1>4. DOMAIN rs = 1..Len(xs)
    BY <1>1, <1>2
  <1>5. \A i \in 1..Len(xs) :
          /\ rs[i].id = NameOf(e, xs[i])
          /\ rs[i].state = WindowState(p, i)
          /\ rs[i].used = Bounded(Source(e, xs[i]).used)
    BY <1>1, <1>2, <1>3
  <1> QED BY <1>4, <1>5 DEF e, xs, rs

(* A value is stale once its date is two intervals past. *)
LEMMA StaleIsOld ==
    ASSUME ToolInv, NEW p \in Cli, Listed(p)
    PROVE  Stale(p) <=> ~Recent(p)
  <1>1. p \in Providers
    BY DEF Providers
  <1>2. /\ usage[p].fetched = FetchedAt(entry[p], taken[p])
        /\ usage[p].fetched \in Int
    BY <1>1, ListedFetched
  <1>3. now \in Nat /\ Interval \in Nat /\ Interval > 0
    BY ListedUsage, ToolAssumption
  <1> QED BY <1>2, <1>3 DEF Stale, Age, Recent

(* The windows that exhaust the quota are those of the entry's spent slots. *)
LEMMA ExhaustingAreSpent ==
    ASSUME ToolInv, NEW p \in Cli, Listed(p), Recent(p)
    PROVE  LET ws == usage[p].windows
           IN /\ \A i \in Exhausting(p) : \E s \in Spent(p) :
                   ws[i].reset = Source(entry[p], Slot(s)).reset
              /\ \A s \in Spent(p) : \E i \in Exhausting(p) :
                   ws[i].reset = Source(entry[p], Slot(s)).reset
  <1> DEFINE e == entry[p]
             xs == Sources(p, e)
             ws == usage[p].windows
  <1>1. Exhausting(p) = {i \in DOMAIN ws : ws[i].used >= 100 /\ ~ws[i].scoped}
    <2>1. ~Stale(p) /\ p # "augment"
      BY StaleIsOld DEF Cli
    <2> QED BY <2>1 DEF Exhausting, Full
  <1>2. /\ DOMAIN ws = 1..Len(xs)
        /\ \A i \in 1..Len(xs) :
             /\ xs[i] \in Positions(p, e)
             /\ ws[i].used = Source(e, xs[i]).used
             /\ ws[i].reset = Source(e, xs[i]).reset
             /\ ws[i].scoped = (xs[i].extra # 0)
    BY ListedWindow
  <1>3. \A x \in Positions(p, e) : \E i \in 1..Len(xs) : xs[i] = x
    BY ListedUsage, SourcesList
  <1>4. \A x \in Positions(p, e) : x.extra = 0 <=> \E s \in SlotsAt(e) : x = Slot(s)
    BY DEF Positions, Slot, Extra, ExtrasAt
  <1>5. \A s \in SlotsAt(e) : Slot(s) \in Positions(p, e) /\ Slot(s).extra = 0
    BY DEF Positions, Slot
  <1>6. Spent(p) = {s \in SlotsAt(e) : Source(e, Slot(s)).used >= 100}
    BY DEF Spent
  <1> HIDE DEF e, xs, ws
  <1>7. ASSUME NEW i \in Exhausting(p)
        PROVE  \E s \in Spent(p) : ws[i].reset = Source(e, Slot(s)).reset
    <2>1. i \in 1..Len(xs) /\ ws[i].used >= 100 /\ xs[i].extra = 0
      BY <1>1, <1>2
    <2>2. PICK s \in SlotsAt(e) : xs[i] = Slot(s)
      BY <1>2, <1>4, <2>1
    <2> QED BY <1>2, <1>6, <2>1, <2>2
  <1>8. ASSUME NEW s \in Spent(p)
        PROVE  \E i \in Exhausting(p) : ws[i].reset = Source(e, Slot(s)).reset
    <2>1. PICK i \in 1..Len(xs) : xs[i] = Slot(s)
      BY <1>3, <1>5, <1>6
    <2> QED BY <1>1, <1>2, <1>5, <1>6, <2>1
  <1> QED BY <1>7, <1>8 DEF e, ws

(* The reset announced is the first to come of the spent slots. *)
LEMMA ReasonIsFirst ==
    ASSUME ToolInv, NEW p \in Cli, Listed(p), Recent(p)
    PROVE  IF ResetsAhead(p) = {} THEN Reason(p) = None
           ELSE /\ Reason(p) \in ResetsAhead(p)
                /\ \A t \in ResetsAhead(p) : Reason(p) <= t
  <1> DEFINE ahead == {t \in Resets(p) : Ahead(t)}
  <1>1. Resets(p) = {Source(entry[p], Slot(s)).reset : s \in Spent(p)} \ {None}
    BY ExhaustingAreSpent DEF Resets
  <1>2. ahead = ResetsAhead(p)
    BY <1>1 DEF ResetsAhead, Ahead
  <1>3. Resets(p) \subseteq Int
    BY ListedWindow DEF Resets, Exhausting, Full
  <1>4. ahead \in SUBSET Nat
    <2>1. now \in Nat
      BY ListedUsage
    <2> QED BY <1>3, <2>1 DEF Ahead
  <1>5. CASE ahead = {}
    BY <1>2, <1>5 DEF Reason
  <1>6. CASE ahead # {}
    <2>1. \E t \in ahead : \A u \in ahead : t <= u
      <3> HIDE DEF ahead
      <3> QED BY <1>4, <1>6, LeastNumber
    <2>2. Reason(p) \in ahead /\ \A u \in ahead : Reason(p) <= u
      BY <1>6, <2>1 DEF Reason
    <2> QED BY <1>2, <1>6, <2>2
  <1> QED BY <1>5, <1>6

(* Nothing is claimed of an older entry, nor of Augment. *)
LEMMA NothingClaimed ==
    ASSUME ToolInv, NEW p \in Providers, Listed(p), p \notin Cli \/ ~Recent(p)
    PROVE  /\ Record(p).availability # "quota_exhausted"
           /\ Record(p).reason = None
           /\ \A i \in DOMAIN Record(p).windows :
                Record(p).windows[i].state # "quota_exhausted"
  <1>1. Stale(p) \/ p = "augment"
    BY StaleIsOld DEF Providers
  <1>2. Exhausting(p) = {}
    BY <1>1 DEF Exhausting
  <1>3. Resets(p) = {}
    BY <1>2 DEF Resets
  <1>4. Availability(p) # "quota_exhausted"
    BY <1>2 DEF Availability
  <1>5. Reason(p) = None
    BY <1>3 DEF Reason
  <1>6. \A i : WindowState(p, i) # "quota_exhausted"
    BY <1>1 DEF WindowState
  <1> QED BY <1>4, <1>5, <1>6 DEF Record

(* A slot's window is said to be exhausted exactly when the slot is spent. *)
LEMMA SpentIsSaid ==
    ASSUME ToolInv, NEW p \in Cli, Listed(p), Recent(p), NEW s \in SlotsAt(entry[p])
    PROVE  \E i \in DOMAIN Record(p).windows :
             /\ Record(p).windows[i].id = <<"window", s>>
             /\ Record(p).windows[i].state = "quota_exhausted" <=> s \in Spent(p)
  <1> DEFINE e == entry[p]
             xs == Sources(p, e)
             ws == usage[p].windows
             rs == Record(p).windows
  <1>1. Slot(s) \in Positions(p, e)
    BY DEF Positions
  <1>2. \A x \in Positions(p, e) : \E i \in 1..Len(xs) : xs[i] = x
    BY ListedUsage, SourcesList
  <1>3. PICK i \in 1..Len(xs) : xs[i] = Slot(s)
    BY <1>1, <1>2
  <1>4. i \in DOMAIN ws /\ ws[i].used = Source(e, Slot(s)).used
    BY <1>3, ListedWindow
  <1>5. /\ i \in DOMAIN rs
        /\ rs[i].id = NameOf(e, Slot(s))
        /\ rs[i].state = WindowState(p, i)
    BY <1>3, RecordWindows
  <1>6. NameOf(e, Slot(s)) = <<"window", s>>
    BY DEF NameOf, Slot
  <1>7. WindowState(p, i) = "quota_exhausted" <=> ws[i].used >= 100
    <2>1. ~Stale(p) /\ p # "augment"
      BY StaleIsOld DEF Cli
    <2> QED BY <1>4, <2>1 DEF WindowState, Full
  <1>8. s \in Spent(p) <=> ws[i].used >= 100
    BY <1>4 DEF Spent
  <1> QED BY <1>5, <1>6, <1>7, <1>8

LEMMA ExhaustionFromHistory == ToolInv => ExhaustionStands
  <1> SUFFICES ASSUME ToolInv PROVE ExhaustionStands
    OBVIOUS
  <1>1. ASSUME NEW p \in Cli, Listed(p), Recent(p)
        PROVE  /\ Record(p).availability = "quota_exhausted" <=> Spent(p) # {}
               /\ IF ResetsAhead(p) = {} THEN Record(p).reason = None
                  ELSE /\ Record(p).reason \in ResetsAhead(p)
                       /\ \A t \in ResetsAhead(p) : Record(p).reason <= t
    <2>1. ~Stale(p)
      BY <1>1, StaleIsOld
    <2>2. Exhausting(p) # {} <=> Spent(p) # {}
      BY <1>1, ExhaustingAreSpent
    <2>3. Record(p).availability = Availability(p) /\ Record(p).reason = Reason(p)
      BY <1>1 DEF Record
    <2>4. Availability(p) = "quota_exhausted" <=> Spent(p) # {}
      BY <2>1, <2>2 DEF Availability
    <2> QED BY <1>1, <2>3, <2>4, ReasonIsFirst
  <1> QED BY <1>1, SpentIsSaid, NothingClaimed DEF ExhaustionStands, Providers

(* A position whose name no other position has is shown under that name. *)
LEMMA NamedIsShown ==
    ASSUME ToolInv, NEW p \in Cli, Listed(p), NEW x \in Positions(p, entry[p]),
           \A y \in Positions(p, entry[p]) :
             NameOf(entry[p], y) = NameOf(entry[p], x) => y = x
    PROVE  Shows(p, NameOf(entry[p], x), x)
  <1> DEFINE e == entry[p]
             xs == Sources(p, e)
             rs == Record(p).windows
  <1>1. e \in EntryType
    BY ListedUsage
  <1>2. /\ DOMAIN rs = 1..Len(xs)
        /\ \A i \in 1..Len(xs) :
             /\ rs[i].id = NameOf(e, xs[i])
             /\ rs[i].used = Bounded(Source(e, xs[i]).used)
    BY RecordWindows
  <1>3. /\ \A i \in 1..Len(xs) : xs[i] \in Positions(p, e)
        /\ \A i, j \in 1..Len(xs) : xs[i] = xs[j] => i = j
        /\ \E i \in 1..Len(xs) : xs[i] = x
    BY <1>1, SourcesList
  <1> HIDE DEF xs, rs
  <1>4. PICK i \in 1..Len(xs) : xs[i] = x
    BY <1>3
  <1>5. rs[i].used = Bounded(Source(e, x).used)
    BY <1>2, <1>4
  <1>6. \A j \in 1..Len(xs) : rs[j].id = NameOf(e, x) <=> j = i
    BY <1>2, <1>3, <1>4
  <1> QED BY <1>2, <1>5, <1>6 DEF Shows, rs

LEMMA NamesFromHistory == ToolInv => NamesStay
  <1> SUFFICES ASSUME ToolInv, NEW p \in Cli, Listed(p)
               PROVE  LET e == entry[p] IN
                 /\ \A s \in 1..3 : e.slots[s] # None => Shows(p, <<"window", s>>, Slot(s))
                 /\ \A k \in ExtrasAt(p, e) :
                      LET x == e.extras[k] IN
                        /\ x.id # None
                        /\ \A l \in ExtrasAt(p, e) : e.extras[l].id = x.id => l = k
                        => Shows(p, <<"extra-id", x.id>>, Extra(k))
    BY DEF NamesStay
  <1> DEFINE e == entry[p]
  <1>1. \A s \in SlotsAt(e) : NameOf(e, Slot(s)) = <<"window", s>>
    BY DEF NameOf, Slot
  <1>2. \A k \in ExtrasAt(p, e) :
          \/ e.extras[k].id # None /\ NameOf(e, Extra(k)) = <<"extra-id", e.extras[k].id>>
          \/ e.extras[k].id = None /\ NameOf(e, Extra(k)) = <<"extra-slot", k>>
    BY DEF NameOf, Extra, ExtrasAt
  <1>3. ASSUME NEW s \in 1..3, e.slots[s] # None
        PROVE  Shows(p, <<"window", s>>, Slot(s))
    <2>1. s \in SlotsAt(e) /\ Slot(s) \in Positions(p, e)
      BY <1>3 DEF SlotsAt, Positions
    <2>2. ASSUME NEW y \in Positions(p, e), NameOf(e, y) = <<"window", s>>
          PROVE  y = Slot(s)
      <3>1. CASE \E t \in SlotsAt(e) : y = Slot(t)
        BY <1>1, <2>2, <3>1
      <3>2. CASE \E k \in ExtrasAt(p, e) : y = Extra(k)
        <4>1. PICK k \in ExtrasAt(p, e) : y = Extra(k)
          BY <3>2
        <4>2. CASE NameOf(e, y) = <<"extra-id", e.extras[k].id>>
          BY <2>2, <4>2
        <4>3. CASE NameOf(e, y) = <<"extra-slot", k>>
          BY <2>2, <4>3
        <4> QED BY <1>2, <4>1, <4>2, <4>3
      <3> QED BY <3>1, <3>2 DEF Positions
    <2> QED BY <1>1, <2>1, <2>2, NamedIsShown
  <1>4. ASSUME NEW k \in ExtrasAt(p, e), e.extras[k].id # None,
               \A l \in ExtrasAt(p, e) : e.extras[l].id = e.extras[k].id => l = k
        PROVE  Shows(p, <<"extra-id", e.extras[k].id>>, Extra(k))
    <2>1. Extra(k) \in Positions(p, e)
      BY DEF Positions
    <2>2. ASSUME NEW y \in Positions(p, e), NameOf(e, y) = <<"extra-id", e.extras[k].id>>
          PROVE  y = Extra(k)
      <3>1. CASE \E t \in SlotsAt(e) : y = Slot(t)
        BY <1>1, <2>2, <3>1
      <3>2. CASE \E l \in ExtrasAt(p, e) : y = Extra(l)
        <4>1. PICK l \in ExtrasAt(p, e) : y = Extra(l)
          BY <3>2
        <4>2. CASE NameOf(e, y) = <<"extra-id", e.extras[l].id>>
          BY <1>4, <2>2, <4>1, <4>2
        <4>3. CASE NameOf(e, y) = <<"extra-slot", l>>
          BY <2>2, <4>3
        <4> QED BY <1>2, <4>1, <4>2, <4>3
      <3> QED BY <3>1, <3>2 DEF Positions
    <2>3. NameOf(e, Extra(k)) = <<"extra-id", e.extras[k].id>>
      BY <1>2, <1>4
    <2> QED BY <2>1, <2>2, <2>3, NamedIsShown
  <1> QED BY <1>3, <1>4

(* A fraction is rounded to the nearest number. *)
LEMMA RoundNearest ==
    ASSUME NEW n \in Int, NEW d \in Nat \ {0}
    PROVE  /\ Round(n, d) \in Int
           /\ 2 * Abs(Round(n, d) * d - n) <= d
           /\ Round(n, d) < 1 => 2 * n < d
  <1> DEFINE r == Round(n, d)
             q == r * d
  <1>1. r \in Int /\ (2 * d) * r <= 2 * n + d /\ 2 * n + d < (2 * d) * (r + 1)
    BY DEF Round
  <1> HIDE DEF r
  <1>2. q \in Int /\ (2 * d) * r = 2 * q /\ (2 * d) * (r + 1) = 2 * q + 2 * d
    BY <1>1
  <1>3. r < 1 => q <= 0
    BY <1>1
  <1> HIDE DEF q
  <1>4. 2 * Abs(q - n) <= d
    BY <1>1, <1>2 DEF Abs
  <1>5. r < 1 => 2 * n < d
    BY <1>1, <1>2, <1>3
  <1> QED BY <1>1, <1>4, <1>5 DEF q, r

(* The linear pace of a window in progress says what Tells allows. *)
LEMMA PacedTells ==
    ASSUME NEW used \in Int, NEW elapsed \in Int, NEW duration \in Nat \ {0},
           elapsed < duration, 100 * elapsed >= 3 * duration
    PROVE  Tells(Paced(used, elapsed, duration), used, elapsed, duration)
  <1> DEFINE line == 100 * elapsed
             had == used * duration
             delta == had - line
             off == Round(Abs(delta), duration)
             expected == Round(line, duration)
             pace == Paced(used, elapsed, duration)
  <1>1. line \in Int /\ had \in Int /\ delta \in Int /\ Abs(delta) \in Int
    BY DEF Abs
  <1>2. /\ pace.off = off
        /\ pace.expected = expected
        /\ pace.stage = IF off < 1 THEN "onPace" ELSE IF had < line THEN "behind" ELSE "ahead"
    BY DEF Paced
  <1> HIDE DEF line, had
  <1>3. /\ off \in Int
        /\ 2 * Abs(off * duration - Abs(delta)) <= duration
        /\ off < 1 => 2 * Abs(delta) < duration
    BY <1>1, RoundNearest
  <1>4. 2 * Abs(expected * duration - line) <= duration
    BY <1>1, RoundNearest
  <1> HIDE DEF delta, off, expected, pace
  <1>5. off >= 1 => delta # 0
    <2> SUFFICES ASSUME off >= 1, delta = 0 PROVE FALSE
      OBVIOUS
    <2>1. Abs(delta) = 0
      BY DEF Abs
    <2>2. off * duration >= duration /\ off * duration \in Int
      BY <1>3
    <2> QED BY <1>3, <2>1, <2>2 DEF Abs
  <1>6. CASE off < 1
    <2>1. pace.stage = "onPace"
      BY <1>2, <1>6
    <2> QED BY <1>2, <1>3, <1>4, <1>6, <2>1 DEF Tells, delta, line, had, pace
  <1>7. CASE ~(off < 1) /\ had < line
    <2>1. pace.stage = "behind" /\ delta < 0 /\ off >= 1
      BY <1>1, <1>2, <1>3, <1>7 DEF delta
    <2> QED BY <1>2, <1>3, <1>4, <2>1 DEF Tells, delta, line, had, pace
  <1>8. CASE ~(off < 1) /\ ~(had < line)
    <2>1. pace.stage = "ahead" /\ delta > 0 /\ off >= 1
      BY <1>1, <1>2, <1>3, <1>5, <1>8 DEF delta
    <2> QED BY <1>2, <1>3, <1>4, <2>1 DEF Tells, delta, line, had, pace
  <1> QED BY <1>6, <1>7, <1>8

LEMMA LinearTells ==
    ASSUME NEW used \in Int, NEW start \in Int, NEW reset \in Int, NEW at \in Int,
           NEW duration \in Nat \ {0}, start = reset - duration,
           LinearPace(used, start, reset, at) # None
    PROVE  Tells(LinearPace(used, start, reset, at), used, at - start, duration)
  <1>1. ~(at < start \/ at >= reset \/ 100 * (at - start) < 3 * (reset - start))
    BY DEF LinearPace
  <1>2. LinearPace(used, start, reset, at) = Paced(used, at - start, reset - start)
    BY <1>1 DEF LinearPace
  <1>3. reset - start = duration
    OBVIOUS
  <1>4. /\ at - start \in Int
        /\ at - start < duration
        /\ 100 * (at - start) >= 3 * duration
    BY <1>1, <1>3
  <1> QED BY <1>2, <1>3, <1>4, PacedTells

(* A listed window of Codex has the pace of its own position. *)
LEMMA CodexWindowPace ==
    ASSUME ToolInv, Listed("codex"), NEW i \in DOMAIN usage["codex"].windows
    PROVE  LET e == entry["codex"]
               w == usage["codex"].windows[i]
               x == IF w.from.slot # 0 THEN Slot(w.from.slot) ELSE Extra(w.from.at)
           IN /\ x \in Positions("codex", e)
              /\ w.used = Source(e, x).used
              /\ w.reset = Source(e, x).reset
              /\ w.pace = CodexPace(e, x, Source(e, x).reset,
                                    FetchedAt(e, taken["codex"]), taken["codex"])
  <1> DEFINE e == entry["codex"]
             xs == Sources("codex", e)
             w == usage["codex"].windows[i]
  <1>1. "codex" \in Cli
    BY DEF Cli
  <1>2. /\ i \in 1..Len(xs)
        /\ xs[i] \in Positions("codex", e)
        /\ w.from = Window(e, xs[i]).from
        /\ w.used = Source(e, xs[i]).used
        /\ w.reset = Source(e, xs[i]).reset
        /\ w.pace = CodexPace(e, xs[i], Source(e, xs[i]).reset,
                              FetchedAt(e, taken["codex"]), taken["codex"])
    BY <1>1, ListedWindow
  <1> HIDE DEF e, w, xs
  <1>3. w.from.slot = xs[i].slot /\ w.from.at = xs[i].extra
    BY <1>2 DEF Window
  <1>4. xs[i] = IF xs[i].slot # 0 THEN Slot(xs[i].slot) ELSE Extra(xs[i].extra)
    BY <1>2 DEF Positions, Slot, Extra, SlotsAt
  <1> QED BY <1>2, <1>3, <1>4 DEF e, w

LEMMA OwnPaceFromHistory == ToolInv => OwnPace
  <1> SUFFICES ASSUME ToolInv, Listed("codex") PROVE OwnPace
    BY DEF OwnPace
  <1>1. "codex" \in Cli
    BY DEF Cli
  <1>2. /\ entry["codex"] \in EntryType
        /\ usage["codex"] = Usage("codex", entry["codex"], taken["codex"])
    BY <1>1, ListedUsage
  <1>3. ASSUME NEW s \in 1..2, entry["codex"].slots[s] # None
        PROVE  usage["codex"].sides[s] =
                 CodexPace(entry["codex"], Slot(s), Source(entry["codex"], Slot(s)).reset,
                           FetchedAt(entry["codex"], taken["codex"]), taken["codex"])
    BY <1>2, <1>3, CodexSidesAre
  <1> QED BY <1>3, CodexWindowPace DEF OwnPace

LEMMA PaceTellsFromHistory == ToolInv => PaceTells
  <1> SUFFICES ASSUME ToolInv PROVE PaceTells
    OBVIOUS
  <1>1. ASSUME Listed("codex"), NEW i \in DOMAIN usage["codex"].windows
        PROVE  LET e == entry["codex"]
                   v == usage["codex"].windows[i]
                   w == Source(e, IF v.from.slot # 0 THEN Slot(v.from.slot)
                                  ELSE Extra(v.from.at))
               IN v.pace \notin {None, CliPace} =>
                    Tells(v.pace, v.used,
                          FetchedAt(e, taken["codex"]) - (v.reset - w.minutes), w.minutes)
    <2> DEFINE e == entry["codex"]
               v == usage["codex"].windows[i]
               x == IF v.from.slot # 0 THEN Slot(v.from.slot) ELSE Extra(v.from.at)
               w == Source(e, x)
               at == FetchedAt(e, taken["codex"])
    <2>1. /\ x \in Positions("codex", e)
          /\ v.used = w.used
          /\ v.reset = w.reset
          /\ v.pace = CodexPace(e, x, w.reset, at, taken["codex"])
      BY <1>1, CodexWindowPace
    <2>2. "codex" \in Cli
      BY DEF Cli
    <2>3. e \in EntryType /\ taken["codex"] \in Nat
      BY <1>1, <2>2, ListedUsage
    <2>4. at \in Int
      BY <2>3 DEF FetchedAt, EntryType
    <2>5. w.used \in Int /\ w.reset \in Int \union {None} /\ w.minutes \in Int
      BY <2>1, <2>3, SourceTyped
    <2> HIDE DEF e, v, x, w, at
    <2> SUFFICES ASSUME v.pace \notin {None, CliPace}
                 PROVE  Tells(v.pace, v.used, at - (v.reset - w.minutes), w.minutes)
      BY DEF e, v, x, w, at
    <2>6. v.pace = FixedPace(w, at)
      BY <2>1 DEF CodexPace, w
    <2>7. w.minutes > 0 /\ w.reset \in Int
      BY <2>5, <2>6 DEF FixedPace
    <2>8. v.pace = LinearPace(w.used, w.reset - w.minutes, w.reset, at)
      BY <2>6 DEF FixedPace
    <2> QED BY <2>1, <2>4, <2>5, <2>7, <2>8, LinearTells
  <1>2. ASSUME Listed("copilot"), usage["copilot"].sides[1] \notin {None, CliPace}
        PROVE  LET u == usage["copilot"] IN
                 Tells(u.sides[1], u.windows[1].used,
                       taken["copilot"] - (u.windows[1].reset - Month), Month)
    <2> DEFINE e == entry["copilot"]
               t == taken["copilot"]
               u == usage["copilot"]
               xs == Sources("copilot", e)
               ws == Windows("copilot", e)
    <2>1. "copilot" \in Cli
      BY DEF Cli
    <2>2. e \in EntryType /\ t \in Nat /\ u = Usage("copilot", e, t)
      BY <1>2, <2>1, ListedUsage
    <2>3. /\ DOMAIN u.windows = 1..Len(xs)
          /\ \A i \in 1..Len(xs) :
               /\ u.windows[i].used = Source(e, xs[i]).used
               /\ u.windows[i].used \in Int
               /\ u.windows[i].reset = Source(e, xs[i]).reset
               /\ u.windows[i].reset \in Int \union {None}
      BY <1>2, <2>1, ListedWindow
    <2>4. Len(xs) \in Nat
      BY <2>2, SourcesList
    <2>5. /\ ws = [i \in 1..Len(xs) |-> Window(e, xs[i])]
          /\ \A i \in 1..Len(xs) : /\ ws[i].used = Source(e, xs[i]).used
                                   /\ ws[i].reset = Source(e, xs[i]).reset
      BY DEF Windows, Window
    <2>6. ws # <<>> /\ u.sides[1] = MonthlyPace(ws[1].used, ws[1].reset, t)
      <3>1. u.sides = SidePaces("copilot", e, ws, t)
        BY <2>2 DEF Usage
      <3> HIDE DEF ws, u, e, t
      <3>2. u.sides[1] \notin {None, CliPace}
        BY <1>2 DEF u
      <3> QED BY <3>1, <3>2 DEF SidePaces
    <2>7. 1 \in 1..Len(xs)
      <3> HIDE DEF xs, ws
      <3> QED BY <2>4, <2>5, <2>6
    <2> HIDE DEF e, t, u, xs, ws
    <2>8. ws[1].used = u.windows[1].used /\ ws[1].reset = u.windows[1].reset
      BY <2>3, <2>5, <2>7
    <2>9. u.windows[1].used \in Int /\ u.windows[1].reset \in Int \union {None}
      BY <2>3, <2>7
    <2>10. u.sides[1] # None
      BY <1>2 DEF u
    <2>11. /\ u.windows[1].reset \in Int
           /\ u.sides[1] = LinearPace(u.windows[1].used, u.windows[1].reset - Month,
                                      u.windows[1].reset, t)
      BY <2>6, <2>8, <2>9, <2>10 DEF MonthlyPace
    <2>12. Tells(u.sides[1], u.windows[1].used, t - (u.windows[1].reset - Month), Month)
      BY <2>2, <2>9, <2>10, <2>11, LinearTells, MonthAssumption
    <2> QED BY <2>12 DEF u, t
  <1> QED BY <1>1, <1>2 DEF PaceTells

-----------------------------------------------------------------------------
(* What is listed stays tied to the entry, the time and the poll it is from. *)
THEOREM ToolCorrect == Spec => []ToolInv
  BY InitTool, StepTool, PTL DEF Spec

(* Availability is always one of the declared values, and times are in range. *)
THEOREM TypeCorrect == Spec => []TypeOK
  <1>1. ToolInv => TypeOK
    BY RecordAvailability DEF ToolInv, TypeOK
  <1> QED BY ToolCorrect, <1>1, PTL

(* A value that is not called stale was reported within two intervals. *)
THEOREM FreshIsRecentHolds == Spec => []FreshIsRecent
  BY ToolCorrect, RecentFromHistory, PTL

(* An answer not called partial has nothing from before the last poll. *)
THEOREM PartialToldHolds == Spec => []PartialTold
  <1>1. ToolInv => PartialTold
    BY DEF ToolInv, HistoryInv, PartialTold, Partial, Incomplete
  <1> QED BY ToolCorrect, <1>1, PTL

(* While an entry is recent, exhaustion is claimed exactly when a slot of it *)
(* is spent, and the first reset of such a slot to come is announced; of an   *)
(* older entry neither is, nor of Augment.                                     *)
THEOREM ExhaustionStandsHolds == Spec => []ExhaustionStands
  BY ToolCorrect, ExhaustionFromHistory, PTL

(* The one window with the name of a slot, or of an extra window's identity, *)
(* shows that window's usage, whatever other windows are left out.           *)
THEOREM NamesStayHolds == Spec => []NamesStay
  BY ToolCorrect, NamesFromHistory, PTL

(* Codex's windows and sides have the pace of their own usage, reset and *)
(* length, whichever windows around them are absent or informational.    *)
THEOREM OwnPaceHolds == Spec => []OwnPace
  BY ToolCorrect, OwnPaceFromHistory, PTL

(* A pace is of a window in progress, exact to half a point, and its stage *)
(* is the side of the line on which the usage is.                           *)
THEOREM PaceTellsHolds == Spec => []PaceTells
  BY ToolCorrect, PaceTellsFromHistory, PTL

================================================================================
