------------------------- MODULE SessionFallbackProofs -------------------------
(***************************************************************************)
(* Proofs about SessionFallback, for any requests, reports and selections. *)
(***************************************************************************)
EXTENDS SessionFallback, TLAPS

\* The report that is built next.
LEMMA BuildTyped ==
  ASSUME TypeOK, Build
  PROVE  /\ built' = built + 1 /\ built \in Nat
         /\ built' \in Reports /\ built' \in 0..MaxReports
         /\ built' \in 0..built' /\ 0 \in 0..built'
         /\ covering' \subseteq Reports
         /\ born' \in [Reports -> 0..MaxSaves]
         /\ born'[built'] = saves
         /\ \A s \in 1..built : born'[s] = born[s]
  <1>1. built \in Nat /\ built + 1 \in Reports /\ built' = built + 1
    BY RequestsAssumption DEF TypeOK, Build, Reports
  <1>2. built' \in 0..MaxReports /\ built' \in 0..built' /\ 0 \in 0..built'
    BY <1>1, RequestsAssumption DEF Reports
  <1>3. \A s \in 1..built : s # built + 1 /\ s \in Reports
    BY <1>1, RequestsAssumption DEF Reports
  <1>4. covering' \subseteq Reports /\ born' = [born EXCEPT ![built + 1] = saves]
    BY <1>1 DEF TypeOK, Build
  <1>5. saves \in 0..MaxSaves /\ born \in [Reports -> 0..MaxSaves]
    BY DEF TypeOK
  <1>6. \A s \in 1..built : born'[s] = born[s]
    BY <1>3, <1>4, <1>5
  <1> QED BY <1>1, <1>2, <1>4, <1>5, <1>6

\* What a request waits on is an entry.
WaitTyped == \A r \in Requests : pc[r] = "wait" => waits[r] \in Requests
TypeInv == TypeOK /\ WaitTyped

LEMMA TypeStep == TypeInv /\ [Next]_vars => TypeInv'
  <1> SUFFICES ASSUME TypeInv, [Next]_vars PROVE TypeInv'
    OBVIOUS
  <1> USE DEF polls, flights, request, ask, Go
  <1>1. CASE Poll
    <2>1. /\ current' = built'
          /\ UNCHANGED <<saves, pc, gone, flights, request, ask>>
      BY <1>1 DEF Poll, Build
    <2> QED
      BY <1>1, <2>1, BuildTyped DEF TypeInv, WaitTyped, TypeOK, Pcs, Poll
  <1>2. CASE SaveTeam
    <2>1. saves' \in 0..MaxSaves /\ current' \in 0..built'
      BY <1>2, RequestsAssumption DEF TypeInv, TypeOK, SaveTeam
    <2> QED BY <1>2, <2>1 DEF TypeInv, WaitTyped, TypeOK, Pcs, SaveTeam
  <1>3. ASSUME NEW r \in Requests, Ask(r) PROVE TypeInv'
    <2>1. floor' \in [Requests -> 0..(MaxReports + 1)]
      <3>1. current \in 0..(MaxReports + 1) /\ built + 1 \in 0..(MaxReports + 1)
        BY RequestsAssumption DEF TypeInv, TypeOK
      <3> QED BY <1>3, <3>1 DEF TypeInv, TypeOK, Ask
    <2> QED BY <1>3, <2>1 DEF TypeInv, WaitTyped, TypeOK, Pcs, Ask
  <1>4. ASSUME NEW r \in Requests, Leave(r) PROVE TypeInv'
    BY <1>4 DEF TypeInv, WaitTyped, TypeOK, Leave
  <1>5. ASSUME NEW r \in Requests, NoFallback(r) PROVE TypeInv'
    BY <1>5 DEF TypeInv, WaitTyped, TypeOK, Pcs, NoFallback
  <1>6. ASSUME NEW r \in Requests, ReadSnapshot(r) PROVE TypeInv'
    <2>1. CASE UNCHANGED polls
      <3>1. current \in 0..MaxReports
        BY RequestsAssumption DEF TypeInv, TypeOK
      <3>2. snap' \in [Requests -> 0..MaxReports]
        <4>1. snap' = [snap EXCEPT ![r] = current] \/ Build
          BY <1>6 DEF ReadSnapshot
        <4>2. ~Build
          BY <2>1 DEF TypeInv, TypeOK, Build
        <4> QED BY <3>1, <4>1, <4>2 DEF TypeInv, TypeOK
      <3> QED BY <1>6, <2>1, <3>2 DEF TypeInv, WaitTyped, TypeOK, Pcs, ReadSnapshot
    <2>2. CASE Build
      <3>1. /\ snap' = [snap EXCEPT ![r] = built + 1] \/ UNCHANGED polls
            /\ current' \in {0, built'} \/ UNCHANGED polls
        BY <1>6, <2>2 DEF ReadSnapshot, Build
      <3>2. ~UNCHANGED polls
        BY <2>2 DEF TypeInv, TypeOK, Build
      <3>3. snap' \in [Requests -> 0..MaxReports] /\ current' \in 0..built'
        BY <2>2, <3>1, <3>2, BuildTyped DEF TypeInv, TypeOK
      <3>4. UNCHANGED <<saves, gone, flights, waits, got, from, ask>>
        BY <1>6 DEF ReadSnapshot
      <3>5. pc' = [pc EXCEPT ![r] = "check"]
        BY <1>6 DEF ReadSnapshot
      <3> QED
        BY <2>2, <3>3, <3>4, <3>5, BuildTyped
           DEF TypeInv, WaitTyped, TypeOK, Pcs
    <2> QED BY <1>6, <2>1, <2>2 DEF ReadSnapshot
  <1>7. ASSUME NEW r \in Requests, Check(r) PROVE TypeInv'
    <2>1. LookedAt(r) \in 0..MaxReports
      BY RequestsAssumption DEF TypeInv, TypeOK, LookedAt
    <2>2. entry \in Requests \/ ~Shared(r)
      BY DEF TypeInv, TypeOK, Shared
    <2>3. /\ pc' \in [Requests -> Pcs]
          /\ \A q \in Requests : pc'[q] = "wait" => waits'[q] \in Requests
      BY <1>7, <2>2 DEF TypeInv, WaitTyped, TypeOK, Pcs, Check, Shared
    <2>4. flight' \in [Requests -> 0..MaxReports]
      BY <1>7, <2>1 DEF TypeInv, TypeOK, Check
    <2>5. snap' \in [Requests -> 0..MaxReports]
      BY <1>7, <2>1 DEF TypeInv, TypeOK, Check
    <2>6. /\ status' \in [Requests -> {"none", "flying", "done", "aborted"}]
          /\ entry' \in Requests \union {NoOne}
      BY <1>7 DEF TypeInv, TypeOK, Check
    <2>7. /\ waits' \in [Requests -> Requests \union {NoOne}]
          /\ got' \in [Requests -> {"none", "snapshot", "fallback", "cancelled"}]
      BY <1>7, <2>2 DEF TypeInv, TypeOK, Check
    <2>8. UNCHANGED <<polls, gone, from, ask, team, result>>
      BY <1>7 DEF Check
    <2> QED
      BY <2>3, <2>4, <2>5, <2>6, <2>7, <2>8 DEF TypeInv, WaitTyped, TypeOK
  <1>8. ASSUME NEW r \in Requests, FetchUsage(r) PROVE TypeInv'
    BY <1>8 DEF TypeInv, WaitTyped, TypeOK, Pcs, FetchUsage
  <1>9. ASSUME NEW r \in Requests, FinishFlight(r) PROVE TypeInv'
    BY <1>9
       DEF TypeInv, WaitTyped, TypeOK, Pcs, FinishFlight, EntryAfter, Closed
  <1>10. ASSUME NEW r \in Requests, Wake(r) PROVE TypeInv'
    BY <1>10 DEF TypeInv, WaitTyped, TypeOK, Pcs, Wake
  <1>11. CASE UNCHANGED vars
    BY <1>11 DEF TypeInv, WaitTyped, TypeOK, vars
  <1> QED
    BY <1>1, <1>2, <1>3, <1>4, <1>5, <1>6, <1>7, <1>8, <1>9, <1>10, <1>11
       DEF Next, Serve

\* Every variable keeps its type, and no request waits on nobody.
THEOREM TypeCorrect == Spec => []TypeOK
  <1>1. Init => TypeInv
    BY RequestsAssumption DEF Init, TypeInv, WaitTyped, TypeOK, Pcs
  <1>2. TypeInv => TypeOK
    BY DEF TypeInv
  <1> QED BY <1>1, <1>2, TypeStep, PTL DEF Spec

-----------------------------------------------------------------------------
(* Leaders and waiters. *)

LEMMA BuildGrows ==
  ASSUME TypeInv, Build
  PROVE  1..built \subseteq 1..built' /\ built' # 0 /\ built' \notin 1..built
  BY DEF TypeInv, TypeOK, Build

LEMMA ReadCases ==
  ASSUME TypeInv, NEW r \in Requests, ReadSnapshot(r)
  PROVE  /\ pc[r] \in {"read", "refresh"}
         /\ pc' = [pc EXCEPT ![r] = "check"]
         /\ UNCHANGED <<saves, gone, flights, waits, got, from, ask>>
         /\ \/ /\ UNCHANGED polls
               /\ pc[r] = "read" /\ current # 0
               /\ snap' = [snap EXCEPT ![r] = current]
            \/ /\ Build
               /\ snap' = [snap EXCEPT ![r] = built']
               /\ current' = built' \/ (current = 0 /\ current' = 0)
  <1>1. Build => built' = built + 1
    BY DEF Build
  <1>2. /\ pc[r] \in {"read", "refresh"}
        /\ pc' = [pc EXCEPT ![r] = "check"]
        /\ UNCHANGED <<saves, gone, flights, waits, got, from, ask>>
    BY DEF ReadSnapshot, Go, polls
  <1> QED BY <1>1, <1>2 DEF ReadSnapshot, Go

LEMMA LookedAtTyped ==
  ASSUME TypeInv, CurrentInv, NEW r \in Requests, pc[r] = "check"
  PROVE  /\ LookedAt(r) \in 1..built
         /\ current # 0 => LookedAt(r) = current
  BY DEF TypeInv, TypeOK, CurrentInv, Looking, LookedAt

LEMMA LeaderStep ==
  TypeInv /\ CurrentInv /\ LeaderInv /\ [Next]_vars => LeaderInv'
  <1> SUFFICES ASSUME TypeInv, CurrentInv, LeaderInv, [Next]_vars
               PROVE  LeaderInv'
    OBVIOUS
  <1> USE DEF polls, flights, request, ask, Go
  <1>1. CASE Poll
    <2>1. 1..built \subseteq 1..built'
      BY <1>1, BuildGrows DEF Poll
    <2> QED BY <1>1, <2>1 DEF LeaderInv, LiveRequestsSurvive, Led, Poll
  <1>2. CASE SaveTeam
    BY <1>2 DEF LeaderInv, LiveRequestsSurvive, Led, SaveTeam
  <1>3. ASSUME NEW r \in Requests, Ask(r) PROVE LeaderInv'
    BY <1>3 DEF TypeInv, TypeOK, LeaderInv, LiveRequestsSurvive, Led, Ask
  <1>4. ASSUME NEW r \in Requests, Leave(r) PROVE LeaderInv'
    BY <1>4 DEF LeaderInv, LiveRequestsSurvive, Led, Leave
  <1>5. ASSUME NEW r \in Requests, NoFallback(r) PROVE LeaderInv'
    BY <1>5 DEF TypeInv, TypeOK, LeaderInv, LiveRequestsSurvive, Led, NoFallback
  <1>6. ASSUME NEW r \in Requests, ReadSnapshot(r) PROVE LeaderInv'
    <2>1. 1..built \subseteq 1..built'
      BY <1>6, ReadCases, BuildGrows DEF polls
    <2> QED
      BY <1>6, <2>1, ReadCases
         DEF TypeInv, TypeOK, LeaderInv, LiveRequestsSurvive, Led
  <1>7. ASSUME NEW r \in Requests, Check(r) PROVE LeaderInv'
    <2>1. pc[r] = "check" /\ status[r] = "none"
      BY <1>7 DEF TypeInv, TypeOK, LeaderInv, Check
    <2>2. LookedAt(r) \in 1..built
      BY <2>1, LookedAtTyped
    <2> QED
      BY <1>7, <2>1, <2>2, RequestsAssumption
         DEF TypeInv, TypeOK, LeaderInv, LiveRequestsSurvive, Led, Check, Shared
  <1>8. ASSUME NEW r \in Requests, FetchUsage(r) PROVE LeaderInv'
    BY <1>8 DEF LeaderInv, LiveRequestsSurvive, Led, FetchUsage
  <1>9. ASSUME NEW r \in Requests, FinishFlight(r) PROVE LeaderInv'
    BY <1>9
       DEF TypeInv, TypeOK, LeaderInv, LiveRequestsSurvive, Led, FinishFlight,
           EntryAfter, Closed
  <1>10. ASSUME NEW r \in Requests, Wake(r) PROVE LeaderInv'
    BY <1>10
       DEF TypeInv, TypeOK, LeaderInv, LiveRequestsSurvive, Led, Wake, Usable
  <1>11. CASE UNCHANGED vars
    BY <1>11 DEF LeaderInv, LiveRequestsSurvive, Led, vars
  <1> QED
    BY <1>1, <1>2, <1>3, <1>4, <1>5, <1>6, <1>7, <1>8, <1>9, <1>10, <1>11
       DEF Next, Serve

LEMMA CurrentStep ==
  TypeInv /\ LeaderInv /\ CurrentInv /\ [Next]_vars => CurrentInv'
  <1> SUFFICES ASSUME TypeInv, LeaderInv, CurrentInv, [Next]_vars
               PROVE  CurrentInv'
    OBVIOUS
  <1> USE DEF polls, flights, request, ask, Go
  <1>1. CASE Poll
    BY <1>1
       DEF TypeInv, TypeOK, CurrentInv, FallbackIsCurrent, Led, Looking, Poll,
           Build
  <1>2. CASE SaveTeam
    BY <1>2 DEF CurrentInv, FallbackIsCurrent, Led, Looking, SaveTeam
  <1>3. ASSUME NEW r \in Requests, Ask(r) PROVE CurrentInv'
    BY <1>3
       DEF TypeInv, TypeOK, LeaderInv, CurrentInv, FallbackIsCurrent, Led,
           Looking, Ask
  <1>4. ASSUME NEW r \in Requests, Leave(r) PROVE CurrentInv'
    BY <1>4 DEF CurrentInv, FallbackIsCurrent, Led, Looking, Leave
  <1>5. ASSUME NEW r \in Requests, NoFallback(r) PROVE CurrentInv'
    BY <1>5 DEF CurrentInv, FallbackIsCurrent, Led, Looking, NoFallback
  <1>6. ASSUME NEW r \in Requests, ReadSnapshot(r) PROVE CurrentInv'
    BY <1>6
       DEF TypeInv, TypeOK, CurrentInv, FallbackIsCurrent, Led, Looking,
           ReadSnapshot, Build
  <1>7. ASSUME NEW r \in Requests, Check(r) PROVE CurrentInv'
    <2>1. pc[r] = "check" /\ LookedAt(r) \in 1..built
      BY <1>7, LookedAtTyped DEF Check
    <2>2. LookedAt(r) >= floor[r]
      BY <2>1
         DEF TypeInv, TypeOK, CurrentInv, Looking, LookedAt
    <2>3. Shared(r) => entry # r /\ flight[entry] = LookedAt(r)
      BY <2>1 DEF TypeInv, TypeOK, LeaderInv, Shared
    <2> QED
      BY <1>7, <2>1, <2>2, <2>3
         DEF TypeInv, TypeOK, LeaderInv, CurrentInv, FallbackIsCurrent, Led,
             Looking, Check
  <1>8. ASSUME NEW r \in Requests, FetchUsage(r) PROVE CurrentInv'
    BY <1>8 DEF CurrentInv, FallbackIsCurrent, Led, Looking, FetchUsage
  <1>9. ASSUME NEW r \in Requests, FinishFlight(r) PROVE CurrentInv'
    BY <1>9
       DEF TypeInv, TypeOK, CurrentInv, FallbackIsCurrent, Led, Looking,
           FinishFlight
  <1>10. ASSUME NEW r \in Requests, Wake(r) PROVE CurrentInv'
    BY <1>10
       DEF TypeInv, TypeOK, CurrentInv, FallbackIsCurrent, Led, Looking, Wake
  <1>11. CASE UNCHANGED vars
    BY <1>11 DEF CurrentInv, FallbackIsCurrent, Led, Looking, vars
  <1> QED
    BY <1>1, <1>2, <1>3, <1>4, <1>5, <1>6, <1>7, <1>8, <1>9, <1>10, <1>11
       DEF Next, Serve

\* Every snapshot that a request or an entry names has been built.
LEMMA Named ==
  ASSUME TypeInv, LeaderInv, CurrentInv
  PROVE  /\ current # 0 => current \in 1..built
         /\ \A r \in Looking : r \in Requests /\ snap[r] \in 1..built
         /\ \A r \in Requests : status[r] # "none" => flight[r] \in 1..built
         /\ \A r \in Led : r \in Requests /\ flight[r] \in 1..built
         /\ \A r \in Requests : pc[r] = "wait" =>
              waits[r] \in Requests /\ flight[waits[r]] \in 1..built
  <1>1. current # 0 => current \in 1..built
    BY DEF TypeInv, TypeOK
  <1> QED BY <1>1 DEF TypeInv, TypeOK, LeaderInv, CurrentInv, Led, Looking

LEMMA Counted ==
  ASSUME TypeInv
  PROVE  /\ saves \in Nat
         /\ \A s \in 1..built : s \in Reports /\ born[s] \in Nat
         /\ \A r \in Requests : asked[r] \in Nat /\ team[r] \in Nat
  BY RequestsAssumption DEF TypeInv, TypeOK, Reports

\* A report that is built while the earlier ones keep their selections.
LEMMA ScopeKept ==
  ASSUME TypeInv, LeaderInv, CurrentInv, ScopeInv, Build,
         UNCHANGED <<saves, flights, waits, got, from, ask>>,
         current' \in {0, built'}
  PROVE  /\ \A s \in 1..built' : born'[s] <= saves'
         /\ current' # 0 => born'[current'] = saves'
         /\ \A r \in Requests : asked'[r] <= saves'
         /\ \A r \in Looking : born'[snap[r]] >= asked[r]
         /\ \A r \in Led : born'[flight[r]] >= asked[r]
         /\ \A r \in Requests : pc[r] = "wait" =>
              born'[flight[waits[r]]] >= asked[r]
         /\ \A r \in Requests :
              (pc[r] = "fetch" \/ status[r] \in {"done", "aborted"}) =>
                team[r] >= born'[flight[r]]
         /\ FallbackInScope'
  <1>1. \A s \in 1..built : born'[s] = born[s]
    BY BuildTyped DEF TypeInv
  <1>2. born'[built'] = saves /\ built' = built + 1 /\ built \in Nat
    BY BuildTyped DEF TypeInv
  <1>3. \A s \in 1..built' : s \in 1..built \/ s = built'
    BY <1>2
  <1>4. \A s \in 1..built' : born'[s] <= saves'
    BY <1>1, <1>2, <1>3, Counted DEF ScopeInv
  <1>5. current' # 0 => born'[current'] = saves'
    BY <1>2
  <1>6. /\ \A r \in Looking : born'[snap[r]] >= asked[r]
        /\ \A r \in Led : born'[flight[r]] >= asked[r]
        /\ \A r \in Requests : pc[r] = "wait" =>
              born'[flight[waits[r]]] >= asked[r]
    BY <1>1, Named DEF ScopeInv
  <1>7. \A r \in Requests :
              (pc[r] = "fetch" \/ status[r] \in {"done", "aborted"}) =>
                team[r] >= born'[flight[r]]
    BY <1>1, Named DEF ScopeInv, LeaderInv, Led
  <1>8. FallbackInScope'
    BY DEF ScopeInv, FallbackInScope, flights, request, ask
  <1>9. \A r \in Requests : asked'[r] <= saves'
    BY DEF ScopeInv, ask
  <1> QED BY <1>4, <1>5, <1>6, <1>7, <1>8, <1>9

LEMMA ScopeStep ==
  TypeInv /\ LeaderInv /\ CurrentInv /\ ScopeInv /\ [Next]_vars => ScopeInv'
  <1> SUFFICES ASSUME TypeInv, LeaderInv, CurrentInv, ScopeInv, [Next]_vars
               PROVE  ScopeInv'
    OBVIOUS
  <1> USE DEF polls, flights, request, ask, Go
  <1>1. CASE Poll
    <2>1. /\ Build /\ current' = built'
          /\ UNCHANGED <<saves, pc, gone, flights, request, ask>>
      BY <1>1 DEF Poll, Build
    <2> QED BY <2>1, ScopeKept DEF ScopeInv, Led, Looking
  <1>2. CASE SaveTeam
    <2>1. /\ saves' = saves + 1 /\ current' = 0
          /\ UNCHANGED <<built, born, pc, gone, flights, request, ask>>
      BY <1>2 DEF SaveTeam
    <2>2. /\ \A s \in 1..built : born[s] <= saves + 1
          /\ \A r \in Requests : asked[r] <= saves + 1
      BY Counted DEF ScopeInv
    <2> QED BY <2>1, <2>2 DEF ScopeInv, FallbackInScope, Led, Looking
  <1>3. ASSUME NEW r \in Requests, Ask(r) PROVE ScopeInv'
    BY <1>3, RequestsAssumption
       DEF TypeInv, TypeOK, LeaderInv, ScopeInv, FallbackInScope, Led,
           Looking, Ask
  <1>4. ASSUME NEW r \in Requests, Leave(r) PROVE ScopeInv'
    BY <1>4 DEF ScopeInv, FallbackInScope, Led, Looking, Leave
  <1>5. ASSUME NEW r \in Requests, NoFallback(r) PROVE ScopeInv'
    BY <1>5
       DEF TypeInv, TypeOK, ScopeInv, FallbackInScope, Led, Looking, NoFallback
  <1>6. ASSUME NEW r \in Requests, ReadSnapshot(r) PROVE ScopeInv'
    <2>1. /\ pc[r] \in {"read", "refresh"}
          /\ pc' = [pc EXCEPT ![r] = "check"]
          /\ UNCHANGED <<saves, flights, waits, got, from, ask>>
      BY <1>6, ReadCases
    <2>2. Led' = Led /\ \A q \in Requests : pc'[q] = "wait" => pc[q] = "wait"
      BY <2>1 DEF TypeInv, TypeOK, Led
    <2>3. \A q \in Looking' : q \in Looking \/ q = r
      BY <2>1 DEF TypeInv, TypeOK, Looking
    <2>4. r \notin Looking /\ asked[r] \in Nat /\ saves \in Nat
      BY <2>1, Counted DEF Looking
    <2>5. \A q \in Requests : pc'[q] = "fetch" => pc[q] = "fetch"
      BY <2>1 DEF TypeInv, TypeOK
    <2>6. CASE UNCHANGED polls /\ current # 0
               /\ snap' = [snap EXCEPT ![r] = current]
      <3>1. \A q \in Looking' : born[snap'[q]] >= asked[q]
        BY <2>3, <2>4, <2>6 DEF TypeInv, TypeOK, ScopeInv, Looking
      <3> QED BY <2>1, <2>2, <2>5, <2>6, <3>1 DEF ScopeInv, FallbackInScope
    <2>7. CASE /\ Build
               /\ snap' = [snap EXCEPT ![r] = built']
               /\ current' \in {0, built'}
      <3>1. born'[built'] = saves
        BY <2>7, BuildTyped DEF TypeInv
      <3>2. \A q \in Looking : born'[snap[q]] >= asked[q]
        BY <2>1, <2>7, ScopeKept
      <3>3. \A q \in Looking' : born'[snap'[q]] >= asked[q]
        BY <2>3, <2>4, <2>7, <3>1, <3>2 DEF TypeInv, TypeOK, ScopeInv, Looking
      <3> QED BY <2>1, <2>2, <2>5, <2>7, <3>3, ScopeKept DEF ScopeInv
    <2> QED BY <1>6, <2>6, <2>7, ReadCases
  <1>7. ASSUME NEW r \in Requests, Check(r) PROVE ScopeInv'
    <2>1. pc[r] = "check" /\ r \in Looking
      BY <1>7 DEF Check, Looking
    <2>2. born[LookedAt(r)] >= asked[r]
      BY <2>1, Counted DEF ScopeInv, LookedAt
    <2>3. Shared(r) => entry # r /\ flight[entry] = LookedAt(r)
      BY <2>1 DEF TypeInv, TypeOK, LeaderInv, Shared
    <2>4. status[r] = "none"
      BY <2>1 DEF LeaderInv
    <2>5. /\ UNCHANGED <<polls, team, from, ask>>
          /\ snap' = [snap EXCEPT ![r] = LookedAt(r)]
      BY <1>7 DEF Check
    <2>6. \A q \in Looking' : born'[snap'[q]] >= asked'[q]
      BY <1>7, <2>1, <2>2, <2>5 DEF TypeInv, TypeOK, ScopeInv, Looking, Check
    <2>7. \A q \in Led' : born'[flight'[q]] >= asked'[q]
      BY <1>7, <2>2, <2>5 DEF TypeInv, TypeOK, ScopeInv, Led, Check
    <2>8. \A q \in Requests : pc'[q] = "wait" =>
             born'[flight'[waits'[q]]] >= asked'[q]
      BY <1>7, <2>1, <2>2, <2>3, <2>4, <2>5
         DEF TypeInv, WaitTyped, TypeOK, LeaderInv, ScopeInv, Check
    <2>9. \A q \in Requests :
             (pc'[q] = "fetch" \/ status'[q] \in {"done", "aborted"}) =>
               team'[q] >= born'[flight'[q]]
      BY <1>7, <2>4, <2>5 DEF TypeInv, TypeOK, ScopeInv, Check
    <2>10. FallbackInScope'
      BY <1>7, <2>5 DEF TypeInv, TypeOK, ScopeInv, FallbackInScope, Check
    <2> QED BY <2>5, <2>6, <2>7, <2>8, <2>9, <2>10 DEF ScopeInv
  <1>8. ASSUME NEW r \in Requests, FetchUsage(r) PROVE ScopeInv'
    <2>1. flight[r] \in 1..built /\ status[r] = "flying"
      BY <1>8, Named DEF LeaderInv, Led, FetchUsage
    <2>2. team'[r] >= born[flight[r]]
      BY <1>8, <2>1, Counted DEF TypeInv, TypeOK, ScopeInv, FetchUsage
    <2>3. \A q \in Requests : got[q] = "fallback" => from[q] # r
      BY <2>1 DEF LeaderInv
    <2> QED
      BY <1>8, <2>2, <2>3
         DEF TypeInv, TypeOK, LeaderInv, ScopeInv, FallbackInScope, Led,
             Looking, FetchUsage
  <1>9. ASSUME NEW r \in Requests, FinishFlight(r) PROVE ScopeInv'
    <2>1. pc[r] = "fetch" /\ r \in Led
      BY <1>9 DEF FinishFlight, Led
    <2>2. flight[r] \in 1..built
      BY <2>1, Named
    <2>3. team[r] >= asked[r]
      <3>1. team[r] >= born[flight[r]] /\ born[flight[r]] >= asked[r]
        BY <2>1 DEF ScopeInv
      <3> QED BY <2>2, <3>1, Counted
    <2>4. /\ UNCHANGED <<polls, flight, team, snap, waits, ask>>
          /\ pc' = [pc EXCEPT ![r] = "answered"]
          /\ from' = [from EXCEPT ![r] = r]
      BY <1>9 DEF FinishFlight
    <2>5. \A q \in Requests \ {r} : got'[q] = got[q] /\ status'[q] = status[q]
      BY <1>9 DEF TypeInv, TypeOK, FinishFlight
    <2>6. FallbackInScope'
      BY <2>3, <2>4, <2>5 DEF TypeInv, TypeOK, ScopeInv, FallbackInScope
    <2> QED
      BY <2>1, <2>4, <2>5, <2>6 DEF TypeInv, TypeOK, ScopeInv, Led, Looking
  <1>10. ASSUME NEW r \in Requests, Wake(r) PROVE ScopeInv'
    <2>1. waits[r] \in Requests /\ flight[waits[r]] \in 1..built
      BY <1>10, Named DEF Wake
    <2>2. Usable(r) => team[waits[r]] >= asked[r]
      <3>1. Usable(r) => /\ team[waits[r]] >= born[flight[waits[r]]]
                        /\ born[flight[waits[r]]] >= asked[r]
        BY <1>10, <2>1 DEF ScopeInv, Usable, Wake
      <3> QED BY <2>1, <3>1, Counted
    <2>3. UNCHANGED <<polls, flights, snap, waits, ask>>
      BY <1>10 DEF Wake
    <2>4. FallbackInScope'
      BY <1>10, <2>2, <2>3
         DEF TypeInv, TypeOK, ScopeInv, FallbackInScope, Wake
    <2> QED
      BY <1>10, <2>3, <2>4 DEF TypeInv, TypeOK, ScopeInv, Led, Looking, Wake
  <1>11. CASE UNCHANGED vars
    BY <1>11 DEF ScopeInv, FallbackInScope, Led, Looking, vars
  <1> QED
    BY <1>1, <1>2, <1>3, <1>4, <1>5, <1>6, <1>7, <1>8, <1>9, <1>10, <1>11
       DEF Next, Serve

-----------------------------------------------------------------------------
(* One flight. *)

LEMMA OnceStep ==
  TypeInv /\ LeaderInv /\ CurrentInv /\ OnceInv /\ [Next]_vars => OnceInv'
  <1> SUFFICES ASSUME TypeInv, LeaderInv, CurrentInv, OnceInv, [Next]_vars
               PROVE  OnceInv'
    OBVIOUS
  <1> USE DEF polls, flights, request, ask, Go
  <1>1. CASE Poll
    BY <1>1 DEF TypeInv, TypeOK, LeaderInv, OnceInv, Lives, Poll
  <1>2. CASE SaveTeam
    BY <1>2 DEF LeaderInv, OnceInv, Lives, SaveTeam
  <1>3. ASSUME NEW r \in Requests, Ask(r) PROVE OnceInv'
    BY <1>3 DEF OnceInv, Lives, Ask
  <1>4. ASSUME NEW r \in Requests, Leave(r) PROVE OnceInv'
    BY <1>4 DEF OnceInv, Lives, Leave
  <1>5. ASSUME NEW r \in Requests, NoFallback(r) PROVE OnceInv'
    BY <1>5 DEF OnceInv, Lives, NoFallback
  <1>6. ASSUME NEW r \in Requests, ReadSnapshot(r) PROVE OnceInv'
    BY <1>6 DEF TypeInv, TypeOK, LeaderInv, OnceInv, Lives, ReadSnapshot
  <1>7. ASSUME NEW r \in Requests, Check(r) PROVE OnceInv'
    <2>1. pc[r] = "check" /\ status[r] = "none" /\ UNCHANGED polls
      BY <1>7 DEF LeaderInv, Check
    <2>2. current # 0 => LookedAt(r) = current
      BY <2>1, LookedAtTyped
    <2>3. ASSUME NEW q \in Requests, Lives(q), flight[q] = current
          PROVE  entry = q /\ Shared(r)
      <3>1. entry = q /\ current # 0
        BY <2>3, Named DEF OnceInv, Lives
      <3> QED BY <2>2, <2>3, <3>1, RequestsAssumption DEF Shared
    <2>4. CASE UNCHANGED flights
      BY <2>1, <2>4 DEF OnceInv, Lives
    <2>5. CASE /\ ~Shared(r) /\ entry' = r
               /\ flight' = [flight EXCEPT ![r] = LookedAt(r)]
               /\ status' = [status EXCEPT ![r] = "flying"]
      BY <2>1, <2>3, <2>5 DEF TypeInv, TypeOK, OnceInv, Lives
    <2> QED BY <1>7, <2>4, <2>5 DEF Check
  <1>8. ASSUME NEW r \in Requests, FetchUsage(r) PROVE OnceInv'
    BY <1>8 DEF OnceInv, Lives, FetchUsage
  <1>9. ASSUME NEW r \in Requests, FinishFlight(r) PROVE OnceInv'
    <2>1. /\ UNCHANGED <<polls, gone, flight>>
          /\ entry' = EntryAfter(r)
          /\ status' = [status EXCEPT ![r] = Closed(r)]
      BY <1>9 DEF FinishFlight
    <2>2. status[r] = "flying"
      BY <1>9 DEF LeaderInv, Led, FinishFlight
    <2>3. ASSUME NEW q \in Requests, Lives(q)', flight[q] = current
          PROVE  entry' = q
      <3>1. entry = q
        BY <2>1, <2>2, <2>3 DEF TypeInv, TypeOK, OnceInv, Lives
      <3>2. q = r => r \notin gone
        BY <2>1, <2>3 DEF TypeInv, TypeOK, Lives, Closed
      <3> QED BY <2>1, <3>1, <3>2 DEF EntryAfter
    <2> QED BY <2>1, <2>3 DEF OnceInv
  <1>10. ASSUME NEW r \in Requests, Wake(r) PROVE OnceInv'
    BY <1>10 DEF OnceInv, Lives, Wake
  <1>11. CASE UNCHANGED vars
    BY <1>11 DEF OnceInv, Lives, vars
  <1> QED
    BY <1>1, <1>2, <1>3, <1>4, <1>5, <1>6, <1>7, <1>8, <1>9, <1>10, <1>11
       DEF Next, Serve

-----------------------------------------------------------------------------
(* No request waits in vain for ever. *)

LEMMA EntryStep ==
  TypeInv /\ LeaderInv /\ EntryInv /\ [Next]_vars => EntryInv'
  <1> SUFFICES ASSUME TypeInv, LeaderInv, EntryInv, [Next]_vars
               PROVE  EntryInv'
    OBVIOUS
  <1>1. CASE UNCHANGED <<entry, status>>
    BY <1>1 DEF EntryInv, Lives
  <1>2. ASSUME NEW r \in Requests, Check(r) PROVE EntryInv'
    <2>1. CASE UNCHANGED flights
      BY <1>1, <2>1 DEF flights
    <2>2. CASE entry' = r /\ status' = [status EXCEPT ![r] = "flying"]
      BY <2>2 DEF TypeInv, TypeOK, EntryInv, Lives
    <2> QED BY <1>2, <2>1, <2>2 DEF Check
  <1>3. ASSUME NEW r \in Requests, FinishFlight(r) PROVE EntryInv'
    BY <1>3
       DEF TypeInv, TypeOK, EntryInv, Lives, FinishFlight, EntryAfter, Closed
  <1>4. ASSUME NEW r \in Requests, ReadSnapshot(r) \/ FetchUsage(r) \/ Wake(r)
        PROVE  EntryInv'
    BY <1>1, <1>4 DEF ReadSnapshot, FetchUsage, Wake, flights
  <1>5. ASSUME NEW r \in Requests, Ask(r) \/ Leave(r) \/ NoFallback(r)
        PROVE  EntryInv'
    BY <1>1, <1>5 DEF Ask, Leave, NoFallback, flights
  <1>6. CASE Poll \/ SaveTeam \/ UNCHANGED vars
    BY <1>1, <1>6 DEF Poll, SaveTeam, vars, flights
  <1> QED BY <1>2, <1>3, <1>4, <1>5, <1>6 DEF Next, Serve

Unaborted == {q \in Requests : status[q] # "aborted"}

LEMMA ChancesAre ==
  ASSUME NEW r \in Requests
  PROVE  Chances(r) = IF pc[r] = "answered" THEN {}
                      ELSE IF pc[r] = "wait" THEN Unaborted \ {waits[r]}
                      ELSE Unaborted
  BY DEF Chances, Unaborted

LEMMA ChancesWillBe ==
  ASSUME NEW r \in Requests
  PROVE  Chances(r)' = IF pc'[r] = "answered" THEN {}
                       ELSE IF pc'[r] = "wait" THEN Unaborted' \ {waits'[r]}
                       ELSE Unaborted'
  BY DEF Chances, Unaborted

\* An aborted flight stays aborted: its request never leads again.
LEMMA UnabortedShrinks ==
  ASSUME TypeInv, LeaderInv, [Next]_vars
  PROVE  Unaborted' \subseteq Unaborted
  <1>1. CASE UNCHANGED status
    BY <1>1 DEF Unaborted
  <1>2. ASSUME NEW r \in Requests, Check(r) PROVE Unaborted' \subseteq Unaborted
    <2>1. status[r] = "none"
      BY <1>2 DEF LeaderInv, Check, Go
    <2>2. UNCHANGED status \/ status' = [status EXCEPT ![r] = "flying"]
      BY <1>2 DEF Check, flights
    <2> QED BY <2>1, <2>2 DEF TypeInv, TypeOK, Unaborted
  <1>3. ASSUME NEW r \in Requests, FinishFlight(r)
        PROVE  Unaborted' \subseteq Unaborted
    <2>1. status[r] = "flying"
      BY <1>3 DEF LeaderInv, Led, FinishFlight, Go
    <2> QED BY <1>3, <2>1 DEF TypeInv, TypeOK, Unaborted, FinishFlight
  <1>4. ASSUME NEW r \in Requests, ReadSnapshot(r) \/ FetchUsage(r) \/ Wake(r)
        PROVE  Unaborted' \subseteq Unaborted
    BY <1>1, <1>4 DEF ReadSnapshot, FetchUsage, Wake, flights
  <1>5. ASSUME NEW r \in Requests, Ask(r) \/ Leave(r) \/ NoFallback(r)
        PROVE  Unaborted' \subseteq Unaborted
    BY <1>1, <1>5 DEF Ask, Leave, NoFallback, flights
  <1>6. CASE Poll \/ SaveTeam \/ UNCHANGED vars
    BY <1>1, <1>6 DEF Poll, SaveTeam, vars, flights
  <1> QED BY <1>2, <1>3, <1>4, <1>5, <1>6 DEF Next, Serve

\* What a step does to a request that does not take it.
LEMMA OthersStay ==
  ASSUME TypeInv, LeaderInv, [Next]_vars, NEW r \in Requests,
         UNCHANGED <<pc[r], waits[r]>>
  PROVE  /\ Chances(r)' \subseteq Chances(r)
         /\ Distance(r)' = Distance(r)
  <1>1. Unaborted' \subseteq Unaborted
    BY UnabortedShrinks
  <1>2. Chances(r)' \subseteq Chances(r)
    BY <1>1, ChancesAre, ChancesWillBe
  <1>3. Distance(r)' = Distance(r)
    BY DEF Distance
  <1> QED BY <1>2, <1>3

Nearer(r) ==
    /\ Chances(r)' \subseteq Chances(r)
    /\ Chances(r)' = Chances(r) => Distance(r)' < Distance(r)

\* A request that reaches its answer can no longer be disappointed.
LEMMA AnsweredNearer ==
  ASSUME NEW r \in Requests, pc'[r] = "answered", pc[r] \in Pcs \ {"answered"}
  PROVE  Nearer(r)
  <1>1. Chances(r)' = {}
    BY ChancesWillBe
  <1>2. Distance(r)' < Distance(r)
    BY DEF Distance, Pcs
  <1> QED BY <1>1, <1>2 DEF Nearer

LEMMA CheckNearer ==
  ASSUME TypeInv, LeaderInv, EntryInv, NEW r \in Requests, Check(r)
  PROVE  Nearer(r)
  <1>1. pc[r] = "check" /\ Chances(r) = Unaborted
    BY ChancesAre DEF Check, Go
  <1>2. CASE Go(r, "check", "answered")
    <2>1. pc'[r] = "answered"
      BY <1>2 DEF Go, TypeInv, TypeOK
    <2> QED BY <1>1, <2>1, AnsweredNearer DEF Pcs
  <1>3. CASE Go(r, "check", "wait") /\ Shared(r) /\ UNCHANGED flights
             /\ waits' = [waits EXCEPT ![r] = entry]
    <2>1. pc'[r] = "wait" /\ waits'[r] = entry
      BY <1>3 DEF Go, TypeInv, TypeOK
    <2>2. Unaborted' = Unaborted
      BY <1>3 DEF flights, Unaborted
    <2>3. entry \in Unaborted
      BY <1>3 DEF Shared, EntryInv, Lives, Unaborted, TypeInv, TypeOK
    <2>4. Chances(r)' = Unaborted \ {entry}
      BY <2>1, <2>2, ChancesWillBe
    <2> QED BY <1>1, <2>3, <2>4 DEF Nearer
  <1>4. CASE Go(r, "check", "lead") /\ status' = [status EXCEPT ![r] = "flying"]
    <2>1. pc'[r] = "lead"
      BY <1>4 DEF Go, TypeInv, TypeOK
    <2>2. Unaborted' = Unaborted
      BY <1>1, <1>4 DEF LeaderInv, TypeInv, TypeOK, Unaborted
    <2>3. Chances(r)' = Unaborted
      BY <2>1, <2>2, ChancesWillBe
    <2>4. Distance(r) = 3 /\ Distance(r)' = 2
      BY <1>1, <2>1 DEF Distance
    <2> QED BY <1>1, <2>3, <2>4 DEF Nearer
  <1> QED BY <1>2, <1>3, <1>4 DEF Check

LEMMA ServeNearer ==
  ASSUME TypeInv, LeaderInv, EntryInv, NEW r \in Requests, Serve(r)
  PROVE  Nearer(r)
  <1>1. CASE ReadSnapshot(r)
    <2>1. pc[r] \in {"read", "refresh"} /\ pc'[r] = "check" /\ UNCHANGED flights
      BY <1>1, ReadCases DEF TypeInv, TypeOK
    <2>2. Chances(r)' = Chances(r)
      BY <2>1, ChancesAre, ChancesWillBe DEF Unaborted, flights
    <2>3. Distance(r) = 5 /\ Distance(r)' = 3
      BY <2>1 DEF Distance
    <2> QED BY <2>2, <2>3 DEF Nearer
  <1>2. CASE Check(r)
    BY <1>2, CheckNearer
  <1>3. CASE FetchUsage(r)
    <2>1. pc[r] = "lead" /\ pc'[r] = "fetch" /\ UNCHANGED status
      BY <1>3 DEF FetchUsage, Go, TypeInv, TypeOK
    <2>2. Chances(r)' = Chances(r)
      BY <2>1, ChancesAre, ChancesWillBe DEF Unaborted
    <2>3. Distance(r) = 2 /\ Distance(r)' = 1
      BY <2>1 DEF Distance
    <2> QED BY <2>2, <2>3 DEF Nearer
  <1>4. CASE FinishFlight(r)
    <2>1. pc[r] = "fetch" /\ pc'[r] = "answered"
      BY <1>4 DEF FinishFlight, Go, TypeInv, TypeOK
    <2> QED BY <2>1, AnsweredNearer DEF Pcs
  <1>5. CASE Wake(r)
    <2>1. pc[r] = "wait" /\ UNCHANGED <<status, waits>>
      BY <1>5 DEF Wake, flights
    <2>2. CASE pc'[r] = "answered"
      BY <2>1, <2>2, AnsweredNearer DEF Pcs
    <2>3. CASE pc'[r] = "check" /\ status[waits[r]] = "aborted"
      <3>1. waits[r] \notin Unaborted /\ Unaborted' = Unaborted
        BY <2>1, <2>3 DEF Unaborted
      <3>2. Chances(r)' = Chances(r)
        BY <2>1, <2>3, <3>1, ChancesAre, ChancesWillBe
      <3>3. Distance(r) = 4 /\ Distance(r)' = 3
        BY <2>1, <2>3 DEF Distance
      <3> QED BY <3>2, <3>3 DEF Nearer
    <2>4. \/ pc'[r] = "answered"
          \/ pc'[r] = "check" /\ status[waits[r]] = "aborted"
      BY <1>5 DEF Wake, Go, TypeInv, TypeOK
    <2> QED BY <2>2, <2>3, <2>4
  <1> QED BY <1>1, <1>2, <1>3, <1>4, <1>5 DEF Serve

LEMMA DistanceTyped == ASSUME NEW r PROVE Distance(r) \in 0..6
  BY DEF Distance

\* The step of one request leaves the others where they are.
LEMMA OneMoves ==
  ASSUME TypeInv, NEW q \in Requests, Ask(q) \/ Leave(q) \/ NoFallback(q) \/ Serve(q),
         NEW r \in Requests, r # q
  PROVE  UNCHANGED <<pc[r], waits[r]>>
  <1>1. CASE Ask(q) \/ Leave(q) \/ NoFallback(q)
    BY <1>1 DEF Ask, Leave, NoFallback, Go, request, TypeInv, TypeOK
  <1>2. CASE ReadSnapshot(q)
    BY <1>2, ReadCases DEF TypeInv, TypeOK
  <1>3. CASE Check(q)
    BY <1>3 DEF Check, Go, TypeInv, TypeOK
  <1>4. CASE FetchUsage(q) \/ FinishFlight(q) \/ Wake(q)
    BY <1>4 DEF FetchUsage, FinishFlight, Wake, Go, request, TypeInv, TypeOK
  <1> QED BY <1>1, <1>2, <1>3, <1>4 DEF Serve

LEMMA RetriesStep ==
  ASSUME TypeInv, LeaderInv, EntryInv, [Next]_vars, NEW r \in Requests
  PROVE  /\ Chances(r)' \subseteq Chances(r)
         /\ Chances(r)' = Chances(r) => Distance(r)' <= Distance(r)
         /\ Serve(r) => Chances(r)' # Chances(r) \/ Distance(r)' < Distance(r)
  <1> DEFINE ok == /\ Chances(r)' \subseteq Chances(r)
                   /\ Chances(r)' = Chances(r) => Distance(r)' <= Distance(r)
  <1>1. Distance(r) \in 0..6 /\ Distance(r)' \in 0..6
    <2>1. Distance(r)' \in 0..6
      BY DEF Distance
    <2> QED BY <2>1, DistanceTyped
  <1>2. Nearer(r) => ok
    BY <1>1 DEF Nearer
  <1>3. UNCHANGED <<pc[r], waits[r]>> => ok
    BY <1>1, OthersStay
  <1>4. CASE Poll \/ SaveTeam \/ UNCHANGED vars
    <2>1. UNCHANGED <<pc[r], waits[r]>>
      BY <1>4 DEF Poll, SaveTeam, vars, request
    <2> QED BY <1>3, <2>1, ServeNearer DEF Nearer
  <1>5. ASSUME NEW q \in Requests, q # r,
               Ask(q) \/ Leave(q) \/ NoFallback(q) \/ Serve(q)
        PROVE  ok
    BY <1>3, <1>5, OneMoves
  <1>6. CASE Serve(r)
    BY <1>2, <1>6, ServeNearer DEF Nearer
  <1>7. CASE Ask(r)
    <2>1. pc[r] = "idle" /\ pc'[r] \in {"read", "refresh"} /\ UNCHANGED status
      BY <1>7 DEF Ask, Go, flights, TypeInv, TypeOK
    <2>2. Chances(r)' = Chances(r)
      BY <2>1, ChancesAre, ChancesWillBe DEF Unaborted
    <2>3. Distance(r) = 6 /\ Distance(r)' = 5
      BY <2>1 DEF Distance
    <2> QED BY <2>2, <2>3, ServeNearer DEF Nearer
  <1>8. CASE Leave(r)
    <2>1. UNCHANGED <<pc[r], waits[r]>>
      BY <1>8 DEF Leave, request
    <2> QED BY <1>3, <2>1, ServeNearer DEF Nearer
  <1>9. CASE NoFallback(r)
    <2>1. pc[r] = "check" /\ pc'[r] = "answered"
      BY <1>9 DEF NoFallback, Go, TypeInv, TypeOK
    <2> QED BY <1>2, <2>1, AnsweredNearer, ServeNearer DEF Pcs, Nearer
  <1>10. ok
    BY <1>4, <1>5, <1>6, <1>7, <1>8, <1>9 DEF Next
  <1>11. Serve(r) => Nearer(r)
    BY ServeNearer
  <1> QED BY <1>10, <1>11 DEF Nearer

-----------------------------------------------------------------------------
(* The theorems. *)

LEMMA FallbackSafe == Spec => [](TypeInv /\ FallbackInv)
  <1>1. Init => TypeInv
    BY RequestsAssumption DEF Init, TypeInv, WaitTyped, TypeOK, Pcs
  <1>2. Init => LeaderInv /\ CurrentInv
    BY RequestsAssumption
       DEF Init, LeaderInv, LiveRequestsSurvive, CurrentInv, FallbackIsCurrent,
           Led, Looking
  <1>3. Init => ScopeInv
    BY RequestsAssumption
       DEF Init, ScopeInv, FallbackInScope, Led, Looking
  <1>4. Init => OnceInv
    BY DEF Init, OnceInv, Lives
  <1>5. Init => EntryInv
    BY DEF Init, EntryInv
  <1>6. TypeInv /\ FallbackInv /\ [Next]_vars => (TypeInv /\ FallbackInv)'
    BY TypeStep, EntryStep, LeaderStep, CurrentStep, ScopeStep, OnceStep
       DEF FallbackInv
  <1> QED BY <1>1, <1>2, <1>3, <1>4, <1>5, <1>6, PTL DEF Spec, FallbackInv

\* sessionUsageOnDemand: however many leaders abort, a request whose own context
\* lives is never answered with the end of a context.
THEOREM LiveRequestsSurviveSafe == Spec => []LiveRequestsSurvive
  <1>1. FallbackInv => LiveRequestsSurvive
    BY DEF FallbackInv, LeaderInv
  <1> QED BY <1>1, FallbackSafe, PTL

\* sessionJSON: no request is answered by a flight for a snapshot older than the
\* one published when it asked, or than its own refresh.
THEOREM FallbackIsCurrentSafe == Spec => []FallbackIsCurrent
  <1>1. FallbackInv => FallbackIsCurrent
    BY DEF FallbackInv, CurrentInv
  <1> QED BY <1>1, FallbackSafe, PTL

\* saveCursorTeam: nor by a flight that read a selection which had been replaced
\* when the request was made.
THEOREM FallbackInScopeSafe == Spec => []FallbackInScope
  <1>1. FallbackInv => FallbackInScope
    BY DEF FallbackInv, ScopeInv
  <1> QED BY <1>1, FallbackSafe, PTL

\* sessionJSON's "fetch it once": the published snapshot has at most one flight
\* that is under way or has succeeded.
THEOREM FetchedOnceSafe == Spec => []FetchedOnce
  <1>1. FallbackInv => FetchedOnce
    BY DEF FallbackInv, OnceInv, FetchedOnce
  <1> QED BY <1>1, FallbackSafe, PTL

\* sessionUsageOnDemand: a request that finds its flight aborted tries again,
\* but no flight disappoints it twice, and nothing else takes it further from
\* its answer.
THEOREM RetriesEndHolds == Spec => RetriesEnd
  <1>1. TypeInv /\ FallbackInv /\ [Next]_vars =>
          [\A r \in Requests :
             /\ Chances(r)' \subseteq Chances(r)
             /\ Chances(r)' = Chances(r) => Distance(r)' <= Distance(r)
             /\ Serve(r) => Chances(r)' # Chances(r) \/ Distance(r)' < Distance(r)]_vars
    BY RetriesStep DEF FallbackInv
  <1> QED BY <1>1, FallbackSafe, PTL DEF Spec, RetriesEnd
================================================================================
