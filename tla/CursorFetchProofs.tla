--------------------------- MODULE CursorFetchProofs ---------------------------
(***************************************************************************)
(* Proofs about CursorFetch, for any accounts, credentials and history.    *)
(***************************************************************************)
EXTENDS CursorFetch, CursorDailyProofs, FiniteSetTheorems

Inv == LookupInv /\ PartsInv /\ PagesInv /\ DailyInv

(***************************************************************************)
(* Which credentials a lookup has.                                         *)
(***************************************************************************)
LEMMA StoreTyped ==
  ASSUME NEW store \in Stores, NEW s \in Sources
  PROVE  store[s] \in Held(s)
  BY DEF Stores, Sources, Explicit, Local

LEMMA UsableTyped ==
  ASSUME NEW s \in Sources, NEW c \in Held(s)
  PROVE  \/ Usable(c) = <<>>
         \/ /\ Usable(c) = <<c>>
            /\ c \in Credentials /\ c.source = s
  BY DEF Held, Usable

LEMMA LoadAuthTyped ==
  ASSUME NEW store \in Stores, NEW cs \in LoadAuth(store)
  PROVE  /\ cs \in Seq(Credentials)
         /\ Len(cs) > 1 => \A i \in 1..Len(cs) : cs[i].user = cs[i].session
         /\ (\E s \in Explicit : store[s] # Absent) =>
              \A i \in 1..Len(cs) : cs[i].source \notin Local
  <1> DEFINE configured_ == \E s \in Explicit : store[s] # Absent
  <1>1. \A s \in Sources :
          \/ Usable(store[s]) = <<>>
          \/ /\ Usable(store[s]) = <<store[s]>>
             /\ store[s] \in Credentials /\ store[s].source = s
    BY StoreTyped, UsableTyped
  <1>2. CASE configured_
    <2>1. PICK s \in Explicit : cs = Usable(store[s])
      BY <1>2 DEF LoadAuth, Explicit
    <2>2. s \in Sources /\ s \notin Local
      BY DEF Sources, Explicit, Local
    <2>3. \/ cs = <<>>
          \/ cs = <<store[s]>> /\ store[s] \in Credentials /\ store[s].source = s
      BY <1>1, <2>1, <2>2
    <2>4. CASE cs = <<>>
      BY <2>4
    <2>5. CASE cs = <<store[s]>> /\ store[s] \in Credentials /\ store[s].source = s
      <3>1. Len(cs) = 1 /\ cs[1] = store[s] /\ cs \in Seq(Credentials)
        BY <2>5
      <3> QED BY <2>2, <2>5, <3>1
    <2> QED BY <2>3, <2>4, <2>5
  <1>3. CASE ~configured_
    <2>1. cs \in Combined(store.desktop, store.agent)
      BY <1>3 DEF LoadAuth, Explicit
    <2>2. "desktop" \in Sources /\ "agent" \in Sources
          /\ "desktop" \in Local /\ "agent" \in Local
      BY DEF Sources, Local
    <2>3. /\ \/ Usable(store.desktop) = <<>>
             \/ /\ Usable(store.desktop) = <<store.desktop>>
                /\ store.desktop \in Credentials /\ store.desktop.source \in Local
          /\ \/ Usable(store.agent) = <<>>
             \/ /\ Usable(store.agent) = <<store.agent>>
                /\ store.agent \in Credentials /\ store.agent.source \in Local
      BY <1>1, <2>2
    <2>4. \/ cs = <<>>
          \/ \E c \in Credentials : c.source \in Local /\ cs = <<c>>
          \/ \E c, d \in Credentials :
               c.source \in Local /\ d.source \in Local /\ cs = <<c, d>>
      BY <2>1, <2>3 DEF Combined
    <2>5. \A c \in Credentials : c.source \in Local => c.user = c.session
      BY CredentialsAssumption
    <2> DEFINE ok_ == /\ cs \in Seq(Credentials)
                      /\ Len(cs) > 1 =>
                           \A i \in 1..Len(cs) : cs[i].user = cs[i].session
    <2>6. ASSUME NEW c \in Credentials, c.source \in Local, cs = <<c>>
          PROVE  ok_
      <3>1. cs \in Seq(Credentials) /\ Len(cs) = 1
        BY <2>6
      <3> QED BY <3>1
    <2>7. ASSUME NEW c \in Credentials, NEW d \in Credentials,
                 c.source \in Local, d.source \in Local, cs = <<c, d>>
          PROVE  ok_
      <3>1. cs \in Seq(Credentials)
        BY <2>7
      <3>2. Len(cs) = 2 /\ cs[1] = c /\ cs[2] = d
        BY <2>7
      <3>3. 1..Len(cs) = {1, 2}
        BY <3>2
      <3> QED BY <2>5, <2>7, <3>1, <3>2, <3>3
    <2>8. ASSUME cs = <<>> PROVE ok_
      BY <2>8
    <2>9. ok_
      BY <2>4, <2>6, <2>7, <2>8
    <2> QED BY <1>3, <2>9
  <1> QED BY <1>2, <1>3

(***************************************************************************)
(* An attempt fails.                                                       *)
(***************************************************************************)
Names2(account) == {account.id, account.email}

LEMMA FailInv ==
  ASSUME LookupInv, pc \in {"me", "teams", "parts"}, NEW why, NEW account \in Reported,
         why = "rejected" => Names2(account) \subseteq
                               {Current.session, Current.user, None},
         Fail(why, account), UNCHANGED <<auth, dailyVars>>
  PROVE  LookupInv'
  <1>1. /\ candidates \in Seq(Credentials) /\ candidates # <<>> /\ outcome = "none"
        /\ at \in 1..Len(candidates) /\ Len(candidates) \in Nat
        /\ Current \in Credentials /\ Current.session \in Accounts
        /\ UNCHANGED <<candidates, base, team, configured>>
    <2>1. candidates \in Seq(Credentials) /\ candidates # <<>> /\ outcome = "none"
          /\ at \in 1..Len(candidates)
      BY DEF LookupInv, TypeOK, AuthInv
    <2>2. Current \in Credentials
      BY <2>1 DEF Current
    <2> QED BY <2>1, <2>2, CredentialsAssumption DEF auth
  <1>2. /\ me' = Unknown /\ answers' = Unasked /\ member' = NoRow /\ user' = "none"
        /\ Unknown \in Reported /\ NoRow \in Rows
        /\ Unasked \in [Parts -> Answered \union {"unasked", "asked"}]
        /\ Unasked["rpc"] = "unasked"
    BY DEF Fail, Unknown, Unasked, NoRow, Rows, Reported, Names, Parts
  <1>3. Pin(account) = account
    BY DEF Pin
  <1>4. TypeOK'
    <2>1. DailyTypeOK'
      BY DEF LookupInv, TypeOK, DailyTypeOK, dailyVars, dashboard, sum
    <2>2. at' \in 1..Len(candidates) /\ at' \in Nat
      BY <1>1 DEF Fail, More
    <2>3. expected' \in Reported
      BY <1>3 DEF LookupInv, TypeOK, Fail
    <2>4. pc' \in Pcs /\ outcome' \in {"none", "usage", "error"}
          /\ rejected' \in BOOLEAN
      BY DEF LookupInv, TypeOK, Fail, Pcs
    <2>5. pinned' \in Names
      BY <1>1 DEF LookupInv, TypeOK, Fail, Names
    <2> QED BY <1>1, <1>2, <2>1, <2>2, <2>3, <2>4, <2>5 DEF LookupInv, TypeOK
  <1>5. AuthInv'
    <2>1. (pc' = "me" /\ outcome' = "none") \/ (pc' = "done" /\ outcome' = "error")
      BY <1>1 DEF Fail
    <2> QED BY <1>1, <2>1 DEF LookupInv, AuthInv, ExplicitStays
  <1>6. PinInv'
    <2>1. CASE at = 1 /\ why = "rejected" /\ More
      <3>1. /\ at' = 2 /\ outcome' = "none" /\ expected' = account /\ rejected'
            /\ pinned' = IF account # Unknown THEN Current.session ELSE None
        <4>1. More /\ Retries(why)
          BY <2>1 DEF Retries
        <4>2. pinned = None
          BY <1>1, <2>1 DEF LookupInv, PinInv
        <4>3. at' = at + 1 /\ UNCHANGED outcome /\ expected' = Pin(account)
          BY <2>1, <4>1 DEF Fail
        <4>4. rejected' /\ pinned' = IF account # Unknown THEN Current.session ELSE None
          BY <2>1, <4>2 DEF Fail
        <4> QED BY <1>1, <1>3, <2>1, <4>3, <4>4
      <3>2. Current.user = Current.session
        BY <1>1, <2>1 DEF LookupInv, AuthInv, Current, More
      <3>3. account # Unknown => Names2(account) \subseteq {pinned', None}
        BY <2>1, <3>1, <3>2
      <3>4. account = Unknown => expected'.id = None /\ expected'.email = None
        BY <3>1 DEF Unknown
      <3>5. Current.session # None
        BY <1>1, AccountsAssumption
      <3> QED BY <3>1, <3>3, <3>4, <3>5 DEF PinInv, StaleFallsThrough, Names2
    <2>2. CASE ~(at = 1 /\ why = "rejected")
      <3>1. UNCHANGED <<expected, rejected, pinned>>
        BY <2>2 DEF Fail, LookupInv, TypeOK
      <3>2. CASE More /\ Retries(why)
        <4>1. at' = at + 1 /\ outcome' = "none" /\ at' # 1
          BY <1>1, <3>2 DEF Fail
        <4> QED BY <1>1, <3>1, <4>1 DEF LookupInv, PinInv, StaleFallsThrough
      <3>3. CASE ~(More /\ Retries(why))
        <4>1. at' = at /\ outcome' = "error"
          BY <3>3 DEF Fail
        <4>2. rejected => at # 1
          BY <1>1 DEF LookupInv, PinInv
        <4>3. rejected => ~More
          BY <1>1, <3>3, <4>2 DEF Retries
        <4> QED BY <1>1, <3>1, <4>1, <4>3
            DEF LookupInv, PinInv, StaleFallsThrough, More
      <3> QED BY <3>2, <3>3
    <2>3. CASE at = 1 /\ why = "rejected" /\ ~More
      <3>0. at' = 1 /\ outcome' = "error" /\ expected' = expected
        <4>1. ~(More /\ Retries(why))
          BY <2>3
        <4>2. outcome' = "error" /\ at' = at /\ expected' = expected
          BY <4>1 DEF Fail
        <4> QED BY <2>3, <4>2
      <3>1. Len(candidates) = 1
        <4>1. at = 1 /\ ~(at < Len(candidates))
          BY <2>3 DEF More
        <4>2. \A n \in Nat : at \in 1..n /\ at = 1 /\ ~(at < n) => n = 1
          OBVIOUS
        <4>3. Len(candidates) \in Nat /\ at \in 1..Len(candidates)
          BY <1>1
        <4> QED BY <4>1, <4>2, <4>3
      <3>2. expected = Unknown
        BY <1>1, <2>3 DEF LookupInv, PinInv
      <3>3. expected'.id = None /\ expected'.email = None
        BY <3>0, <3>2 DEF Unknown
      <3> QED BY <1>1, <3>0, <3>1, <3>3 DEF PinInv, StaleFallsThrough
    <2> QED BY <2>1, <2>2, <2>3
  <1>7. MeInv'
    <2>1. pc' \in {"me", "done"} /\ outcome' # "usage"
      BY <1>1 DEF Fail
    <2> QED BY <1>2, <2>1 DEF MeInv
  <1> QED BY <1>4, <1>5, <1>6, <1>7 DEF LookupInv

LEMMA InvFacts ==
  ASSUME LookupInv, pc \notin {"idle", "done"}
  PROVE  /\ candidates # <<>> /\ outcome = "none" /\ at \in 1..Len(candidates)
         /\ Current \in Credentials /\ Current.session \in Accounts
         /\ Current.user \in Names
         /\ None \notin Accounts
  <1>1. candidates \in Seq(Credentials) /\ candidates # <<>> /\ outcome = "none"
        /\ at \in 1..Len(candidates)
    BY DEF LookupInv, TypeOK, AuthInv
  <1>2. Current \in Credentials
    BY <1>1 DEF Current
  <1> QED BY <1>1, <1>2, CredentialsAssumption, AccountsAssumption

-----------------------------------------------------------------------------
(* The steps of a lookup. *)

LEMMA FetchInv ==
  ASSUME LookupInv, Fetch
  PROVE  LookupInv'
  <1>1. /\ pc = "idle" /\ outcome = "none" /\ candidates = <<>> /\ at = 1
        /\ UNCHANGED <<at, me, expected, rejected, pinned, answers, member, user>>
        /\ DailyTypeOK'
    BY DEF Fetch, LookupInv, TypeOK, AuthInv, attempt, parts, DailyTypeOK,
           dailyVars, dashboard, sum
  <1>2. /\ base' \in Reported \union {NoBase} /\ team' \in BOOLEAN
        /\ configured' \in BOOLEAN
    BY DEF Fetch, Reported
  <1>3. PICK store \in Stores :
          /\ candidates' \in LoadAuth(store)
          /\ configured' = \E s \in Explicit : store[s] # Absent
    BY DEF Fetch
  <1>4. /\ candidates' \in Seq(Credentials)
        /\ Len(candidates') > 1 =>
             \A i \in 1..Len(candidates') : candidates'[i].user = candidates'[i].session
        /\ configured' =>
             \A i \in 1..Len(candidates') : candidates'[i].source \notin Local
    BY <1>3, LoadAuthTyped
  <1>5. \/ candidates' = <<>> /\ pc' = "done" /\ outcome' = "error"
        \/ candidates' # <<>> /\ pc' = "me" /\ outcome' = "none"
    BY <1>1 DEF Fetch
  <1>6. candidates' # <<>> => at' \in 1..Len(candidates')
    BY <1>1, <1>4
  <1>7. TypeOK'
    BY <1>1, <1>2, <1>4, <1>5, <1>6 DEF LookupInv, TypeOK, Pcs
  <1>8. AuthInv'
    BY <1>4, <1>5 DEF AuthInv, ExplicitStays
  <1>9. PinInv'
    <2>1. expected = Unknown /\ pinned = None /\ ~rejected
      BY <1>1 DEF LookupInv, PinInv
    <2>2. expected'.id = None /\ expected'.email = None
      BY <1>1, <2>1 DEF Unknown
    <2> QED BY <1>1, <2>1, <2>2 DEF PinInv, StaleFallsThrough
  <1>10. MeInv'
    BY <1>1, <1>5 DEF LookupInv, MeInv
  <1> QED BY <1>7, <1>8, <1>9, <1>10 DEF LookupInv

\* An account that passes the comparisons is the session's.
LEMMA MatchesSession ==
  ASSUME NEW want, NEW s \in Accounts, NEW i \in {s, None}, NEW e \in {s, None},
         Matches(want, [id |-> i, email |-> e])
  PROVE  s \in {want.id, want.email}
  BY AccountsAssumption DEF Matches

LEMMA MeRefusedInv ==
  ASSUME LookupInv, MeRefused
  PROVE  LookupInv'
  <1>1. PICK why \in {"rejected", "failed"} : Fail(why, Unknown)
    BY DEF MeRefused
  <1>2. /\ Unknown \in Reported /\ Unknown.id = None /\ Unknown.email = None
    BY DEF Unknown, Reported, Names
  <1>3. pc = "me" /\ UNCHANGED <<auth, dailyVars>>
    BY DEF MeRefused
  <1> QED BY <1>1, <1>2, <1>3, FailInv DEF Names2

LEMMA IdentifyInv ==
  ASSUME LookupInv, Identify
  PROVE  LookupInv'
  <1>1. PICK i \in {Current.session, None}, e \in {Current.session, None} :
          LET account == [id |-> i, email |-> e] IN
            /\ account # Unknown
            /\ IF expected # Unknown /\ ~Matches(expected, account)
               THEN Fail("alternate", Unknown)
               ELSE IF ~MatchesBase(account)
               THEN Fail("mismatch", Unknown)
               ELSE /\ me' = Named(account)
                    /\ IF team
                       THEN pc' = "teams" /\ UNCHANGED answers
                       ELSE pc' = "parts" /\ answers' = InFlight(Asked(account))
                    /\ UNCHANGED <<at, expected, rejected, pinned, member,
                                   user, outcome>>
    BY DEF Identify
  <1> DEFINE account == [id |-> i, email |-> e]
  <1>2. pc = "me" /\ UNCHANGED <<auth, dailyVars>>
    BY DEF Identify
  <1>3. CASE Fail("alternate", Unknown) \/ Fail("mismatch", Unknown)
    <2>1. Unknown \in Reported
      BY DEF Unknown, Reported, Names
    <2> QED BY <1>2, <1>3, <2>1, FailInv
  <1>4. CASE ~(Fail("alternate", Unknown) \/ Fail("mismatch", Unknown))
    <2>1. /\ me' = Named(account)
          /\ \/ team /\ pc' = "teams" /\ UNCHANGED answers
             \/ ~team /\ pc' = "parts" /\ answers' = InFlight(Asked(account))
          /\ UNCHANGED <<at, expected, rejected, pinned, member, user, outcome>>
          /\ expected = Unknown \/ Matches(expected, account)
          /\ MatchesBase(account)
      BY <1>1, <1>4
    <2>2. /\ candidates # <<>> /\ outcome = "none"
          /\ Current.session \in Accounts /\ Current.user \in Names
          /\ Current' = Current
      BY <1>2, <2>1, InvFacts DEF Current, auth
    <2>3. /\ me'.id \in {Current.session, Current.user, None}
          /\ me'.email \in {Current.session, None}
          /\ me' \in Reported
      BY <2>1, <2>2 DEF Named, Reported, Names
    <2>4. answers' \in [Parts -> Answered \union {"unasked", "asked"}]
      BY <2>1 DEF InFlight, LookupInv, TypeOK
    <2>5. TypeOK'
      BY <1>2, <2>1, <2>3, <2>4
      DEF LookupInv, TypeOK, Pcs, auth, DailyTypeOK, dailyVars, dashboard, sum
    <2>6. AuthInv'
      BY <1>2, <2>1, <2>2 DEF LookupInv, AuthInv, ExplicitStays, auth
    <2>7. PinInv'
      BY <1>2, <2>1, <2>2 DEF LookupInv, PinInv, StaleFallsThrough, auth
    <2>8. base # NoBase => Current.session \in {base.id, base.email}
      BY <2>1, <2>2, MatchesSession DEF MatchesBase
    <2>9. pinned # None => Current.session = pinned
      <3>1. pinned # None => expected # Unknown
            /\ {expected.id, expected.email} \subseteq {pinned, None}
        BY <2>2 DEF LookupInv, PinInv
      <3>2. pinned # None => Current.session \in {expected.id, expected.email}
        BY <2>1, <2>2, <3>1, MatchesSession
      <3> QED BY <2>2, <3>1, <3>2, AccountsAssumption
    <2>10. answers'["rpc"] # "unasked" => Current.user = Current.session
      <3>1. CASE ~team /\ answers' = InFlight(Asked(account))
        <4>1. answers'["rpc"] # "unasked" => Bearer(account)
          BY <3>1 DEF InFlight, Asked, Parts
        <4>2. Bearer(account) => Current.user = i /\ i # None
          BY DEF Bearer
        <4> QED BY <4>1, <4>2
      <3>2. CASE UNCHANGED answers
        BY <3>2 DEF LookupInv, MeInv
      <3> QED BY <2>1, <3>1, <3>2
    <2>11. MeInv'
      BY <1>2, <2>1, <2>2, <2>3, <2>8, <2>9, <2>10 DEF MeInv, auth
    <2> QED BY <2>5, <2>6, <2>7, <2>11 DEF LookupInv
  <1> QED BY <1>3, <1>4

\* The account in use, as a failing request hands it on.
LEMMA MeFacts ==
  ASSUME LookupInv, pc \in {"teams", "parts"}
  PROVE  /\ me \in Reported
         /\ Names2(me) \subseteq {Current.session, Current.user, None}
  BY DEF LookupInv, TypeOK, MeInv, Names2

LEMMA UnknownFacts ==
    /\ Unknown \in Reported
    /\ Names2(Unknown) = {None}
  BY DEF Unknown, Reported, Names, Names2

\* A step of the attempt in use that leaves the credentials and what is known
\* of them alone.
LEMMA SameAttempt ==
  ASSUME LookupInv, pc \notin {"idle", "done"}, UNCHANGED <<auth, attempt>>,
         pc' \notin {"idle", "teams"}, outcome' \in {"none", "usage"},
         pc' = "done" <=> outcome' = "usage",
         pc' \in {"teams", "parts"} => pc \in {"teams", "parts"},
         pc # "me",
         answers'["rpc"] # "unasked" => answers["rpc"] # "unasked"
  PROVE  AuthInv' /\ PinInv' /\ MeInv'
  <1>1. /\ candidates # <<>> /\ outcome = "none" /\ Current' = Current
        /\ UNCHANGED <<candidates, base, team, configured, at, me, expected,
                       rejected, pinned>>
    BY InvFacts DEF auth, attempt, Current
  <1>2. AuthInv'
    BY <1>1 DEF LookupInv, AuthInv, ExplicitStays
  <1>3. PinInv'
    BY <1>1 DEF LookupInv, PinInv, StaleFallsThrough
  <1>4. MeInv'
    <2>1. pc \in {"teams", "parts", "daily"}
      BY DEF LookupInv, TypeOK, Pcs
    <2> QED BY <1>1, <2>1 DEF LookupInv, MeInv
  <1> QED BY <1>2, <1>3, <1>4

LEMMA TeamsInv ==
  ASSUME LookupInv, Teams
  PROVE  LookupInv'
  <1>1. pc = "teams" /\ UNCHANGED <<auth, dailyVars>>
    BY DEF Teams
  <1>2. CASE \E why \in {"rejected", "failed"} : Fail(why, me)
    BY <1>1, <1>2, MeFacts, FailInv
  <1>3. CASE /\ pc' = "parts" /\ answers' = InFlight(Asked(me))
             /\ UNCHANGED <<attempt, member, user, outcome>>
    <2>1. answers'["rpc"] = "unasked"
      BY <1>1, <1>3 DEF LookupInv, MeInv, Asked, InFlight, Parts
    <2>2. TypeOK'
      BY <1>1, <1>3
      DEF LookupInv, TypeOK, Pcs, InFlight, auth, attempt, DailyTypeOK, dailyVars,
          dashboard, sum
    <2>3. outcome' = "none"
      BY <1>1, <1>3, InvFacts
    <2> QED BY <1>1, <1>3, <2>1, <2>2, <2>3, SameAttempt DEF LookupInv
  <1> QED BY <1>2, <1>3 DEF Teams

LEMMA AnswerInv ==
  ASSUME LookupInv, NEW p \in Parts, Answer(p)
  PROVE  LookupInv'
  <1>1. /\ pc = "parts" /\ pc' = pc
        /\ UNCHANGED <<auth, attempt, member, user, outcome, dailyVars>>
    BY DEF Answer
  <1>2. PICK a \in Answered : answers' = [answers EXCEPT ![p] = a]
    BY DEF Answer
  <1>3. answers'["rpc"] # "unasked" => answers["rpc"] # "unasked"
    BY <1>2 DEF Answer, LookupInv, TypeOK, Parts
  <1>4. TypeOK'
    BY <1>1, <1>2
    DEF LookupInv, TypeOK, auth, attempt, DailyTypeOK, dailyVars, dashboard, sum
  <1>5. outcome' = "none"
    BY <1>1, InvFacts
  <1> QED BY <1>1, <1>3, <1>4, <1>5, SameAttempt DEF LookupInv

LEMMA JoinFailsInv ==
  ASSUME LookupInv, JoinFails
  PROVE  LookupInv'
  <1>1. pc = "parts" /\ UNCHANGED <<auth, dailyVars>>
    BY DEF JoinFails, Joined
  <1>2. CASE Fail("rejected", me)
    BY <1>1, <1>2, MeFacts, FailInv
  <1>3. CASE Fail("failed", Unknown)
    BY <1>1, <1>3, UnknownFacts, FailInv
  <1> QED BY <1>2, <1>3 DEF JoinFails

\* The history is asked for.
LEMMA DailyStep ==
  ASSUME LookupInv, pc = "parts", NEW from \in {"none", "details", "row"},
         Daily(from), UNCHANGED auth, member' \in Rows, DailyTypeOK'
  PROVE  LookupInv'
  <1>1. /\ pc' = "daily" /\ user' = from /\ UNCHANGED <<attempt, outcome>>
        /\ answers' = [p \in Parts |-> IF p \in Used THEN answers[p] ELSE "unasked"]
    BY DEF Daily
  <1>2. TypeOK'
    BY <1>1 DEF LookupInv, TypeOK, Pcs, auth, attempt
  <1>3. answers'["rpc"] # "unasked" => answers["rpc"] # "unasked"
    BY <1>1 DEF Parts
  <1>4. outcome' = "none"
    BY <1>1, InvFacts
  <1> QED BY <1>1, <1>2, <1>3, <1>4, SameAttempt DEF LookupInv

LEMMA JoinPersonalInv ==
  ASSUME LookupInv, JoinPersonal, DailyTypeOK'
  PROVE  LookupInv'
  <1>1. pc = "parts" /\ UNCHANGED auth
    BY DEF JoinPersonal, Joined
  <1>2. CASE Fail("failed", Unknown) /\ UNCHANGED dailyVars
    BY <1>1, <1>2, UnknownFacts, FailInv
  <1>3. CASE Daily("none") /\ UNCHANGED member
    BY <1>1, <1>3, DailyStep DEF LookupInv, TypeOK
  <1> QED BY <1>2, <1>3 DEF JoinPersonal

LEMMA JoinTeamInv ==
  ASSUME LookupInv, JoinTeam, DailyTypeOK'
  PROVE  LookupInv'
  <1>1. pc = "parts" /\ UNCHANGED auth /\ member \in Rows
    BY DEF JoinTeam, Joined, LookupInv, TypeOK
  <1>2. \/ Fail("failed", Unknown) /\ UNCHANGED dailyVars
        \/ \E from \in {"none", "details", "row"} : Daily(from) /\ member' \in Rows
    BY <1>1 DEF JoinTeam
  <1>3. CASE Fail("failed", Unknown) /\ UNCHANGED dailyVars
    BY <1>1, <1>3, UnknownFacts, FailInv
  <1> QED BY <1>1, <1>2, <1>3, DailyStep

LEMMA HistoryInv ==
  ASSUME LookupInv, pc = "daily", DailyTypeOK',
         UNCHANGED <<pc, auth, attempt, parts, outcome>>
  PROVE  LookupInv'
  <1>1. TypeOK'
    BY DEF LookupInv, TypeOK, auth, attempt, parts
  <1>2. outcome' = "none" /\ UNCHANGED answers
    BY InvFacts DEF parts
  <1> QED BY <1>1, <1>2, SameAttempt DEF LookupInv

LEMMA ReturnInv ==
  ASSUME LookupInv, Return
  PROVE  LookupInv'
  <1>1. /\ pc = "daily" /\ pc' = "done" /\ outcome' = "usage"
        /\ UNCHANGED <<auth, attempt, parts, dailyVars>>
    BY DEF Return
  <1>2. TypeOK'
    BY <1>1
    DEF LookupInv, TypeOK, Pcs, auth, attempt, parts, DailyTypeOK, dailyVars,
        dashboard, sum
  <1> QED BY <1>1, <1>2, SameAttempt DEF LookupInv, parts

-----------------------------------------------------------------------------
(* The history takes the steps of CursorDaily, and no others. *)

LEMMA DailySame == DailyInv /\ UNCHANGED dailyVars => DailyInv'
  BY DEF DailyInv, DailyTypeOK, ListingInv, PrefixInv, dailyVars, dashboard, sum

LEMMA DailyOnly ==
  ASSUME Next
  PROVE  [DailyNext]_dailyVars
  <1>1. CASE Fetch \/ MeRefused \/ Identify \/ Teams \/ JoinFails \/ Return
             \/ \E p \in Parts : Answer(p)
    <2>0. Fetch => UNCHANGED dailyVars
      BY DEF Fetch, attempt, parts, dailyVars, dashboard, sum
    <2>1. Return => UNCHANGED dailyVars
      BY DEF Return
    <2>2. MeRefused \/ Identify => UNCHANGED dailyVars
      BY DEF MeRefused, Identify
    <2>3. Teams \/ JoinFails => UNCHANGED dailyVars
      BY DEF Teams, JoinFails
    <2>4. (\E p \in Parts : Answer(p)) => UNCHANGED dailyVars
      BY DEF Answer
    <2> QED BY <1>1, <2>0, <2>1, <2>2, <2>3, <2>4
  <1>2. \A from : Daily(from) => DailyNext
    BY DEF Daily, DailyNext
  <1>3. CASE JoinPersonal
    BY <1>2, <1>3 DEF JoinPersonal
  <1>4. CASE JoinTeam
    BY <1>2, <1>4 DEF JoinTeam
  <1>5. CASE History \/ LateEvent
    BY <1>5 DEF History, LateEvent, DailyNext
  <1> QED BY <1>1, <1>3, <1>4, <1>5 DEF Next, Progress

LEMMA DailyStepInv == DailyInv /\ [DailyNext]_dailyVars => DailyInv'
  BY DailySame, StartDailyInv, SkipDailyInv, ArriveInv, ReadPageInv, PageFailsInv
  DEF DailyNext

LEMMA DailyPart ==
  ASSUME Inv, Next
  PROVE  DailyInv'
  BY DailyOnly, DailyStepInv DEF Inv

-----------------------------------------------------------------------------
(* What a usage is made of. *)

\* A row that is found is one that the team's spend has.
LEMMA FoundRow ==
  ASSUME NEW row \in Rows, NEW userKnown \in BOOLEAN, RowMatches(row, userKnown)
  PROVE  row # NoRow /\ (userKnown => row.id # "other")
  BY DEF Rows, RowMatches, NoRow

\* An attempt that failed leaves no part of it behind.
LEMMA FailParts ==
  ASSUME NEW why, NEW account, Fail(why, account), pc \notin {"daily", "done"},
         outcome = "none"
  PROVE  PartsInv'
  <1>1. /\ answers' = Unasked /\ member' = NoRow /\ user' = "none"
        /\ \/ pc' = "me"
           \/ pc' = "done" /\ outcome' = "error"
    BY DEF Fail
  <1>2. ~Complete'
    BY <1>1 DEF Complete
  <1> QED BY <1>1, <1>2 DEF PartsInv, TeamScoped, OwnRow

\* A step that comes before the usage is complete.
LEMMA IncompleteParts ==
  ASSUME PartsInv, ~Complete, ~Complete', UNCHANGED <<member, user>>,
         pc' \in {"idle", "me", "teams"} => answers' = Unasked
  PROVE  PartsInv'
  BY DEF PartsInv, TeamScoped, OwnRow

\* A step that leaves a complete usage alone.
LEMMA CompleteParts ==
  ASSUME PartsInv, Complete, Complete', UNCHANGED <<auth, parts>>
  PROVE  PartsInv'
  <1>1. pc' \in {"daily", "done"} /\ UNCHANGED <<team, answers, member, user>>
    BY DEF Complete, auth, parts
  <1> QED BY <1>1 DEF PartsInv, TeamScoped, OwnRow

\* The usage becomes complete: what is not used is dropped.
LEMMA DailyParts ==
  ASSUME LookupInv, PartsInv, pc = "parts", NEW from \in {"none", "details", "row"},
         Daily(from), UNCHANGED auth, ~Mismatched,
         team => "summary" \in Used \/ member' # NoRow,
         from = "details" => member'.id # "other"
  PROVE  PartsInv'
  <1>1. /\ pc' = "daily" /\ user' = from /\ team' = team
        /\ answers' = [p \in Parts |-> IF p \in Used THEN answers[p] ELSE "unasked"]
        /\ outcome' = "none"
    BY InvFacts DEF Daily, auth
  <1>2. Complete'
    BY <1>1 DEF Complete
  <1>3. OwnRow'
    BY <1>1 DEF OwnRow
  <1>4. TeamScoped'
    <2> SUFFICES ASSUME team PROVE TeamScoped'
      BY <1>1 DEF TeamScoped
    <2>1. Used = {p \in {"details", "spend", "summary"} : Scoped(p)}
      BY DEF Used
    <2>2. \A p \in Parts : answers'[p] = IF p \in Used THEN answers[p] ELSE "unasked"
      BY <1>1
    <2>3. \A p \in {"rpc", "requests"} : answers'[p] = "unasked"
      BY <2>1, <2>2 DEF Parts
    <2>4. \A p \in {"details", "spend"} :
            answers'[p] \in {"declared", "silent", "unasked"}
      BY <2>1, <2>2 DEF Parts, Scoped
    <2>5. \/ answers'["summary"] = "declared"
          \/ answers'["summary"] = "unasked" /\ "summary" \notin Used
      BY <2>1, <2>2 DEF Parts, Scoped
    <2> QED BY <2>3, <2>4, <2>5 DEF TeamScoped
  <1> QED BY <1>1, <1>2, <1>3, <1>4 DEF PartsInv

LEMMA JoinTeamParts ==
  ASSUME LookupInv, PartsInv, JoinTeam
  PROVE  PartsInv'
  <1>1. /\ pc = "parts" /\ team /\ ~Mismatched /\ UNCHANGED auth
        /\ outcome = "none" /\ ~Complete /\ member = NoRow
    <2>1. pc = "parts" /\ team /\ ~Mismatched /\ UNCHANGED auth
      BY DEF JoinTeam, Joined
    <2> QED BY <2>1, InvFacts DEF Complete, PartsInv
  <1>2. PICK userKnown \in BOOLEAN, twice \in BOOLEAN, row \in Rows :
          LET found == "spend" \in Used /\ RowMatches(row, userKnown) IN
            \/ Fail("failed", Unknown)
            \/ /\ ~found /\ "summary" \in Used
               /\ UNCHANGED member
               /\ Daily(IF userKnown THEN "details" ELSE "none")
            \/ /\ found
               /\ member' = row
               /\ Daily(IF userKnown THEN "details"
                        ELSE IF row.id # "none" THEN "row" ELSE "none")
    BY DEF JoinTeam
  <1>3. CASE Fail("failed", Unknown)
    BY <1>1, <1>3, FailParts
  <1>4. CASE /\ "summary" \in Used
             /\ UNCHANGED member
             /\ Daily(IF userKnown THEN "details" ELSE "none")
    <2>1. member'.id # "other"
      BY <1>1, <1>4 DEF NoRow
    <2> QED BY <1>1, <1>4, <2>1, DailyParts
  <1>5. CASE /\ RowMatches(row, userKnown)
             /\ member' = row
             /\ Daily(IF userKnown THEN "details"
                      ELSE IF row.id # "none" THEN "row" ELSE "none")
    <2> DEFINE from == IF userKnown THEN "details"
                       ELSE IF row.id # "none" THEN "row" ELSE "none"
    <2>1. from \in {"none", "details", "row"} /\ (from = "details" => userKnown)
      OBVIOUS
    <2>2. member' # NoRow /\ (from = "details" => member'.id # "other")
      BY <1>5, <2>1, FoundRow
    <2> HIDE DEF from
    <2>3. Daily(from)
      BY <1>5 DEF from
    <2> QED BY <1>1, <2>1, <2>2, <2>3, DailyParts
  <1> QED BY <1>2, <1>3, <1>4, <1>5

LEMMA JoinPersonalParts ==
  ASSUME LookupInv, PartsInv, JoinPersonal
  PROVE  PartsInv'
  <1>1. /\ pc = "parts" /\ ~team /\ ~Mismatched /\ UNCHANGED auth
        /\ outcome = "none"
    <2>1. pc = "parts" /\ ~team /\ UNCHANGED auth
      BY DEF JoinPersonal, Joined
    <2> QED BY <2>1, InvFacts DEF Mismatched
  <1>2. CASE Fail("failed", Unknown)
    BY <1>1, <1>2, FailParts
  <1>3. CASE Daily("none")
    BY <1>1, <1>3, DailyParts
  <1> QED BY <1>2, <1>3 DEF JoinPersonal

LEMMA PartsPart ==
  ASSUME LookupInv, PartsInv, Next
  PROVE  PartsInv'
  <1>1. CASE Fetch
    <2>1. /\ pc = "idle" /\ UNCHANGED parts
          /\ pc' = "me" \/ (pc' = "done" /\ outcome' = "error")
      BY <1>1 DEF Fetch
    <2> QED BY <2>1, IncompleteParts DEF Complete, parts, PartsInv
  <1>2. CASE MeRefused
    <2>1. pc = "me" /\ outcome = "none"
      BY <1>2, InvFacts DEF MeRefused
    <2> QED BY <1>2, <2>1, FailParts DEF MeRefused
  <1>3. CASE Identify
    <2>1. pc = "me" /\ outcome = "none"
      BY <1>3, InvFacts DEF Identify
    <2>2. \/ \E why \in {"alternate", "mismatch"} : Fail(why, Unknown)
          \/ /\ (pc' = "teams" /\ UNCHANGED answers) \/ pc' = "parts"
             /\ UNCHANGED <<member, user>>
      BY <1>3 DEF Identify
    <2> QED BY <2>1, <2>2, FailParts, IncompleteParts DEF Complete, PartsInv
  <1>4. CASE Teams
    <2>1. pc = "teams" /\ outcome = "none"
      BY <1>4, InvFacts DEF Teams
    <2>2. \/ \E why \in {"rejected", "failed"} : Fail(why, me)
          \/ pc' = "parts" /\ UNCHANGED <<member, user>>
      BY <1>4 DEF Teams
    <2> QED BY <2>1, <2>2, FailParts, IncompleteParts DEF Complete
  <1>5. CASE \E p \in Parts : Answer(p)
    <2>1. pc = "parts" /\ pc' = "parts" /\ UNCHANGED <<member, user>>
      BY <1>5 DEF Answer
    <2> QED BY <2>1, IncompleteParts DEF Complete
  <1>6. CASE JoinFails
    <2>1. pc = "parts" /\ outcome = "none"
      BY <1>6, InvFacts DEF JoinFails, Joined
    <2> QED BY <1>6, <2>1, FailParts DEF JoinFails
  <1>7. CASE JoinPersonal
    BY <1>7, JoinPersonalParts
  <1>8. CASE JoinTeam
    BY <1>8, JoinTeamParts
  <1>9. CASE History \/ LateEvent \/ Return
    <2>1. /\ pc = "daily" /\ outcome = "none" /\ UNCHANGED <<auth, parts>>
          /\ (pc' = pc /\ outcome' = outcome) \/ (pc' = "done" /\ outcome' = "usage")
      BY <1>9, InvFacts DEF History, LateEvent, Return
    <2> QED BY <2>1, CompleteParts DEF Complete
  <1> QED BY <1>1, <1>2, <1>3, <1>4, <1>5, <1>6, <1>7, <1>8, <1>9
      DEF Next, Progress

-----------------------------------------------------------------------------
(* How much of a lookup is left. *)

LEMMA PagesPart ==
  ASSUME PagesInv, DailyInv, Next
  PROVE  PagesInv'
  <1>1. CASE UNCHANGED <<reading, page>> /\ pc \notin {"daily", "done"}
    BY <1>1 DEF PagesInv
  <1>2. CASE pc' \in {"daily", "done"} /\ UNCHANGED dailyVars
    BY <1>2 DEF PagesInv, dailyVars, sum
  <1>3. \A from : pc \notin {"daily", "done"} /\ Daily(from) => PagesInv'
    <2> SUFFICES ASSUME NEW from, pc \notin {"daily", "done"}, Daily(from)
                 PROVE  PagesInv'
      OBVIOUS
    <2>1. pc' = "daily" /\ page' = 1
      BY DEF Daily, SkipDaily, StartDaily, sum, PagesInv, DailyInv, PrefixInv
    <2> QED BY <2>1, DailyAssumption DEF PagesInv
  <1>4. CASE pc = "daily" /\ pc' = "daily" /\ (ReadPage \/ PageFails \/ Arrive)
    <2>1. CASE PageFails
      BY <1>4, <2>1 DEF PageFails, PagesInv
    <2>2. CASE Arrive
      BY <1>4, <2>2 DEF Arrive, PagesInv, sum
    <2>3. CASE ReadPage
      <3> SUFFICES ASSUME reading' = "pages" PROVE page' <= MaxPages
        BY <1>4 DEF PagesInv
      <3>1. page' = page + 1 /\ page # MaxPages
        BY <2>3 DEF ReadPage
      <3>2. page \in Nat /\ page <= MaxPages
        BY <2>3 DEF ReadPage, PagesInv, DailyInv, DailyTypeOK
      <3> QED BY <3>1, <3>2, DailyAssumption
    <2> QED BY <1>4, <2>1, <2>2, <2>3
  <1>5. CASE Fetch \/ MeRefused \/ Identify
    <2>1. Fetch => pc = "idle" /\ UNCHANGED dailyVars
      BY DEF Fetch, attempt, parts, dailyVars, dashboard, sum
    <2>2. MeRefused \/ Identify => pc = "me" /\ UNCHANGED dailyVars
      BY DEF MeRefused, Identify
    <2> QED BY <1>1, <1>5, <2>1, <2>2 DEF dailyVars, sum
  <1>6. CASE Teams \/ JoinFails \/ (\E p \in Parts : Answer(p))
    <2>1. pc \in {"teams", "parts"} /\ UNCHANGED dailyVars
      BY <1>6 DEF Teams, JoinFails, Joined, Answer
    <2> QED BY <1>1, <2>1 DEF dailyVars, sum
  <1>7. CASE JoinPersonal
    <2>1. pc = "parts" /\ (UNCHANGED dailyVars \/ Daily("none"))
      BY <1>7 DEF JoinPersonal, Joined
    <2> QED BY <1>1, <1>3, <2>1 DEF dailyVars, sum
  <1>8. CASE JoinTeam
    <2>1. pc = "parts" /\ (UNCHANGED dailyVars \/ \E from : Daily(from))
      BY <1>8 DEF JoinTeam, Joined
    <2> QED BY <1>1, <1>3, <2>1 DEF dailyVars, sum
  <1>9. CASE History \/ LateEvent
    BY <1>4, <1>9 DEF History, LateEvent
  <1>10. CASE Return
    BY <1>2, <1>10 DEF Return
  <1> QED BY <1>1, <1>5, <1>6, <1>7, <1>8, <1>9, <1>10 DEF Next, Progress

InFlightParts == {p \in Parts : answers[p] = "asked"}

LEMMA PartsFinite == IsFiniteSet(Parts) /\ Cardinality(Parts) = 5
  <1> DEFINE P0 == {}
             P1 == P0 \union {"summary"}
             P2 == P1 \union {"rpc"}
             P3 == P2 \union {"requests"}
             P4 == P3 \union {"details"}
             P5 == P4 \union {"spend"}
  <1>0. IsFiniteSet(P0) /\ Cardinality(P0) = 0
    BY FS_EmptySet
  <1>1. IsFiniteSet(P1) /\ Cardinality(P1) = 1
    BY <1>0, FS_AddElement
  <1>2. "rpc" \notin P1 /\ "requests" \notin P2 /\ "details" \notin P3
        /\ "spend" \notin P4
    OBVIOUS
  <1>3. IsFiniteSet(P2) /\ Cardinality(P2) = 2
    <2> HIDE DEF P1
    <2> QED BY <1>1, <1>2, FS_AddElement
  <1>4. IsFiniteSet(P3) /\ Cardinality(P3) = 3
    <2> HIDE DEF P2
    <2> QED BY <1>3, <1>2, FS_AddElement
  <1>5. IsFiniteSet(P4) /\ Cardinality(P4) = 4
    <2> HIDE DEF P3
    <2> QED BY <1>4, <1>2, FS_AddElement
  <1>6. IsFiniteSet(P5) /\ Cardinality(P5) = 5
    <2> HIDE DEF P4
    <2> QED BY <1>5, <1>2, FS_AddElement
  <1>7. Parts = P5
    BY DEF Parts
  <1> HIDE DEF P5
  <1> QED BY <1>6, <1>7

\* At most the five parts are in flight.
LEMMA InFlightFew ==
  /\ IsFiniteSet(InFlightParts) /\ Cardinality(InFlightParts) \in 0..5
  <1>1. InFlightParts \in SUBSET Parts
    BY DEF InFlightParts
  <1>2. IsFiniteSet(InFlightParts) /\ Cardinality(InFlightParts) <= Cardinality(Parts)
    BY <1>1, PartsFinite, FS_Subset
  <1>3. Cardinality(InFlightParts) \in Nat
    BY <1>2, FS_CardinalityType
  <1> QED BY <1>2, <1>3, PartsFinite

LEMMA InFlightFewLater == Cardinality(InFlightParts') \in 0..5
  <1>1. InFlightParts' \in SUBSET Parts
    BY DEF InFlightParts
  <1>2. IsFiniteSet(InFlightParts') /\ Cardinality(InFlightParts') <= Cardinality(Parts)
    BY <1>1, PartsFinite, FS_Subset
  <1>3. Cardinality(InFlightParts') \in Nat
    BY <1>2, FS_CardinalityType
  <1> QED BY <1>2, <1>3, PartsFinite

\* One part is answered: one fewer is in flight.
LEMMA AnswerFewer ==
  ASSUME TypeOK, NEW p \in Parts, Answer(p)
  PROVE  Cardinality(InFlightParts') = Cardinality(InFlightParts) - 1
  <1>1. PICK a \in Answered : answers' = [answers EXCEPT ![p] = a]
    BY DEF Answer
  <1>2. a # "asked"
    BY DEF Answered
  <1>3. InFlightParts' = InFlightParts \ {p}
    BY <1>1, <1>2 DEF InFlightParts, TypeOK
  <1>4. p \in InFlightParts
    BY DEF Answer, InFlightParts
  <1>5. IsFiniteSet(InFlightParts)
    BY InFlightFew
  <1> HIDE DEF InFlightParts
  <1> QED BY <1>3, <1>4, <1>5, FS_RemoveElement

\* The stages of an attempt, in the order they come in.
LEMMA StageIs ==
  /\ pc = "me" => Stage = MaxPages + 10
  /\ pc = "teams" => Stage = MaxPages + 9
  /\ pc = "parts" => Stage = MaxPages + 3 + Cardinality(InFlightParts)
  /\ pc = "daily" => Stage = IF reading = "pages" THEN MaxPages + 2 - page ELSE 1
  /\ pc = "done" => Stage = 0
  BY DEF Stage, InFlightParts

LEMMA StageBounds ==
  ASSUME Inv
  PROVE  /\ pc = "parts" => Stage \in (MaxPages + 3)..(MaxPages + 8)
         /\ pc = "daily" => Stage \in 1..(MaxPages + 1)
  <1>1. MaxPages \in Nat /\ page \in Nat /\ page # 0
    BY DailyAssumption DEF Inv, DailyInv, DailyTypeOK, PrefixInv
  <1>2. reading = "pages" => page <= MaxPages
    BY DEF Inv, PagesInv
  <1>3. Cardinality(InFlightParts) \in 0..5
    BY InFlightFew
  <1> HIDE DEF InFlightParts
  <1> QED BY <1>1, <1>2, <1>3, StageIs

LEMMA LeftTyped ==
  ASSUME LookupInv, pc \notin {"idle", "done"}
  PROVE  Left \in Nat /\ Len(candidates) \in Nat /\ at \in 1..Len(candidates)
  <1>1. candidates \in Seq(Credentials) /\ at \in 1..Len(candidates)
    BY InvFacts DEF LookupInv, TypeOK
  <1> QED BY <1>1 DEF Left

Less == Left' < Left \/ (Left' = Left /\ Stage' < Stage)

\* An attempt that fails takes a credential, or ends the lookup.
LEMMA FailAdvances ==
  ASSUME Inv, pc \in {"me", "teams", "parts"}, NEW why, NEW account,
         Fail(why, account), UNCHANGED auth
  PROVE  Less
  <1>1. candidates' = candidates /\ at \in Nat /\ Len(candidates) \in Nat
    BY LeftTyped DEF auth, Inv
  <1>2. CASE More /\ Retries(why)
    <2>1. at' = at + 1
      BY <1>2 DEF Fail
    <2> QED BY <1>1, <2>1 DEF Less, Left
  <1>3. CASE ~(More /\ Retries(why))
    <2>1. pc' = "done" /\ at' = at
      BY <1>3 DEF Fail
    <2>2. Left' = Left
      BY <1>1, <2>1 DEF Left
    <2>3. Stage' = 0
      BY <2>1 DEF Stage
    <2>4. Stage > 0
      BY StageBounds, StageIs, DailyAssumption
    <2> QED BY <2>2, <2>3, <2>4 DEF Less
  <1> QED BY <1>2, <1>3

\* The usage becomes complete: at most the pages are left.
LEMMA DailyAdvances ==
  ASSUME Inv, Inv', pc = "parts", NEW from, Daily(from), UNCHANGED auth
  PROVE  Less
  <1>1. pc' = "daily" /\ UNCHANGED <<candidates, at>>
    BY DEF Daily, auth, attempt
  <1>2. Left' = Left
    BY <1>1 DEF Left
  <1>3. Stage' \in 1..(MaxPages + 1)
    <2>1. page' \in Nat /\ page' # 0 /\ (reading' = "pages" => page' <= MaxPages)
      BY DEF Inv, DailyInv, DailyTypeOK, PrefixInv, PagesInv
    <2>2. Stage' = IF reading' = "pages" THEN MaxPages + 2 - page' ELSE 1
      BY <1>1 DEF Stage
    <2>3. MaxPages \in Nat \ {0}
      BY DailyAssumption
    <2>4. CASE reading' = "pages"
      <3>1. page' \in 1..MaxPages /\ Stage' = MaxPages + 2 - page'
        BY <2>1, <2>2, <2>3, <2>4
      <3>2. \A n \in Nat \ {0} : \A p \in 1..n : n + 2 - p \in 1..(n + 1)
        OBVIOUS
      <3> QED BY <2>3, <3>1, <3>2
    <2>5. CASE reading' # "pages"
      BY <2>2, <2>3, <2>5
    <2> QED BY <2>4, <2>5
  <1>4. Stage \in (MaxPages + 3)..(MaxPages + 8)
    BY StageBounds
  <1>5. Stage' < Stage
    BY <1>3, <1>4, DailyAssumption
  <1> QED BY <1>2, <1>5 DEF Less

LEMMA ProgressAdvances ==
  ASSUME Inv, Inv', Progress
  PROVE  Less
  <1> USE DailyAssumption
  <1>1. CASE MeRefused
    BY <1>1, FailAdvances DEF MeRefused
  <1>2. CASE Identify
    <2>1. pc = "me" /\ UNCHANGED auth
      BY <1>2 DEF Identify
    <2>2. \/ \E why : Fail(why, Unknown)
          \/ pc' \in {"teams", "parts"} /\ UNCHANGED at
      BY <1>2 DEF Identify
    <2>3. CASE \E why : Fail(why, Unknown)
      BY <2>1, <2>3, FailAdvances
    <2>4. CASE pc' \in {"teams", "parts"} /\ UNCHANGED at
      <3>1. Left' = Left
        BY <2>1, <2>4 DEF Left, auth
      <3>2. Stage = MaxPages + 10
        BY <2>1, StageIs
      <3>3. pc' = "parts" => Stage' = MaxPages + 3 + Cardinality(InFlightParts')
        BY DEF Stage, InFlightParts
      <3>4. pc' = "teams" => Stage' = MaxPages + 9
        BY DEF Stage
      <3>5. Cardinality(InFlightParts') \in 0..5
        BY InFlightFewLater
      <3> HIDE DEF InFlightParts
      <3> QED BY <2>4, <3>1, <3>2, <3>3, <3>4, <3>5 DEF Less
    <2> QED BY <2>2, <2>3, <2>4
  <1>3. CASE Teams
    <2>1. pc = "teams" /\ UNCHANGED auth
      BY <1>3 DEF Teams
    <2>2. \/ \E why : Fail(why, me)
          \/ pc' = "parts" /\ UNCHANGED at
      BY <1>3 DEF Teams, attempt
    <2>3. CASE \E why : Fail(why, me)
      BY <2>1, <2>3, FailAdvances
    <2>4. CASE pc' = "parts" /\ UNCHANGED at
      <3>1. Left' = Left
        BY <2>1, <2>4 DEF Left, auth
      <3>2. Stage = MaxPages + 9
        BY <2>1, StageIs
      <3>3. Stage' = MaxPages + 3 + Cardinality(InFlightParts')
        BY <2>4 DEF Stage, InFlightParts
      <3>4. Cardinality(InFlightParts') \in 0..5
        BY InFlightFewLater
      <3> HIDE DEF InFlightParts
      <3> QED BY <3>1, <3>2, <3>3, <3>4 DEF Less
    <2> QED BY <2>2, <2>3, <2>4
  <1>4. CASE \E p \in Parts : Answer(p)
    <2>1. PICK p \in Parts : Answer(p)
      BY <1>4
    <2>2. pc = "parts" /\ pc' = "parts" /\ UNCHANGED <<candidates, at>>
      BY <2>1 DEF Answer, auth, attempt
    <2>3. Left' = Left
      BY <2>2 DEF Left
    <2>4. Cardinality(InFlightParts') = Cardinality(InFlightParts) - 1
      BY <2>1, AnswerFewer DEF Inv, LookupInv
    <2>5. Stage = MaxPages + 3 + Cardinality(InFlightParts)
      BY <2>2, StageIs
    <2>6. Stage' = MaxPages + 3 + Cardinality(InFlightParts')
      BY <2>2 DEF Stage, InFlightParts
    <2>7. Cardinality(InFlightParts) \in 0..5
      BY InFlightFew
    <2> HIDE DEF InFlightParts
    <2> QED BY <2>3, <2>4, <2>5, <2>6, <2>7 DEF Less
  <1>5. CASE JoinFails
    <2>1. pc = "parts" /\ UNCHANGED auth
      BY <1>5 DEF JoinFails, Joined
    <2> QED BY <1>5, <2>1, FailAdvances DEF JoinFails
  <1>6. CASE JoinPersonal
    <2>1. pc = "parts" /\ UNCHANGED auth
      BY <1>6 DEF JoinPersonal, Joined
    <2> QED BY <1>6, <2>1, FailAdvances, DailyAdvances DEF JoinPersonal
  <1>7. CASE JoinTeam
    <2>1. pc = "parts" /\ UNCHANGED auth
      BY <1>7 DEF JoinTeam, Joined
    <2>2. (\E why : Fail(why, Unknown)) \/ \E from : Daily(from)
      BY <1>7 DEF JoinTeam
    <2> QED BY <2>1, <2>2, FailAdvances, DailyAdvances
  <1>8. CASE History
    <2>1. pc = "daily" /\ pc' = "daily" /\ UNCHANGED <<candidates, at>>
          /\ reading = "pages"
      BY <1>8 DEF History, auth, attempt, ReadPage, PageFails
    <2>2. Left' = Left
      BY <2>1 DEF Left
    <2>3. Stage = MaxPages + 2 - page
      BY <2>1, StageIs
    <2>4. Stage' = IF reading' = "pages" THEN MaxPages + 2 - page' ELSE 1
      BY <2>1 DEF Stage
    <2>5. page \in Nat /\ page <= MaxPages
      BY <2>1 DEF Inv, PagesInv, DailyInv, DailyTypeOK
    <2>6. reading' = "pages" => page' = page + 1
      BY <1>8 DEF History, ReadPage, PageFails
    <2>7. Stage' < Stage
      BY <2>3, <2>4, <2>5, <2>6
    <2> QED BY <2>2, <2>7 DEF Less
  <1>9. CASE Return
    <2>1. pc = "daily" /\ pc' = "done" /\ UNCHANGED <<candidates, at>>
      BY <1>9 DEF Return, auth, attempt
    <2>2. Left' = Left /\ Stage' = 0
      BY <2>1 DEF Left, Stage
    <2>3. Stage > 0
      BY <2>1, StageBounds
    <2> QED BY <2>2, <2>3 DEF Less
  <1> QED BY <1>1, <1>2, <1>3, <1>4, <1>5, <1>6, <1>7, <1>8, <1>9 DEF Progress

LEMMA LateEventAdvances ==
  ASSUME LateEvent
  PROVE  Left' = Left /\ Stage' = Stage
  <1>1. /\ pc = "daily" /\ pc' = "daily"
        /\ UNCHANGED <<candidates, at, reading, page>>
    BY DEF LateEvent, Arrive, auth, attempt, sum
  <1> QED BY <1>1 DEF Left, Stage

-----------------------------------------------------------------------------
(* The invariant, and what follows from it. *)

LEMMA InitInv == Init => Inv
  <1> SUFFICES ASSUME Init PROVE Inv
    OBVIOUS
  <1>1. DailyInv
    BY DailyStarts DEF Init
  <1>2. TypeOK
    <2>1. /\ me \in Reported /\ expected \in Reported /\ pinned \in Names
      BY UnknownFacts DEF Init, Names
    <2>2. answers \in [Parts -> Answered \union {"unasked", "asked"}]
      BY DEF Init, Unasked
    <2>3. member \in Rows /\ base \in Reported \union {NoBase} /\ pc \in Pcs
      BY DEF Init, NoRow, Rows, Pcs
    <2>4. candidates \in Seq(Credentials) /\ candidates = <<>> /\ at \in Nat
      BY DEF Init
    <2> QED BY <1>1, <2>1, <2>2, <2>3, <2>4 DEF Init, TypeOK, DailyInv
  <1>3. AuthInv
    BY DEF Init, AuthInv, ExplicitStays
  <1>4. PinInv
    BY DEF Init, PinInv, StaleFallsThrough, Unknown
  <1>5. MeInv
    BY DEF Init, MeInv, Unasked, Parts
  <1>6. PartsInv
    BY DEF Init, PartsInv, TeamScoped, OwnRow, Complete
  <1>7. PagesInv
    BY DEF Init, DailyInit, PagesInv
  <1> QED BY <1>1, <1>2, <1>3, <1>4, <1>5, <1>6, <1>7 DEF Inv, LookupInv

LEMMA StutterInv ==
  ASSUME LookupInv, UNCHANGED vars
  PROVE  LookupInv'
  <1>1. TypeOK'
    BY DEF LookupInv, TypeOK, DailyTypeOK, vars, auth, attempt, parts, dailyVars,
           dashboard, sum
  <1>2. AuthInv' /\ PinInv'
    BY DEF LookupInv, AuthInv, ExplicitStays, PinInv, StaleFallsThrough, vars, auth,
           attempt
  <1>3. MeInv'
    BY DEF LookupInv, MeInv, Current, vars, auth, attempt, parts
  <1> QED BY <1>1, <1>2, <1>3 DEF LookupInv

LEMMA StutterParts ==
  ASSUME PartsInv, UNCHANGED vars
  PROVE  PartsInv'
  <1>1. UNCHANGED <<pc, team, answers, member, user, outcome>>
    BY DEF vars, auth, parts
  <1> QED BY <1>1 DEF PartsInv, TeamScoped, OwnRow, Complete

LEMMA StutterPages ==
  ASSUME PagesInv, UNCHANGED vars
  PROVE  PagesInv'
  <1>1. UNCHANGED <<pc, reading, page>>
    BY DEF vars, dailyVars, sum
  <1> QED BY <1>1 DEF PagesInv

LEMMA StepInv == Inv /\ [Next]_vars => Inv'
  <1> SUFFICES ASSUME Inv, [Next]_vars PROVE Inv'
    OBVIOUS
  <1> USE DEF Inv
  <1>1. CASE UNCHANGED vars
    BY <1>1, StutterInv, StutterParts, StutterPages, DailySame DEF vars
  <1>2. CASE Next
    <2>1. DailyInv' /\ DailyTypeOK' /\ PartsInv' /\ PagesInv'
      BY <1>2, DailyPart, PartsPart, PagesPart DEF DailyInv
    <2>2. CASE Fetch
      BY <2>1, <2>2, FetchInv
    <2>3. CASE LateEvent
      BY <2>1, <2>3, HistoryInv DEF LateEvent
    <2>4. CASE MeRefused
      BY <2>1, <2>4, MeRefusedInv
    <2>5. CASE Identify
      BY <2>1, <2>5, IdentifyInv
    <2>6. CASE Teams
      BY <2>1, <2>6, TeamsInv
    <2>7. CASE \E p \in Parts : Answer(p)
      BY <2>1, <2>7, AnswerInv
    <2>8. CASE JoinFails
      BY <2>1, <2>8, JoinFailsInv
    <2>9. CASE JoinPersonal
      BY <2>1, <2>9, JoinPersonalInv
    <2>10. CASE JoinTeam
      BY <2>1, <2>10, JoinTeamInv
    <2>11. CASE History
      BY <2>1, <2>11, HistoryInv DEF History
    <2>12. CASE Return
      BY <2>1, <2>12, ReturnInv
    <2> QED BY <1>2, <2>2, <2>3, <2>4, <2>5, <2>6, <2>7, <2>8, <2>9, <2>10,
               <2>11, <2>12 DEF Next, Progress
  <1> QED BY <1>1, <1>2

\* The inductive invariant of a lookup, for any credentials.
THEOREM InvHolds == Spec => []Inv
  BY InitInv, StepInv, PTL DEF Spec

\* Every state of a lookup and of its history has its type.
THEOREM TypeOKHolds == Spec => []TypeOK
  <1>1. Inv => TypeOK
    BY DEF Inv, LookupInv
  <1> QED BY <1>1, InvHolds, PTL

\* fetchWithAuth: every part of a usage is of the account whose session it is.
THEOREM OneAccountHolds == Spec => []OneAccount
  <1>1. Inv => OneAccount
    BY DEF Inv, LookupInv, TypeOK, MeInv, OneAccount, Of, Used
  <1> QED BY <1>1, InvHolds, PTL

\* cursorClient: CodexBar's usage is enriched only by the account it is of.
THEOREM BaseAccountHolds == Spec => []BaseAccount
  <1>1. Inv => BaseAccount
    BY DEF Inv, LookupInv, TypeOK, AuthInv, MeInv, BaseAccount, Complete
  <1> QED BY <1>1, InvHolds, PTL

\* cursorAuthFallbackError: an alternate is of the account that was rejected.
THEOREM PinnedAccountHolds == Spec => []PinnedAccount
  <1>1. Inv => PinnedAccount
    BY DEF Inv, LookupInv, TypeOK, AuthInv, MeInv, PinnedAccount, Complete
  <1> QED BY <1>1, InvHolds, PTL

\* loadCursorAuth: a configured credential is never replaced by a local one.
THEOREM ExplicitStaysHolds == Spec => []ExplicitStays
  <1>1. Inv => ExplicitStays
    BY DEF Inv, LookupInv, AuthInv
  <1> QED BY <1>1, InvHolds, PTL

\* loadCursorAuth: a rejected session falls through to every other.
THEOREM StaleFallsThroughHolds == Spec => []StaleFallsThrough
  <1>1. Inv => StaleFallsThrough
    BY DEF Inv, LookupInv, PinInv
  <1> QED BY <1>1, InvHolds, PTL

\* cursorTeamSelectionError: a selected team's usage is that team's.
THEOREM TeamScopedHolds == Spec => []TeamScoped
  <1>1. Inv => TeamScoped
    BY DEF Inv, PartsInv
  <1> QED BY <1>1, InvHolds, PTL

\* cursorTeamMember: a row with another member's id is never taken as this
\* user's.
THEOREM OwnRowHolds == Spec => []OwnRow
  <1>1. Inv => OwnRow
    BY DEF Inv, PartsInv
  <1> QED BY <1>1, InvHolds, PTL

\* fetchDailyUsage is called at most once in a lookup, whatever credentials are
\* tried, and what a lookup does besides leaves its history alone.
THEOREM FollowsDaily == Spec => DailySpec
  <1>1. Init => DailyInit
    BY DEF Init
  <1>2. [Next]_vars => [DailyNext]_dailyVars
    BY DailyOnly DEF vars
  <1> QED BY <1>1, <1>2, PTL DEF Spec, DailySpec

\* fetchDailyUsage: a day's sum went through every event listed exactly once.
THEOREM DailyCompleteInFetch == Spec => []DailyComplete
  <1>1. Inv => DailyComplete
    BY DailyCompleteHolds DEF Inv
  <1> QED BY <1>1, InvHolds, PTL

\* fetch, fetchDailyUsage: what a lookup has before it gets less with each of
\* its steps, and no event that is listed late adds to it.
THEOREM AdvancesHolds == Spec => Advances
  <1>1. Inv /\ Inv' /\ [Next]_vars =>
          [/\ Progress => Left' < Left \/ (Left' = Left /\ Stage' < Stage)
           /\ LateEvent => Left' = Left /\ Stage' = Stage]_vars
    BY ProgressAdvances, LateEventAdvances DEF Less
  <1> QED BY <1>1, InvHolds, PTL DEF Spec, Advances

\* Both measures are natural numbers as long as the lookup goes on, so that
\* only finitely many steps are before it.
THEOREM MeasuresTyped ==
  Spec => [](pc \notin {"idle", "done"} => Left \in Nat /\ Stage \in Nat)
  <1>1. Inv => (pc \notin {"idle", "done"} => Left \in Nat /\ Stage \in Nat)
    <2> SUFFICES ASSUME Inv, pc \notin {"idle", "done"}
                 PROVE  Left \in Nat /\ Stage \in Nat
      OBVIOUS
    <2>1. Left \in Nat
      BY LeftTyped DEF Inv
    <2>2. pc \in {"me", "teams", "parts", "daily"}
      BY DEF Inv, LookupInv, TypeOK, Pcs
    <2>3. Stage \in Nat
      BY <2>2, StageIs, StageBounds, DailyAssumption
    <2> QED BY <2>1, <2>3
  <1> QED BY <1>1, InvHolds, PTL
================================================================================
