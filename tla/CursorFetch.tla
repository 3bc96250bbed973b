------------------------------ MODULE CursorFetch ------------------------------
(***************************************************************************)
(* One lookup of Cursor's usage (src/server/cursor.go, cursor_auth.go,     *)
(* cursor_team.go), with the day's spend of CursorDaily: a credential is   *)
(* chosen, it says whose it is, its usage is requested in parts that are   *)
(* in flight together, and a rejection at any of them turns to the next    *)
(* credential.                                                             *)
(*                                                                         *)
(* A credential is a Cookie header: the account whose session it is, the   *)
(* user its token names (a pasted header can carry another user's), and    *)
(* whether a bearer token could be extracted.  An account as Cursor or     *)
(* CodexBar reports it is an id and an e-mail, each possibly missing.      *)
(***************************************************************************)
EXTENDS CursorDaily, FiniteSets

CONSTANTS
    Accounts,       \* Cursor accounts
    None,           \* no account, a missing id or e-mail
    Credentials,    \* what the credential sources may hold
    Absent,         \* a source that holds nothing
    Unusable,       \* a source that is off, unreadable or invalid
    NoBase          \* a lookup without usage reported by CodexBar

Explicit == {"setting", "codexbar", "environment"}
Local == {"desktop", "agent"}
Sources == Explicit \union Local
Names == Accounts \union {None}
Reported == [id : Names, email : Names]

ASSUME AccountsAssumption ==
    /\ None \notin Accounts
    /\ Absent \notin Credentials
    /\ Unusable \notin Credentials
    /\ NoBase \notin Reported

\* A token found on the host names its own account.
ASSUME CredentialsAssumption ==
    /\ Credentials \subseteq [source : Sources, session : Accounts,
                              user : Names, bearer : BOOLEAN]
    /\ \A c \in Credentials :
         c.source \in Local \union {"environment"} => c.user = c.session

VARIABLES
    pc,
    candidates,     \* the credentials of this lookup, in order
    at,             \* the one in use
    base,           \* the account of the usage being enriched
    team,           \* whether a team is selected
    me,             \* the account /api/auth/me reported
    expected,       \* the account an alternate has to be
    answers,        \* answers[p]: what became of part p
    member,         \* the selected team's row for this user
    user,           \* where the user id for the day's history is from
    outcome,        \* "usage" or "error" once the lookup is over
    \* history variables
    configured,     \* a credential was configured
    rejected,       \* the first credential was rejected ...
    pinned          \* ... after it had shown to be of this account

auth == <<candidates, base, team, configured>>
attempt == <<at, me, expected, rejected, pinned>>
parts == <<answers, member, user>>
vars == <<pc, auth, attempt, parts, outcome, dailyVars>>

Parts == {"summary", "rpc", "requests", "details", "spend"}

\* What a part's request may come to.  An answer may declare its team, and is
\* "unscoped" when it is another team's and declares none.
Answered == {"rejected", "failed", "declared", "foreign", "silent", "unscoped"}

Pcs == {"idle", "me", "teams", "parts", "daily", "done"}

Rows == [id : {"own", "other", "none"}, email : {"own", "other", "none"}]
NoRow == [id |-> "none", email |-> "none"]

TypeOK ==
    /\ pc \in Pcs
    /\ candidates \in Seq(Credentials)
    /\ at \in Nat
    /\ candidates # <<>> => at \in 1..Len(candidates)
    /\ base \in Reported \union {NoBase}
    /\ team \in BOOLEAN
    /\ me \in Reported
    /\ expected \in Reported
    /\ answers \in [Parts -> Answered \union {"unasked", "asked"}]
    /\ member \in Rows
    /\ user \in {"none", "details", "row"}
    /\ outcome \in {"none", "usage", "error"}
    /\ configured \in BOOLEAN
    /\ rejected \in BOOLEAN
    /\ pinned \in Names
    /\ DailyTypeOK

Unknown == [id |-> None, email |-> None]
Unasked == [p \in Parts |-> "unasked"]

Init ==
    /\ pc = "idle"
    /\ candidates = <<>>
    /\ at = 1
    /\ base = NoBase
    /\ team = FALSE
    /\ me = Unknown
    /\ expected = Unknown
    /\ answers = Unasked
    /\ member = NoRow
    /\ user = "none"
    /\ outcome = "none"
    /\ configured = FALSE
    /\ rejected = FALSE
    /\ pinned = None
    /\ DailyInit

Current == candidates[at]

(***************************************************************************)
(* loadCursorAuth.                                                         *)
(***************************************************************************)
Held(s) == {c \in Credentials : c.source = s} \union {Absent, Unusable}

\* The sources as a lookup finds them.
Stores ==
    [setting : Held("setting"), codexbar : Held("codexbar"),
     environment : Held("environment"), desktop : Held("desktop"),
     agent : Held("agent")]

Usable(c) == IF c \in {Absent, Unusable} THEN <<>> ELSE <<c>>

\* combineCursorAuth: a token found twice is one candidate.
Combined(desktop, agent) ==
    IF Usable(desktop) = <<>> THEN {Usable(agent)}
    ELSE IF Usable(agent) = <<>> THEN {Usable(desktop)}
    ELSE {<<desktop, agent>>} \union
           (IF desktop.session = agent.session THEN {Usable(desktop)} ELSE {})

\* (Mutant) An invalid CURSOR_AUTH_TOKEN falls through to the local sessions.
LoadAuthFallsThrough(store) ==
    IF store.setting # Absent THEN {Usable(store.setting)}
    ELSE IF store.codexbar # Absent THEN {Usable(store.codexbar)}
    ELSE IF Usable(store.environment) # <<>>
      THEN {Usable(store.environment)}
    ELSE Combined(store.desktop, store.agent)

\* The first source that is configured decides, also when it is unusable; the
\* local sessions are candidates for each other.
LoadAuth(store) ==
    IF store.setting # Absent THEN {Usable(store.setting)}
    ELSE IF store.codexbar # Absent THEN {Usable(store.codexbar)}
    ELSE IF store.environment # Absent THEN {Usable(store.environment)}
    ELSE Combined(store.desktop, store.agent)

(***************************************************************************)
(* fetch and fetchWithAuth.                                                *)
(***************************************************************************)
\* (Mutant) Accounts match unless they differ.
MatchesUnlessDifferent(want, got) ==
    IF want.id # None /\ got.id # None THEN want.id = got.id
    ELSE want.email = None \/ got.email = None \/ want.email = got.email

\* cursorAccountMatches.
Matches(want, got) ==
    IF want.id # None /\ got.id # None THEN want.id = got.id
    ELSE want.email # None /\ want.email = got.email

\* A lookup for the usage of base, or for none, with or without a team.
Fetch ==
    /\ pc = "idle"
    /\ base' \in {NoBase} \union
         {[id |-> i, email |-> e] : i, e \in Names}
    /\ base' # NoBase => base'.id = None \/ base'.email = None \/ base'.id = base'.email
    /\ team' \in BOOLEAN
    /\ \E store \in Stores :
         /\ candidates' \in LoadAuth(store)
         /\ configured' = \E s \in Explicit : store[s] # Absent
    /\ IF candidates' = <<>>
       THEN pc' = "done" /\ outcome' = "error"
       ELSE pc' = "me" /\ UNCHANGED outcome
    /\ UNCHANGED <<attempt, parts, dailyVars>>

\* (Mutant) The alternate need not be the account that was rejected.
PinUnknown(account) == Unknown

Pin(account) == account

\* There is a credential left to try.
More == at < Len(candidates)

\* (Mutant) The error of a team's lookup hides the rejection in it.
RetriesPersonal(why) ==
    at > 1 \/ (why = "rejected" /\ ~team) \/ (why = "mismatch" /\ base # NoBase)

\* The first attempt turns to the alternates when its credential is rejected
\* or is of another account than base; from then on any failure does.
Retries(why) ==
    at > 1 \/ why = "rejected" \/ (why = "mismatch" /\ base # NoBase)

\* The attempt failed: the next credential is tried, or the lookup is over.
Fail(why, account) ==
    /\ IF More /\ Retries(why)
       THEN /\ pc' = "me"
            /\ at' = at + 1
            /\ expected' = IF at = 1 /\ why = "rejected" THEN Pin(account)
                            ELSE expected
            /\ UNCHANGED outcome
       ELSE /\ pc' = "done"
            /\ outcome' = "error"
            /\ UNCHANGED <<at, expected>>
    /\ rejected' = (rejected \/ (at = 1 /\ why = "rejected"))
    /\ pinned' = IF at = 1 /\ why = "rejected" /\ account # Unknown
                   THEN Current.session ELSE pinned
    /\ me' = Unknown
    /\ answers' = Unasked
    /\ member' = NoRow
    /\ user' = "none"

\* (Mutant) The header's bearer token is used whoever it is of.
BearerAny(account) == Current.bearer

\* The bearer token is of the account the session belongs to.
Bearer(account) ==
    Current.bearer /\ account.id # None /\ Current.user = account.id

\* The account as it is used from here on: without a reported id it gets the
\* one in the header.
Named(account) ==
    [account EXCEPT !.id = IF @ = None THEN Current.user ELSE @]

MatchesBase(account) == base = NoBase \/ Matches(base, account)

\* The requests in flight: those of the selected team, or of the account.
Asked(account) ==
    IF team THEN {"details", "spend", "summary"}
    ELSE {"summary"} \union (IF Bearer(account) THEN {"rpc"} ELSE {})
           \union (IF Named(account).id # None THEN {"requests"} ELSE {})

InFlight(ps) == [p \in Parts |-> IF p \in ps THEN "asked" ELSE "unasked"]

\* /api/auth/me reports an id, an e-mail or both.
Identify ==
    /\ pc = "me"
    /\ \E i, e \in {Current.session, None} :
         LET account == [id |-> i, email |-> e] IN
           /\ account # Unknown
           /\ IF expected # Unknown /\ ~Matches(expected, account)
              THEN Fail("alternate", Unknown)
              ELSE IF ~MatchesBase(account)
              THEN Fail("mismatch", Unknown)
              ELSE /\ me' = Named(account)
                   /\ IF team
                      THEN pc' = "teams" /\ UNCHANGED answers
                      ELSE pc' = "parts" /\ answers' = InFlight(Asked(account))
                   /\ UNCHANGED <<at, expected, rejected, pinned, member,
                                  user, outcome>>
    /\ UNCHANGED <<auth, dailyVars>>

\* The identity request is rejected, or fails, or reports no identity.
MeRefused ==
    /\ pc = "me"
    /\ \E why \in {"rejected", "failed"} : Fail(why, Unknown)
    /\ UNCHANGED <<auth, dailyVars>>

(***************************************************************************)
(* fetchTeamUsage.                                                         *)
(***************************************************************************)
\* The team is among those of the session, or not, or the request fails.
Teams ==
    /\ pc = "teams"
    /\ \/ /\ pc' = "parts"
          /\ answers' = InFlight(Asked(me))
          /\ UNCHANGED <<attempt, member, user, outcome>>
       \/ \E why \in {"rejected", "failed"} : Fail(why, me)
    /\ UNCHANGED <<auth, dailyVars>>

\* A part's answer.  The team endpoints are asked for the selected team: data
\* of another declares itself.  Without a team every answer is the account's.
Answer(p) ==
    /\ pc = "parts"
    /\ answers[p] = "asked"
    /\ \E a \in Answered :
         /\ ~team => a \in {"rejected", "failed", "silent"}
         /\ p # "summary" => a # "unscoped"
         /\ answers' = [answers EXCEPT ![p] = a]
    /\ UNCHANGED <<pc, auth, attempt, member, user, outcome, dailyVars>>

\* (Mutant) Requests that are not made are waited for as well.
JoinedAll ==
    /\ pc = "parts"
    /\ \A p \in {"summary", "rpc", "requests"} : ~team => answers[p] # "unasked"
    /\ \A p \in Parts : answers[p] # "asked"

\* Every request has come back.
Joined == pc = "parts" /\ \A p \in Parts : answers[p] # "asked"
Rejected == \E p \in Parts : answers[p] = "rejected"

\* (Mutant) A summary that does not say whose it is counts as the team's.
ScopedUnlessForeign(p) == answers[p] \in {"declared", "silent", "unscoped"}

\* Answers that are of the team asked for: a summary has to declare it.
Scoped(p) ==
    IF p = "summary" THEN answers[p] = "declared"
    ELSE answers[p] \in {"declared", "silent"}

\* The parts whose data the usage is made of.
Used ==
    IF team THEN {p \in {"details", "spend", "summary"} : Scoped(p)}
    ELSE {p \in Parts : answers[p] = "silent"}

\* (Mutant) An e-mail decides before the ids.
RowMatchesEmail(row, userKnown) ==
    \/ me.email # None /\ row.email = "own"
    \/ userKnown /\ row.id = "own"

\* cursorTeamMember: ids decide if both are there, else the e-mail.
RowMatches(row, userKnown) ==
    IF userKnown /\ row.id # "none" THEN row.id = "own"
    ELSE me.email # None /\ row.email = "own"

\* The details or the spend are those of another team.
Mismatched == team /\ \E p \in {"details", "spend"} : answers[p] = "foreign"

\* The usage is complete but for the day's history, which is asked for, in a
\* team only of a known user.  What is not used is dropped.
Daily(from) ==
    /\ pc' = "daily"
    /\ user' = from
    /\ IF team /\ from = "none" THEN SkipDaily ELSE StartDaily
    /\ answers' = [p \in Parts |-> IF p \in Used THEN answers[p] ELSE "unasked"]
    /\ UNCHANGED <<attempt, outcome>>

JoinFails ==
    /\ Joined
    /\ \/ Rejected /\ Fail("rejected", me)
       \/ ~Rejected /\ Mismatched /\ Fail("failed", Unknown)
    /\ UNCHANGED <<auth, dailyVars>>

JoinPersonal ==
    /\ Joined
    /\ ~team
    /\ ~Rejected
    /\ IF Used = {} /\ base = NoBase
       THEN Fail("failed", Unknown) /\ UNCHANGED dailyVars
       ELSE Daily("none") /\ UNCHANGED member
    /\ UNCHANGED auth

\* Details may say which user this is, and the spend has a row of each member:
\* two rows of the user are refused, and a row may report no usage.
JoinTeam ==
    /\ Joined
    /\ team
    /\ ~Rejected
    /\ ~Mismatched
    /\ \E userKnown, twice \in BOOLEAN, row \in Rows :
         LET found == "spend" \in Used /\ RowMatches(row, userKnown) IN
           /\ userKnown => "details" \in Used
           /\ \/ /\ "summary" \notin Used \/ (found /\ twice)
                 /\ Fail("failed", Unknown)
                 /\ UNCHANGED dailyVars
              \/ /\ ~found /\ "summary" \in Used
                 /\ UNCHANGED member
                 /\ Daily(IF userKnown THEN "details" ELSE "none")
              \/ /\ found /\ ~twice
                 /\ member' = row
                 /\ Daily(IF userKnown THEN "details"
                          ELSE IF row.id # "none" THEN "row" ELSE "none")
    /\ UNCHANGED auth

(***************************************************************************)
(* The day's history, and the end.                                         *)
(***************************************************************************)
History ==
    /\ pc = "daily"
    /\ ReadPage \/ PageFails
    /\ UNCHANGED <<pc, auth, attempt, parts, outcome>>

LateEvent ==
    /\ pc = "daily"
    /\ Arrive
    /\ UNCHANGED <<pc, auth, attempt, parts, outcome>>

Return ==
    /\ pc = "daily"
    /\ reading \in {"complete", "nil"}
    /\ pc' = "done"
    /\ outcome' = "usage"
    /\ UNCHANGED <<auth, attempt, parts, dailyVars>>

Progress ==
    \/ MeRefused \/ Identify \/ Teams
    \/ \E p \in Parts : Answer(p)
    \/ JoinFails \/ JoinPersonal \/ JoinTeam
    \/ History \/ Return

Next == Fetch \/ LateEvent \/ Progress

\* Every request ends, at the latest with its timeout.
Spec == Init /\ [][Next]_vars /\ WF_vars(Progress)

-----------------------------------------------------------------------------
(***************************************************************************)
(* Properties.                                                             *)
(***************************************************************************)
Complete == pc \in {"daily", "done"} /\ outcome # "error"

\* fetchWithAuth ("A pasted header can contain more than one kind of session
\* cookie"): every part of a usage is of the account whose session is used;
\* what the bearer token is asked for is of the user it names.
Of(p) == IF p = "rpc" THEN Current.user ELSE Current.session

OneAccount == Complete => \A p \in Used : Of(p) = Current.session

\* cursorClient ("Optional enrichment uses the same account"): the usage that
\* CodexBar reported is enriched only by the account it is of.
BaseAccount ==
    Complete /\ base # NoBase => Current.session \in {base.id, base.email}

\* cursorAuthFallbackError ("Once the primary identity is known, the alternate
\* must prove it belongs to that same account"): however the rest of the
\* lookup goes.
PinnedAccount == Complete /\ pinned # None => Current.session = pinned

\* loadCursorAuth ("Configured credentials select one account"; "an invalid
\* value must not silently switch to another locally signed-in account"): no
\* request is made with a local session when a credential is configured.
ExplicitStays ==
    configured /\ pc # "idle" =>
      \A i \in 1..Len(candidates) : candidates[i].source \notin Local

\* loadCursorAuth ("a rejected stale session can fall through to the other"):
\* a lookup whose first session was rejected fails only after the others.
StaleFallsThrough ==
    outcome = "error" /\ rejected => at = Len(candidates)

\* cursorTeamSelectionError ("A selected team must never fall back to
\* CodexBar's unscoped account data"): a team's usage has the summary that the
\* team declared or else the user's own row, nothing of another team, and
\* nothing of the account alone.
TeamScoped ==
    Complete /\ team =>
      /\ \/ answers["summary"] = "declared"
         \/ answers["summary"] = "unasked" /\ member # NoRow
      /\ \A p \in {"details", "spend"} : answers[p] \in {"declared", "silent", "unasked"}
      /\ \A p \in {"rpc", "requests"} : answers[p] = "unasked"

\* cursorTeamMember: with the user's id known, the row taken is not one that
\* has the id of another member, though it bears this user's e-mail.
OwnRow == Complete /\ user = "details" => member.id # "other"

\* What a lookup still has before it: the credentials, and with the one in use
\* the identity, the teams, the parts in flight and the pages of the history.
Left == Len(candidates) - at

Stage ==
    CASE pc = "me" -> MaxPages + 10
      [] pc = "teams" -> MaxPages + 9
      [] pc = "parts" -> MaxPages + 3 + Cardinality({p \in Parts : answers[p] = "asked"})
      [] pc = "daily" -> IF reading = "pages" THEN MaxPages + 2 - page ELSE 1
      [] OTHER -> 0

\* fetch, fetchDailyUsage: no retry begins anything again.  Each step of a
\* lookup leaves it fewer credentials, or less to do with the one in use, and
\* what the dashboard lists meanwhile adds nothing.
Advances ==
    [][/\ Progress => Left' < Left \/ (Left' = Left /\ Stage' < Stage)
       /\ LateEvent => Left' = Left /\ Stage' = Stage]_vars

\* fetch: every lookup comes to an end, whatever is rejected on the way.
LookupEnds == pc # "idle" ~> pc = "done"

(***************************************************************************)
(* What makes the safety properties inductive.                             *)
(***************************************************************************)
\* Only credentials found on the host have alternates.
AuthInv ==
    /\ pc = "idle" => candidates = <<>> /\ outcome = "none" /\ at = 1
    /\ pc \notin {"idle", "done"} => candidates # <<>> /\ outcome = "none"
    /\ pc = "done" => outcome # "none"
    /\ outcome = "usage" => candidates # <<>>
    /\ Len(candidates) > 1 =>
         \A i \in 1..Len(candidates) : candidates[i].user = candidates[i].session
    /\ ExplicitStays

\* An alternate is compared with what the first credential was rejected as.
PinInv ==
    /\ outcome # "error" /\ at = 1 =>
         expected = Unknown /\ pinned = None /\ ~rejected
    /\ {expected.id, expected.email} \subseteq {pinned, None}
    /\ outcome # "error" /\ pinned # None => expected # Unknown
    /\ StaleFallsThrough

\* An account that passed the comparisons is the session's.
MeInv ==
    /\ pc = "teams" => team
    /\ pc \in {"teams", "parts"} =>
         me.id \in {Current.session, Current.user, None}
           /\ me.email \in {Current.session, None}
    /\ pc \in {"teams", "parts", "daily"} \/ outcome = "usage" =>
         /\ base # NoBase => Current.session \in {base.id, base.email}
         /\ pinned # None => Current.session = pinned
    /\ answers["rpc"] # "unasked" =>
         candidates # <<>> /\ Current.user = Current.session

\* The parts are asked for once the account is known, and a member's row is
\* taken as the usage becomes complete.
PartsInv ==
    /\ pc \in {"idle", "me", "teams"} => answers = Unasked
    /\ ~Complete => member = NoRow /\ user = "none"
    /\ TeamScoped
    /\ OwnRow

\* The history is read once, after everything else, and of so many pages.
PagesInv ==
    /\ pc \notin {"daily", "done"} => reading = "off"
    /\ reading = "pages" => page <= MaxPages

LookupInv == TypeOK /\ AuthInv /\ PinInv /\ MeInv
================================================================================
