---------------------------- MODULE SessionFallback ----------------------------
(***************************************************************************)
(* A session whose provider the polled snapshot does not cover             *)
(* (src/server/plugin.go, sessionJSON and sessionUsageOnDemand): the first *)
(* request fetches its usage, the others wait for that flight or find it   *)
(* finished, and the result is kept until the snapshot it belongs to is    *)
(* replaced.  Flights of different providers share nothing, so one         *)
(* provider is modelled; it may be Cursor, whose usage is that of a team.  *)
(*                                                                         *)
(* A snapshot is a number that stands for the report's address: the code   *)
(* compares pointers, and a later report never has an earlier one's while  *)
(* an entry holds it.  A request leads at most one flight, so the entry is *)
(* named by the request that made it.  Team selections are counted.        *)
(***************************************************************************)
EXTENDS Naturals

CONSTANTS
    Requests,       \* session requests, each made once
    NoOne,          \* no request
    MaxReports,     \* bound: reports built
    MaxSaves        \* bound: team selections

ASSUME RequestsAssumption ==
    /\ NoOne \notin Requests
    /\ MaxReports \in Nat
    /\ MaxSaves \in Nat

VARIABLES
    current,        \* p.snapshot; 0 when there is none
    built,          \* the number of reports built so far
    covering,       \* the reports that list the provider
    saves,          \* team selections so far
    pc,
    gone,           \* the requests whose context is over
    snap,           \* snap[r]: the report r looks at
    entry,          \* p.sessionFallbacks of the provider
    flight,         \* flight[r]: the snapshot that r's entry belongs to
    team,           \* team[r]: the selection r's flight read
    status,         \* status[r]: r's entry; "done" and "aborted" are closed
    result,         \* result[r]: what r's flight returned
    waits,          \* waits[r]: the entry r waits on
    got,            \* got[r]: r's answer
    \* history variables
    from,           \* from[r]: the entry that answered r
    floor,          \* floor[r]: the oldest report that may answer r
    asked,          \* asked[r]: the selections made when r asked
    born            \* born[s]: the selections made when report s was built

Reports == 1..MaxReports

polls == <<current, built, covering, saves, born>>
flights == <<entry, flight, team, status, result>>
request == <<snap, waits, got, from>>
ask == <<floor, asked>>
vars == <<polls, pc, gone, flights, request, ask>>

Pcs == {"idle", "read", "refresh", "check", "lead", "fetch", "wait", "answered"}

TypeOK ==
    /\ current \in 0..built
    /\ built \in 0..MaxReports
    /\ covering \subseteq Reports
    /\ saves \in 0..MaxSaves
    /\ pc \in [Requests -> Pcs]
    /\ gone \subseteq Requests
    /\ snap \in [Requests -> 0..MaxReports]
    /\ entry \in Requests \union {NoOne}
    /\ flight \in [Requests -> 0..MaxReports]
    /\ team \in [Requests -> 0..MaxSaves]
    /\ status \in [Requests -> {"none", "flying", "done", "aborted"}]
    /\ result \in [Requests -> {"none", "fallback", "cancelled"}]
    /\ waits \in [Requests -> Requests \union {NoOne}]
    /\ got \in [Requests -> {"none", "snapshot", "fallback", "cancelled"}]
    /\ from \in [Requests -> Requests \union {NoOne}]
    /\ floor \in [Requests -> 0..(MaxReports + 1)]
    /\ asked \in [Requests -> 0..MaxSaves]
    /\ born \in [Reports -> 0..MaxSaves]

Init ==
    /\ current = 0
    /\ built = 0
    /\ covering = {}
    /\ saves = 0
    /\ pc = [r \in Requests |-> "idle"]
    /\ gone = {}
    /\ snap = [r \in Requests |-> 0]
    /\ entry = NoOne
    /\ flight = [r \in Requests |-> 0]
    /\ team = [r \in Requests |-> 0]
    /\ status = [r \in Requests |-> "none"]
    /\ result = [r \in Requests |-> "none"]
    /\ waits = [r \in Requests |-> NoOne]
    /\ got = [r \in Requests |-> "none"]
    /\ from = [r \in Requests |-> NoOne]
    /\ floor = [r \in Requests |-> 0]
    /\ asked = [r \in Requests |-> 0]
    /\ born = [s \in Reports |-> 0]

Go(r, here, there) ==
    /\ pc[r] = here
    /\ pc' = [pc EXCEPT ![r] = there]

(***************************************************************************)
(* The snapshot, as UsageSnapshot leaves it to a session request.          *)
(***************************************************************************)
\* A report is built; it may or may not list the provider.
Build ==
    /\ built < MaxReports
    /\ built' = built + 1
    /\ born' = [born EXCEPT ![built + 1] = saves]
    /\ covering' \in {covering, covering \union {built + 1}}

\* The poll loop or another request publishes a report.
Poll ==
    /\ Build
    /\ current' = built + 1
    /\ UNCHANGED <<saves, pc, gone, flights, request, ask>>

\* (Mutant) The snapshot outlives the selection it was built for.
SaveTeamKeeps ==
    /\ saves < MaxSaves
    /\ saves' = saves + 1
    /\ UNCHANGED <<current, built, covering, born, pc, gone, flights, request,
                   ask>>

\* saveCursorTeam selects a team and drops the snapshot.
SaveTeam ==
    /\ saves < MaxSaves
    /\ saves' = saves + 1
    /\ current' = 0
    /\ UNCHANGED <<built, covering, born, pc, gone, flights, request, ask>>

(***************************************************************************)
(* sessionJSON.                                                            *)
(***************************************************************************)
\* A request, without refresh=1 or with it.
Ask(r) ==
    /\ \/ /\ Go(r, "idle", "read")
          /\ floor' = [floor EXCEPT ![r] = IF current = 0 THEN built + 1
                                           ELSE current]
       \/ /\ Go(r, "idle", "refresh")
          /\ floor' = [floor EXCEPT ![r] = built + 1]
    /\ asked' = [asked EXCEPT ![r] = saves]
    /\ UNCHANGED <<polls, gone, flights, request>>

\* The request's context ends.
Leave(r) ==
    /\ pc[r] \notin {"idle", "answered"}
    /\ gone' = gone \union {r}
    /\ UNCHANGED <<polls, pc, flights, request, ask>>

\* snapshotForRead: the current snapshot, or a report that r's own poll builds.
\* It is published, unless team selections, which drop the snapshot, overtook
\* it until the deadline.
ReadSnapshot(r) ==
    /\ \/ /\ current # 0
          /\ Go(r, "read", "check")
          /\ snap' = [snap EXCEPT ![r] = current]
          /\ UNCHANGED polls
       \/ /\ \/ Go(r, "refresh", "check")
             \/ current = 0 /\ Go(r, "read", "check")
          /\ Build
          /\ snap' = [snap EXCEPT ![r] = built + 1]
          /\ current' = built + 1 \/ (current = 0 /\ current' = 0)
          /\ UNCHANGED saves
    /\ UNCHANGED <<gone, flights, waits, got, from, ask>>

\* The provider is unknown, paused, or CodexBar cannot run: answered without
\* usage.
NoFallback(r) ==
    /\ Go(r, "check", "answered")
    /\ waits[r] = NoOne
    /\ got' = [got EXCEPT ![r] = "snapshot"]
    /\ UNCHANGED <<polls, gone, flights, snap, waits, from, ask>>

(***************************************************************************)
(* sessionUsageOnDemand.                                                   *)
(***************************************************************************)
\* The published snapshot, else the report the request came with.
LookedAt(r) == IF current # 0 THEN current ELSE snap[r]

\* (Mutant) Only a flight under way is shared, a finished one is forgotten.
SharedFlying(r) ==
    entry # NoOne /\ flight[entry] = LookedAt(r) /\ status[entry] = "flying"

\* (Mutant) An entry of whatever snapshot will do.
SharedAny(r) == entry # NoOne

\* The provider's entry belongs to the snapshot r looks at.
Shared(r) == entry # NoOne /\ flight[entry] = LookedAt(r)

\* One turn of the loop, under mu: answered with the snapshot, waiting on an
\* entry that belongs to it, or leading a new flight.
Check(r) ==
    /\ snap' = [snap EXCEPT ![r] = LookedAt(r)]
    /\ \/ /\ r \in gone
          /\ Go(r, "check", "answered")
          /\ got' = [got EXCEPT ![r] = "cancelled"]
          /\ UNCHANGED <<flights, waits>>
       \/ /\ r \notin gone
          /\ LookedAt(r) \in covering
          /\ Go(r, "check", "answered")
          /\ got' = [got EXCEPT ![r] = "snapshot"]
          /\ UNCHANGED <<flights, waits>>
       \/ /\ r \notin gone
          /\ LookedAt(r) \notin covering
          /\ Shared(r)
          /\ Go(r, "check", "wait")
          /\ waits' = [waits EXCEPT ![r] = entry]
          /\ UNCHANGED <<flights, got>>
       \/ /\ r \notin gone
          /\ LookedAt(r) \notin covering
          /\ ~Shared(r)
          /\ Go(r, "check", "lead")
          /\ entry' = r
          /\ flight' = [flight EXCEPT ![r] = LookedAt(r)]
          /\ status' = [status EXCEPT ![r] = "flying"]
          /\ UNCHANGED <<team, result, waits, got>>
    /\ UNCHANGED <<polls, gone, from, ask>>

\* fetchSessionUsage runs CodexBar, and for Cursor reads the team it asks for.
FetchUsage(r) ==
    /\ Go(r, "lead", "fetch")
    /\ team' = [team EXCEPT ![r] = saves]
    /\ UNCHANGED <<polls, gone, entry, flight, status, result, request, ask>>

\* (Mutant) An aborted flight stays the provider's entry.
EntryAfterKept(r) == entry

\* An aborted flight is no longer the provider's entry, unless another is.
EntryAfter(r) == IF r \in gone /\ entry = r THEN NoOne ELSE entry

Closed(r) == IF r \in gone THEN "aborted" ELSE "done"

\* The end of a flight, under mu. Without a context its result is an error of
\* the context, or whatever was there before it ended.
FinishFlight(r) ==
    /\ Go(r, "fetch", "answered")
    /\ status' = [status EXCEPT ![r] = Closed(r)]
    /\ \/ result' = [result EXCEPT ![r] = "fallback"]
       \/ /\ r \in gone
          /\ result' = [result EXCEPT ![r] = "cancelled"]
    /\ got' = [got EXCEPT ![r] = result'[r]]
    /\ from' = [from EXCEPT ![r] = r]
    /\ entry' = EntryAfter(r)
    /\ UNCHANGED <<polls, gone, flight, team, snap, waits, ask>>

\* (Mutant) A waiter takes whatever the flight left.
UsableAny(r) == status[waits[r]] \in {"done", "aborted"}

\* The entry r waits on has a result that others may use.
Usable(r) == status[waits[r]] = "done"

\* The wait ends with the flight, which an aborted leader leaves to be tried
\* again, or with the waiter's own context.
Wake(r) ==
    /\ pc[r] = "wait"
    /\ \/ /\ Usable(r)
          /\ Go(r, "wait", "answered")
          /\ got' = [got EXCEPT ![r] = result[waits[r]]]
          /\ from' = [from EXCEPT ![r] = waits[r]]
       \/ /\ status[waits[r]] = "aborted"
          /\ Go(r, "wait", "check")
          /\ UNCHANGED <<got, from>>
       \/ /\ r \in gone
          /\ Go(r, "wait", "answered")
          /\ got' = [got EXCEPT ![r] = "cancelled"]
          /\ UNCHANGED from
    /\ UNCHANGED <<polls, gone, flights, snap, waits, ask>>

Serve(r) ==
    \/ ReadSnapshot(r) \/ Check(r) \/ FetchUsage(r) \/ FinishFlight(r)
    \/ Wake(r)

Next ==
    \/ Poll
    \/ SaveTeam
    \/ \E r \in Requests : Ask(r) \/ Leave(r) \/ NoFallback(r) \/ Serve(r)

\* Goroutines are scheduled and every CLI run ends at its timeout; no client
\* need ask or leave.
Spec == Init /\ [][Next]_vars /\ \A r \in Requests : WF_vars(Serve(r))

-----------------------------------------------------------------------------
(***************************************************************************)
(* Properties.                                                             *)
(***************************************************************************)
\* A cancelled leader does not fail live waiters: only a request whose own
\* context ended is answered with the end of a context.
LiveRequestsSurvive == \A r \in Requests : got[r] = "cancelled" => r \in gone

\* sessionJSON ("fetch it once and cache it until the next poll or explicit
\* refresh"): no request is answered by a flight for a snapshot older than the
\* one published when it asked or, if it asked for a refresh, than its own.
FallbackIsCurrent ==
    \A r \in Requests : got[r] = "fallback" => flight[from[r]] >= floor[r]

\* saveCursorTeam drops the snapshot, and with it every fallback: a request
\* made after a team was selected is not answered with a flight that read an
\* earlier selection.
FallbackInScope ==
    \A r \in Requests : got[r] = "fallback" => team[from[r]] >= asked[r]

\* The same sentence's "once": for the published snapshot there is at most one
\* flight that is under way or has succeeded, whichever flights are aborted.
Lives(r) == status[r] \in {"flying", "done"}

FetchedOnce ==
    \A r, s \in Requests :
        /\ Lives(r) /\ flight[r] = current
        /\ Lives(s) /\ flight[s] = current
        => r = s

\* Every session request that finds a report is answered, however many leaders
\* abort before it.
RequestsAnswered == \A r \in Requests : pc[r] = "check" ~> pc[r] = "answered"

\* How far a request is from its answer, the furthest first.
Distance(r) ==
    CASE pc[r] = "idle" -> 6
      [] pc[r] \in {"read", "refresh"} -> 5
      [] pc[r] = "wait" -> 4
      [] pc[r] = "check" -> 3
      [] pc[r] = "lead" -> 2
      [] pc[r] = "fetch" -> 1
      [] OTHER -> 0

\* The requests whose flights may still be waited for in vain.
Chances(r) ==
    {q \in Requests : /\ pc[r] # "answered" /\ status[q] # "aborted"
                      /\ pc[r] = "wait" => q # waits[r]}

\* sessionUsageOnDemand's loop: every step of a request takes it nearer to its
\* answer or costs it one of the flights it can be disappointed by, and what
\* the other requests, the polls and the selections do takes it no further away.
RetriesEnd ==
    [][\A r \in Requests :
         /\ Chances(r)' \subseteq Chances(r)
         /\ Chances(r)' = Chances(r) => Distance(r)' <= Distance(r)
         /\ Serve(r) => Chances(r)' # Chances(r) \/ Distance(r)' < Distance(r)]_vars

(***************************************************************************)
(* What makes the safety properties inductive.                             *)
(***************************************************************************)
Led == {r \in Requests : pc[r] \in {"lead", "fetch"}}
Looking == {r \in Requests : pc[r] \notin {"idle", "read", "refresh"}}

\* An entry's request never leads again, so an entry keeps its snapshot.
LeaderInv ==
    /\ \A r \in Requests : status[r] # "none" =>
         pc[r] \in {"lead", "fetch", "answered"} /\ flight[r] \in 1..built
    /\ \A r \in Requests : status[r] \in {"done", "aborted"} =>
         pc[r] = "answered"
    /\ \A r \in Led : status[r] = "flying"
    /\ \A r \in Requests : status[r] = "done" => result[r] = "fallback"
    /\ entry # NoOne => status[entry] # "none"
    /\ \A r \in Requests : pc[r] = "wait" =>
         waits[r] \in Requests /\ status[waits[r]] # "none"
    /\ \A r \in Requests : got[r] # "none" => pc[r] = "answered"
    /\ \A r \in Requests : got[r] = "fallback" =>
         from[r] \in Requests /\ status[from[r]] \in {"done", "aborted"}
    /\ LiveRequestsSurvive

\* What a request looks at is not older than what it may be answered with.
CurrentInv ==
    /\ \A r \in Requests : pc[r] # "idle" => floor[r] <= built + 1
    /\ \A r \in Requests : pc[r] \notin {"idle", "refresh"} =>
         current = 0 \/ current >= floor[r]
    /\ \A r \in Looking : snap[r] \in 1..built /\ snap[r] >= floor[r]
    /\ \A r \in Led : flight[r] >= floor[r]
    /\ \A r \in Requests : pc[r] = "wait" => flight[waits[r]] >= floor[r]
    /\ FallbackIsCurrent

\* Nor was it built before the selection that was in force when it asked.
ScopeInv ==
    /\ \A s \in 1..built : born[s] <= saves
    /\ current # 0 => born[current] = saves
    /\ \A r \in Requests : asked[r] <= saves
    /\ \A r \in Looking : born[snap[r]] >= asked[r]
    /\ \A r \in Led : born[flight[r]] >= asked[r]
    /\ \A r \in Requests : pc[r] = "wait" => born[flight[waits[r]]] >= asked[r]
    /\ \A r \in Requests :
         pc[r] = "fetch" \/ status[r] \in {"done", "aborted"} =>
           team[r] >= born[flight[r]]
    /\ FallbackInScope

\* The provider's entry is the one live flight of the published snapshot.
OnceInv ==
    \A r \in Requests : Lives(r) /\ flight[r] = current => entry = r

\* Nor is an aborted flight ever the entry.
EntryInv == entry # NoOne => Lives(entry)

FallbackInv == EntryInv /\ LeaderInv /\ CurrentInv /\ ScopeInv /\ OnceInv
================================================================================
