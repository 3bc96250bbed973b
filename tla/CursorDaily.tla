------------------------------ MODULE CursorDaily ------------------------------
(***************************************************************************)
(* The day's Cursor spend (src/server/cursor_daily.go): the events of the  *)
(* day are read page by page, and their sum is reported only when every    *)
(* page agrees on how many there are and that many were read.  Meanwhile   *)
(* the dashboard may list events it is told of late, anywhere in its       *)
(* order; it withdraws none.                                               *)
(*                                                                         *)
(* Events are numbered as the dashboard learns of them.  What an event     *)
(* costs, and whether it falls in the day, is a function of the event: the *)
(* model counts how often each was gone through.                           *)
(***************************************************************************)
EXTENDS Naturals, Sequences

CONSTANTS
    MaxEvents,      \* bound: events the dashboard ever lists
    PageSize,       \* pageSize: events asked for at once
    MaxPages,       \* maxPages: pages read at most
    PageLengths     \* what the dashboard may put on a page

ASSUME DailyAssumption ==
    /\ MaxEvents \in Nat
    /\ PageSize \in Nat \ {0}
    /\ MaxPages \in Nat \ {0}
    /\ PageLengths \subseteq Nat \ {0}

VARIABLES
    listing,        \* the events the dashboard lists, newest first
    length,         \* how many it puts on a page
    unpriced,       \* an event without a usable date, cost or owner; 0: none
    reading,        \* "off", "pages", and then "complete" or "nil"
    page,           \* the page asked for
    offset,         \* the events on the pages before it
    total,          \* the number of events that the first page reported
    seen,           \* the events on the pages read
    times           \* times[e]: how often event e was gone through

dashboard == <<listing, length, unpriced>>
sum == <<page, offset, total, seen, times>>
dailyVars == <<dashboard, reading, sum>>

Events == 1..MaxEvents

Oldest(n) == [i \in 1..n |-> i]

DailyInit ==
    /\ listing = <<>>
    /\ length = 1
    /\ unpriced = 0
    /\ reading = "off"
    /\ page = 1
    /\ offset = 0
    /\ total = 0
    /\ seen = 0
    /\ times = [e \in Events |-> 0]

\* The first page is asked for.
StartDaily ==
    /\ reading = "off"
    /\ reading' = "pages"
    /\ \E n \in 0..MaxEvents : listing' = Oldest(n) /\ unpriced' \in 0..n
    /\ length' \in PageLengths
    /\ UNCHANGED sum

\* Of a team, the history is not asked for without the user.
SkipDaily ==
    /\ reading = "off"
    /\ reading' = "nil"
    /\ UNCHANGED <<dashboard, sum>>

\* The listing with the next event at place i + 1.
Inserted(i) ==
    [j \in 1..(Len(listing) + 1) |->
       IF j <= i THEN listing[j]
       ELSE IF j = i + 1 THEN Len(listing) + 1 ELSE listing[j - 1]]

\* An event is listed between two pages.
Arrive ==
    /\ reading = "pages"
    /\ page > 1
    /\ Len(listing) < MaxEvents
    /\ \E i \in 0..Len(listing) : listing' = Inserted(i)
    /\ UNCHANGED <<length, unpriced, reading, sum>>

\* The positions of the page asked for.
OnPage == {i \in 1..Len(listing) : offset < i /\ i <= offset + length}

PageLength ==
    IF Len(listing) <= offset THEN 0
    ELSE IF Len(listing) < offset + length THEN Len(listing) - offset
    ELSE length

\* The number of events the first page reports.
Total == IF page = 1 THEN Len(listing) ELSE total

\* (Mutant) Later pages may report another number.
SteadyAny == TRUE

\* Every page reports the number of events of the first.
Steady == Len(listing) = Total

Priced == \A i \in OnPage : listing[i] # unpriced

\* A page can be part of a complete sum.
Acceptable ==
    /\ Len(listing) <= PageSize * MaxPages
    /\ Steady
    /\ PageLength <= PageSize
    /\ seen + PageLength <= Total
    /\ PageLength = 0 => seen = Total
    /\ Priced

\* One page is answered; events not of the day are passed over, the others
\* added.
ReadPage ==
    /\ reading = "pages"
    /\ IF Acceptable
       THEN /\ total' = Total
            /\ seen' = seen + PageLength
            /\ times' = [e \in Events |->
                           IF \E i \in OnPage : listing[i] = e
                             THEN times[e] + 1 ELSE times[e]]
            /\ page' = page + 1
            /\ offset' = offset + length
            /\ reading' = IF seen' = total' THEN "complete"
                          ELSE IF page = MaxPages THEN "nil"
                          ELSE "pages"
       ELSE /\ reading' = "nil"
            /\ UNCHANGED sum
    /\ UNCHANGED dashboard

\* A request fails, or the five seconds for the history are over.
PageFails ==
    /\ reading = "pages"
    /\ reading' = "nil"
    /\ UNCHANGED <<dashboard, sum>>

DailyNext == StartDaily \/ SkipDaily \/ Arrive \/ ReadPage \/ PageFails

\* One history, by itself.
DailySpec == DailyInit /\ [][DailyNext]_dailyVars

-----------------------------------------------------------------------------
(***************************************************************************)
(* Properties.                                                             *)
(***************************************************************************)
DailyTypeOK ==
    /\ listing \in Seq(Events)
    /\ length \in PageLengths \union {1}
    /\ unpriced \in 0..MaxEvents
    /\ reading \in {"off", "pages", "complete", "nil"}
    /\ page \in Nat
    /\ offset \in Nat
    /\ total \in Nat
    /\ seen \in Nat
    /\ times \in [Events -> Nat]

\* fetchDailyUsage ("Optional history must never turn an incomplete total into
\* an apparent zero", "A changing page set cannot safely be presented as a
\* complete daily sum"): a sum that is reported went through every event that
\* is listed when it ends exactly once, and each of them had a cost.
DailyComplete ==
    reading = "complete" =>
      \A i \in 1..Len(listing) :
        times[listing[i]] = 1 /\ listing[i] # unpriced

(***************************************************************************)
(* What makes it inductive: unless an event was listed since the first     *)
(* page, the events gone through are those of the first "seen" positions.  *)
(***************************************************************************)
\* No event is listed twice, and those listed have the first numbers.
ListingInv ==
    /\ Len(listing) <= MaxEvents
    /\ \A i \in 1..Len(listing) : listing[i] <= Len(listing)
    /\ \A i, j \in 1..Len(listing) : listing[i] = listing[j] => i = j

PrefixInv ==
    /\ page # 0 /\ (reading = "off" => page = 1)
    /\ page = 1 => offset = 0 /\ seen = 0 /\ \A e \in Events : times[e] = 0
    /\ page # 1 => total <= Len(listing)
    /\ reading \in {"pages", "complete"} /\ page # 1 /\ total = Len(listing) =>
         /\ seen = IF offset < total THEN offset ELSE total
         /\ \A i \in 1..total :
              /\ times[listing[i]] = IF i <= seen THEN 1 ELSE 0
              /\ i <= seen => listing[i] # unpriced
    /\ reading = "complete" => page # 1 /\ total = Len(listing) /\ seen = total

DailyInv == DailyTypeOK /\ ListingInv /\ PrefixInv
================================================================================
