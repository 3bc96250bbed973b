------------------------------ MODULE UsageWindows ------------------------------
(***************************************************************************)
(* How an entry that CodexBar reports becomes a provider's usage           *)
(* (src/server/usage.go, reset_credits.go): the decoding of both           *)
(* spellings, the list of windows that leaves absent ones out, and the     *)
(* linear pace.  Times and durations are integers of one unit, percentages *)
(* are whole.  A window's label and what is worded for display are left    *)
(* out.                                                                    *)
(***************************************************************************)
EXTENDS Integers, Sequences, FiniteSets

CONSTANTS
    None,           \* an absent value; an unknown time
    ResetCredits,   \* codexResetCreditsWindowID
    Ids,            \* the identities of extra windows
    Month           \* the calendar month before a Copilot reset

ASSUME MonthAssumption == Month \in Nat \ {0}

(***************************************************************************)
(* Decoding.  A window on the wire has the fields of the camelCase and     *)
(* those of the snake_case spelling; the absent ones are None.             *)
(***************************************************************************)
FieldsType ==
    [used : Int \union {None}, reset : Int \union {None}, minutes : Int \union {None}]

WindowType == [camel : FieldsType, snake : FieldsType]

\* An entry: its three slots, its extra windows, its own pace of the first two
\* slots, its date and the reset credits it has.
EntryType ==
    [slots : [1..3 -> WindowType \union {None}],
     extras : Seq([id : Ids \union {None}, window : WindowType \union {None}]),
     pace : [1..2 -> {None, "empty", "summary"}],
     updated : Int \union {None},
     inventory : Int \union {None}]

NoFields == [used |-> None, reset |-> None, minutes |-> None]

Filled(camel, snake, zero) ==
    IF camel \notin {None, zero} THEN camel
    ELSE IF snake # None THEN snake ELSE zero

\* cbWindow.UnmarshalJSON: snake_case fills what camelCase left zero, and a
\* usage of zero counts as reported in either.
Decoded(wire) ==
    [used |-> Filled(wire.camel.used, wire.snake.used, 0),
     reported |-> wire.camel.used # None \/ wire.snake.used # None,
     reset |-> Filled(wire.camel.reset, wire.snake.reset, None),
     minutes |-> Filled(wire.camel.minutes, wire.snake.minutes, 0)]

(***************************************************************************)
(* The linear pace.                                                        *)
(***************************************************************************)
Abs(n) == IF n < 0 THEN -n ELSE n

\* (Mutant) The fraction is cut off.
RoundDown(num, den) == num \div den

\* math.Round of num / den.
Round(num, den) == (2 * num + den) \div (2 * den)

\* The stage, the percentage points off the pace and those expected.
Paced(used, elapsed, duration) ==
    LET off == Round(Abs(used * duration - 100 * elapsed), duration) IN
      [stage |-> IF off < 1 THEN "onPace"
                 ELSE IF used * duration < 100 * elapsed THEN "behind" ELSE "ahead",
       off |-> off,
       expected |-> Round(100 * elapsed, duration)]

\* linearUsagePace: none outside the window and in its first 3 percent.
LinearPace(used, start, reset, at) ==
    IF \/ at < start
       \/ at >= reset
       \/ 100 * (at - start) < 3 * (reset - start)
    THEN None
    ELSE Paced(used, at - start, reset - start)

\* fixedWindowPace.
FixedPace(w, at) ==
    IF ~w.reported \/ w.minutes <= 0 \/ w.used \notin 0..100 \/ w.reset = None
    THEN None
    ELSE LinearPace(w.used, w.reset - w.minutes, w.reset, at)

\* copilotMonthlyPace.
MonthlyPace(used, reset, at) ==
    IF reset = None THEN None ELSE LinearPace(used, reset - Month, reset, at)

(***************************************************************************)
(* The windows of an entry: those in the three slots, then the extra ones. *)
(***************************************************************************)
\* Where a window is in the entry.
Slot(s) == [slot |-> s, extra |-> 0]
Extra(k) == [slot |-> 0, extra |-> k]

\* The loop over the positions at, which takes them in order.
Ordered(at) ==
    [i \in 1..Cardinality(at) |->
       CHOOSE n \in at : Cardinality({m \in at : m <= n}) = i]

SlotsAt(e) == {s \in 1..3 : e.slots[s] # None}

SlotSources(e) == [i \in 1..Cardinality(SlotsAt(e)) |-> Slot(Ordered(SlotsAt(e))[i])]

\* Codex's reset credits are not a quota.
ExtrasAt(provider, e) ==
    {k \in 1..Len(e.extras) :
       /\ e.extras[k].window # None
       /\ ~(provider = "codex" /\ e.extras[k].id = ResetCredits)}

ExtraSources(provider, e) ==
    LET at == ExtrasAt(provider, e) IN
      [i \in 1..Cardinality(at) |-> Extra(Ordered(at)[i])]

Sources(provider, e) == SlotSources(e) \o ExtraSources(provider, e)

Source(e, x) ==
    Decoded(IF x.slot # 0 THEN e.slots[x.slot] ELSE e.extras[x.extra].window)

\* What toWindow keeps, with the identity that windows() gives it.
Window(e, x) ==
    LET w == Source(e, x) IN
      [from |-> [slot |-> x.slot,
                 id |-> IF x.extra = 0 THEN None ELSE e.extras[x.extra].id,
                 at |-> x.extra],
       used |-> w.used, reset |-> w.reset, scoped |-> x.extra # 0, pace |-> None]

Windows(provider, e) ==
    LET xs == Sources(provider, e) IN [i \in 1..Len(xs) |-> Window(e, xs[i])]

(***************************************************************************)
(* toProviderUsage.                                                        *)
(***************************************************************************)
\* (Mutant) The informational window is counted as well.
PacedSourcesAll(e) == SlotSources(e) \o ExtraSources("any", e)

\* The windows that a pace is given to, counted as the pace's loops do.
PacedSources(e) == SlotSources(e) \o ExtraSources("codex", e)

\* The CLI's own pace of a side is None, "empty" or "summary".
CliPace == [stage |-> "codexbar", off |-> 0, expected |-> 0]

\* A window in progress is paced as of the fetch, unless the CLI has a pace of
\* its side.
CodexPace(e, x, reset, fetched, now) ==
    IF x.slot \in {1, 2} /\ e.pace[x.slot] = "summary" THEN CliPace
    ELSE IF reset # None /\ reset > now /\ fetched <= now
    THEN FixedPace(Source(e, x), fetched)
    ELSE None

\* The CLI's own date, or the time of the poll.
FetchedAt(e, now) == IF e.updated = None THEN now ELSE e.updated

\* Only Codex's pace is kept with its window.
WindowPaces(provider, e, ws, now) ==
    LET xs == PacedSources(e) IN
      [i \in 1..Len(ws) |->
         IF provider = "codex" /\ i <= Len(xs)
         THEN CodexPace(e, xs[i], ws[i].reset, FetchedAt(e, now), now)
         ELSE None]

\* PacePrime and PaceSec: Codex's are those of its slots, and Copilot's first
\* window is paced by the month.
SidePaces(provider, e, ws, now) ==
    LET own == [s \in 1..2 |-> IF e.pace[s] = None THEN None ELSE CliPace] IN
      [s \in 1..2 |->
         IF provider = "codex" /\ e.slots[s] # None
         THEN LET i == CHOOSE i \in 1..Len(ws) : PacedSources(e)[i] = Slot(s)
              IN CodexPace(e, Slot(s), ws[i].reset, FetchedAt(e, now), now)
         ELSE IF provider = "copilot" /\ s = 1 /\ own[1] = None /\ ws # <<>>
         THEN MonthlyPace(ws[1].used, ws[1].reset, now)
         ELSE own[s]]

\* resetCredits: the inventory, or else the informational window.
Credits(provider, e) ==
    LET informs == SelectSeq(e.extras, LAMBDA x : x.id = ResetCredits /\ x.window # None)
    IN IF provider # "codex" THEN None
       ELSE IF e.inventory # None THEN [count |-> e.inventory, expires |-> None]
       ELSE IF informs # <<>>
       THEN [count |-> None, expires |-> Decoded(informs[1].window).reset]
       ELSE None

Usage(provider, e, now) ==
    LET ws == Windows(provider, e)
        paces == WindowPaces(provider, e, ws, now)
    IN [windows |-> [i \in 1..Len(ws) |-> [ws[i] EXCEPT !.pace = paces[i]]],
        sides |-> SidePaces(provider, e, ws, now),
        fetched |-> FetchedAt(e, now),
        credits |-> Credits(provider, e)]
================================================================================
