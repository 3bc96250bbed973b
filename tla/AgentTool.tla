------------------------------- MODULE AgentTool -------------------------------
(***************************************************************************)
(* What the agent tool get_provider_usage answers (src/server/             *)
(* agent_tool.go) while polls succeed, fail and keep earlier values        *)
(* (src/server/plugin.go): a call reads the published snapshot and the     *)
(* clock, and changes nothing.  Its answer is a function of the state.     *)
(*                                                                         *)
(* The configuration, the report deadline and Cursor are ReportMerge's,    *)
(* the races for the snapshot UsageSnapshot's: here a poll is one step.    *)
(***************************************************************************)
EXTENDS UsageWindows

CONSTANTS
    Entries,        \* Entries[p]: what the provider p may be reported with
    Kinds,          \* how a provider's query may be classified as failed
    Interval,       \* the poll interval of the reports
    MaxTime         \* bound: the clock stops

Cli == {"codex", "copilot"}
Providers == Cli \union {"augment"}

ASSUME ToolAssumption ==
    /\ Interval \in Nat \ {0}
    /\ MaxTime \in Nat
    /\ None \notin Kinds \union Int \union EntryType
    /\ \A p \in Cli : Entries[p] \subseteq EntryType
    /\ Entries["augment"] \subseteq Nat

VARIABLES
    now,            \* the clock
    published,      \* whether there is a snapshot
    installed,      \* whether it says that CodexBar runs
    usage,          \* usage[p]: its value for the provider p, or None
    failed,         \* failed[p]: why p is listed as unavailable, or None
    \* history variables
    entry,          \* entry[p]: what the value of p was made of, ...
    taken,          \* ... and when
    fresh           \* the providers whose value the last poll made

snapshot == <<published, installed, usage, failed>>
history == <<entry, taken, fresh>>
vars == <<now, snapshot, history>>

Nothing == [p \in Providers |-> None]

Init ==
    /\ now = 0
    /\ published = FALSE
    /\ installed = FALSE
    /\ usage = Nothing
    /\ failed = Nothing
    /\ entry = Nothing
    /\ taken = [p \in Providers |-> 0]
    /\ fresh = {}

Tick ==
    /\ now < MaxTime
    /\ now' = now + 1
    /\ UNCHANGED <<snapshot, history>>

\* Augment's value comes from its own API, with one window or none, and is
\* dated as it is made.
Analytics(used, at) ==
    [windows |->
       IF used = 0 THEN <<>>
       ELSE <<[from |-> [slot |-> 0, id |-> None, at |-> 0], used |-> used,
               reset |-> MaxTime + 1, scoped |-> FALSE, pace |-> None]>>,
     fetched |-> at,
     credits |-> None]

Made(p, e, at) == IF p = "augment" THEN Analytics(e, at) ELSE Usage(p, e, at)

\* What a poll may learn of p: an entry, a failure, or nothing.  In its sweep
\* CodexBar may report a failure of Augment while the API answers.
Outcomes(p) ==
    {o \in [entry : Entries[p] \union {None}, failure : Kinds \union {None}] :
       o.entry = None \/ o.failure = None \/ p = "augment"}

Reports ==
    {[p \in Providers |-> CASE p = "codex" -> x [] p = "copilot" -> y [] p = "augment" -> z] :
       x \in Outcomes("codex"), y \in Outcomes("copilot"), z \in Outcomes("augment")}

\* (Mutant) A value that is kept is dated anew.
KeptRedated(p) ==
    IF published /\ usage[p] # None THEN [usage[p] EXCEPT !.fetched = now] ELSE None

\* A failed query does not evict the earlier value.
Kept(p) == IF published THEN usage[p] ELSE None

\* collectProviders and the merge of pollOnce.  Without CodexBar every value
\* that it reported before counts as failed.
Poll ==
    /\ installed' \in BOOLEAN
    /\ \E outcome \in Reports :
         /\ ~installed' =>
              /\ \A p \in Cli : outcome[p] =
                   [entry |-> None,
                    failure |-> IF Kept(p) # None THEN "provider_unavailable" ELSE None]
              /\ outcome["augment"].entry = None \/ outcome["augment"].failure = None
         /\ usage' = [p \in Providers |->
                        IF outcome[p].entry # None THEN Made(p, outcome[p].entry, now)
                        ELSE IF outcome[p].failure # None THEN Kept(p) ELSE None]
         /\ failed' = [p \in Providers |-> outcome[p].failure]
         /\ entry' = [p \in Providers |->
                        IF outcome[p].entry # None THEN outcome[p].entry
                        ELSE IF usage'[p] # None THEN entry[p] ELSE None]
         /\ taken' = [p \in Providers |->
                        IF outcome[p].entry # None THEN now
                        ELSE IF usage'[p] # None THEN taken[p] ELSE 0]
         /\ fresh' = {p \in Providers : outcome[p].entry # None}
    /\ published' = TRUE
    /\ UNCHANGED now

\* A saved team, an update or a restart drops the snapshot.
Drop ==
    /\ published
    /\ published' = FALSE
    /\ installed' = FALSE
    /\ usage' = Nothing
    /\ failed' = Nothing
    /\ entry' = Nothing
    /\ taken' = [p \in Providers |-> 0]
    /\ fresh' = {}
    /\ UNCHANGED now

Next == Tick \/ Poll \/ Drop

Spec == Init /\ [][Next]_vars

-----------------------------------------------------------------------------
(***************************************************************************)
(* providerUsageProjection and providerUsageRecord.                        *)
(***************************************************************************)
Listed(p) == published /\ usage[p] # None

Age(p) == IF now > usage[p].fetched THEN now - usage[p].fetched ELSE 0

Stale(p) == Age(p) >= 2 * Interval

\* The windows used up, and those that exhaust the provider's quota.
Full(p) == {i \in DOMAIN usage[p].windows : usage[p].windows[i].used >= 100}

Exhausting(p) ==
    IF Stale(p) \/ p = "augment" THEN {}
    ELSE {i \in Full(p) : ~usage[p].windows[i].scoped}

Availability(p) ==
    IF Stale(p) THEN "telemetry_stale"
    ELSE IF Exhausting(p) # {} THEN "quota_exhausted" ELSE "available"

WindowState(p, i) ==
    IF Stale(p) THEN "telemetry_stale"
    ELSE IF i \in Full(p) /\ p # "augment" THEN "quota_exhausted" ELSE "available"

\* (Mutant) A reset that is over is still announced.
AheadAny(t) == t # None

Ahead(t) == t # None /\ t > now

Resets(p) ==
    {usage[p].windows[i].reset : i \in Exhausting(p)} \ {None}

\* The reason given is the earliest reset to come, if any is known.
Reason(p) ==
    LET ahead == {t \in Resets(p) : Ahead(t)} IN
      IF ahead = {} THEN None
      ELSE CHOOSE t \in ahead : \A u \in ahead : t <= u

Warnings(p) ==
    {w \in {"retained", "scoped", "augment"} :
       CASE w = "retained" -> failed[p] # None
         [] w = "scoped" -> ~Stale(p) /\ \E i \in Full(p) : usage[p].windows[i].scoped
         [] w = "augment" -> p = "augment" /\ ~Stale(p) /\ Full(p) # {}}

\* (Mutant) A window is named by its place in the list.
WindowIdByPlace(i, w) ==
    IF w.scoped THEN <<"extra", i>> ELSE <<"window", i>>

\* stableWindowID.
WindowId(i, w) ==
    IF w.scoped
    THEN IF w.from.id # None THEN <<"extra-id", w.from.id>> ELSE <<"extra-slot", w.from.at>>
    ELSE <<"window", IF w.from.slot # 0 THEN w.from.slot ELSE i>>

\* (Mutant) Only a provider without a value counts.
IncompleteUnlisted(p) == failed[p] # None /\ ~Listed(p)

Incomplete(p) == failed[p] # None

Partial == ~published \/ ~installed \/ \E p \in Providers : Incomplete(p)

\* sanitizedFailureState.
State(kind) ==
    IF kind \in {"not_configured", "unsupported", "provider_unavailable"}
    THEN kind ELSE "unknown"

Bounded(percent) ==
    IF percent < 0 THEN 0 ELSE IF percent > 100 THEN 100 ELSE percent

\* What the tool says of p: its value, or why there is none.
Record(p) ==
    IF Listed(p)
    THEN [availability |-> Availability(p), age |-> Age(p), stale |-> Stale(p),
          reason |-> Reason(p), warnings |-> Warnings(p),
          windows |-> [i \in DOMAIN usage[p].windows |->
                         [id |-> WindowId(i, usage[p].windows[i]),
                          state |-> WindowState(p, i),
                          used |-> Bounded(usage[p].windows[i].used)]]]
    ELSE [availability |-> State(failed[p]), age |-> 0, stale |-> FALSE,
          reason |-> None, warnings |-> {}, windows |-> <<>>]

Reported == {p \in Providers : published /\ (usage[p] # None \/ failed[p] # None)}

-----------------------------------------------------------------------------
(***************************************************************************)
(* Properties.                                                             *)
(***************************************************************************)
RangeOK ==
    /\ now \in 0..MaxTime
    /\ published \in BOOLEAN
    /\ installed \in BOOLEAN
    /\ failed \in [Providers -> Kinds \union {"provider_unavailable", None}]
    /\ \A p \in Providers : entry[p] \in Entries[p] \union {None}
    /\ taken \in [Providers -> 0..MaxTime]
    /\ fresh \subseteq Providers

\* The ranges of the variables, and what a record says of availability is one
\* of manifest.yaml's values.
TypeOK ==
    /\ RangeOK
    /\ \A p \in Reported : Record(p).availability \in
         {"available", "quota_exhausted", "telemetry_stale", "not_configured",
          "unsupported", "provider_unavailable", "unknown"}

\* README ("a stale flag (at twice the configured polling interval)"): however
\* many polls failed since, a value that is not called stale was reported by
\* its provider within two intervals, unless it came with a date to come.
FreshIsRecent ==
    \A p \in Reported :
      /\ Listed(p)
      /\ ~Record(p).stale
      /\ p \in Cli => FetchedAt(entry[p], taken[p]) <= taken[p]
      => now - taken[p] < 2 * Interval

\* The slots of the entry kept of p that are used up, and their resets to come.
Spent(p) == {s \in SlotsAt(entry[p]) : Source(entry[p], Slot(s)).used >= 100}

ResetsAhead(p) ==
    {t \in {Source(entry[p], Slot(s)).reset : s \in Spent(p)} \ {None} : t > now}

Recent(p) == now < FetchedAt(entry[p], taken[p]) + 2 * Interval

\* providerUsageRecord: for two intervals from its date, and no longer, a CLI
\* provider is said to be exhausted exactly when one of the slots of the entry
\* it was last reported with is used up, such a slot's window exactly says so
\* too, and the reset announced is the first of theirs to come, if any is. This
\* is however long ago the poll was that the entry is from, and whatever other
\* windows it has. Nothing of the kind is said of an older entry or of Augment.
ExhaustionStands ==
    \A p \in Providers : Listed(p) =>
      LET r == Record(p) IN
        IF p \in Cli /\ Recent(p)
        THEN /\ r.availability = "quota_exhausted" <=> Spent(p) # {}
             /\ \A s \in SlotsAt(entry[p]) : \E i \in DOMAIN r.windows :
                  /\ r.windows[i].id = <<"window", s>>
                  /\ r.windows[i].state = "quota_exhausted" <=> s \in Spent(p)
             /\ IF ResetsAhead(p) = {} THEN r.reason = None
                ELSE /\ r.reason \in ResetsAhead(p)
                     /\ \A t \in ResetsAhead(p) : r.reason <= t
        ELSE /\ r.availability # "quota_exhausted"
             /\ r.reason = None
             /\ \A i \in DOMAIN r.windows : r.windows[i].state # "quota_exhausted"

\* The answer has one window of that name, with the usage of the source x.
Shows(p, id, x) ==
    \E i \in DOMAIN Record(p).windows :
      /\ Record(p).windows[i].used = Bounded(Source(entry[p], x).used)
      /\ \A j \in DOMAIN Record(p).windows : Record(p).windows[j].id = id <=> j = i

\* stableWindowID and windows (agent_tool_test.go:131, 142): whatever other
\* windows a report leaves out, the one window with the name of a slot, or of
\* an identity that one extra window has, shows that window's usage.
NamesStay ==
    \A p \in Cli : Listed(p) =>
      LET e == entry[p] IN
        /\ \A s \in 1..3 : e.slots[s] # None => Shows(p, <<"window", s>>, Slot(s))
        /\ \A k \in ExtrasAt(p, e) :
             LET x == e.extras[k] IN
               /\ x.id # None
               /\ \A l \in ExtrasAt(p, e) : e.extras[l].id = x.id => l = k
               => Shows(p, <<"extra-id", x.id>>, Extra(k))

\* toProviderUsage ("Keep Codex pace with its window"): a window of Codex has
\* the pace that its own usage, reset and length call for when it was fetched,
\* whichever windows around it are absent or informational.
OwnPace ==
    Listed("codex") =>
      LET e == entry["codex"]
          u == usage["codex"]
          from(w) == IF w.from.slot # 0 THEN Slot(w.from.slot) ELSE Extra(w.from.at)
          due(x) == CodexPace(e, x, Source(e, x).reset,
                              FetchedAt(e, taken["codex"]), taken["codex"])
      IN /\ \A i \in DOMAIN u.windows : u.windows[i].pace = due(from(u.windows[i]))
         /\ \A s \in 1..2 : e.slots[s] # None => u.sides[s] = due(Slot(s))

\* What linearUsagePace may say of a window.
Tells(pace, used, elapsed, duration) ==
    LET delta == used * duration - 100 * elapsed IN
      /\ elapsed < duration
      /\ 100 * elapsed >= 3 * duration
      /\ 2 * Abs(pace.expected * duration - 100 * elapsed) <= duration
      /\ 2 * Abs(pace.off * duration - Abs(delta)) <= duration
      /\ CASE pace.stage = "onPace" -> 2 * Abs(delta) < duration
           [] pace.stage = "behind" -> delta < 0 /\ pace.off >= 1
           [] pace.stage = "ahead" -> delta > 0 /\ pace.off >= 1

\* linearUsagePace: a pace is shown of a window in progress that is at least 3
\* percent in; its numbers are the exact ones to half a point, and its stage
\* is the side of the exact line on which the usage is.
PaceTells ==
    /\ Listed("codex") =>
         \A i \in DOMAIN usage["codex"].windows :
           LET e == entry["codex"]
               v == usage["codex"].windows[i]
               w == Source(e, IF v.from.slot # 0 THEN Slot(v.from.slot) ELSE Extra(v.from.at))
           IN v.pace \notin {None, CliPace} =>
                Tells(v.pace, v.used,
                      FetchedAt(e, taken["codex"]) - (v.reset - w.minutes), w.minutes)
    /\ Listed("copilot") =>
         LET u == usage["copilot"] IN
           u.sides[1] \notin {None, CliPace} =>
             Tells(u.sides[1], u.windows[1].used,
                   taken["copilot"] - (u.windows[1].reset - Month), Month)

\* README ("a well-formed partial response"): an answer that is not called
\* partial has nothing in it from before the last poll.
PartialTold == ~Partial => \A p \in Providers : Listed(p) => p \in fresh

\* agent_tool.go:65 ("Latest provider refresh failed; cached telemetry is
\* retained."): the warning is given of a value of an earlier poll.
RetainedIsEarlier ==
    \A p \in Reported : "retained" \in Record(p).warnings => p \notin fresh

(***************************************************************************)
(* What makes them inductive.                                              *)
(***************************************************************************)
\* A value listed is what is made of its entry as of when that was taken; one
\* that no failure explains was made by the last poll.
HistoryInv ==
    \A p \in Providers : Listed(p) =>
      /\ entry[p] # None
      /\ taken[p] <= now
      /\ usage[p] = Made(p, entry[p], taken[p])
      /\ failed[p] = None => p \in fresh

ToolInv == RangeOK /\ HistoryInv
================================================================================
