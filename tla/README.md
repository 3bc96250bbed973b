# Provider usage plugin: a TLA+ verification project

The plugin shows how much of each AI provider's quota is used. Its server
(`src/server`, Go) polls the CodexBar CLI and two web APIs, keeps one report (the
*snapshot*) in memory and answers webhooks from it. Its UI (`src/ui/bundle.js`)
reads those webhooks. This directory holds TLA+ modules of the server's
concurrent core, of the lookup of Cursor's usage, of what agents are told and of
the settings page, the TLC runs that check them and the TLAPS proofs about them.
Line numbers below are of the files under `src/`.

## The system

### Components, their state and operations

| Component | State it keeps | Operations | What makes it correct |
|---|---|---|---|
| Snapshot and poller (`plugin.go:94-341`) | `snapshot`, `snapshotAt`, `pollMu`, `mu`, `cursorSelectionRevision` | `pollLoop`, `pollOnce`, `snapshotForRead`, `HandleWebhook` | one rebuild at a time; what is published, handed out or served belongs to the team in force; requests end |
| Cursor team settings (`cursor_settings.go`) | the selection in the host's state, `cursorSettingsMu` | `cursorConfig` (with the legacy migration), `cursorTeamsWebhook`, `cursorTeamWebhook`, `saveCursorTeam` | a selection comes into force in one step; a refused one changes nothing |
| CodexBar update request (`update.go:144-174`) | none of its own | `updateWebhook` | never runs beside a rebuild; no stale report after it is acknowledged |
| Collection and merge (`plugin.go:187-283`, `604-939`) | the report being built | `collectProviders`, `queryProviders`, `enrichCursor`, `appendAugment`, the retention in `pollOnce` | paused providers stay out; a failure evicts nothing; an unverified team's usage is not shown |
| Session fallback (`plugin.go:980-1086`) | `sessionFallbacks` | `sessionJSON`, `sessionUsageOnDemand`, `fetchSessionUsage` | one fetch per provider and snapshot; nobody inherits a cancellation, an old snapshot's or an old team's result |
| CodexBar installation (`download.go`, `update.go:76-142`) | the cache directory, the selection file, `downloader.mu` | `ensure`, `install`, `publishExtraction`, `update`, `selectedBin` | nothing partial looks installed, whatever is killed when; only a probed release is selected |
| CodexBar runner (`codexbar.go`) | none | `runUsage`, `runUsageFast`, `probeInstall` | the first usable source wins |
| Cursor client, authentication, teams, daily usage (`cursor*.go`) | a renewed token | `fetch`, `fetchTeamUsage`, `fetchDailyUsage`, `cursorAuth` | all parts of one report belong to one account and one team; a partial sum is not shown |
| Augment client (`augment.go`), Copilot (`copilot_*.go`), windows and pace (`usage.go`, `reset_credits.go`), discovery (`discovery.go`) | none | conversions | arithmetic at the boundaries |
| Agent tool (`agent_tool.go`) | none | `providerUsageProjection` | freshness and failures agree with the report |
| UI (`ui/bundle.js`) | component state, request generations | top bar, status bar, settings page, Cursor team settings | an old answer never replaces a newer one; a save in flight is not lost |

### How they interact

- The host calls `SetHost` once, which starts `pollLoop`; webhooks arrive
  concurrently. The host restarts the process when settings are saved, so the
  configuration is fixed for a process, but every read of it is a call that may
  fail, and `config()` turns a failure into an empty configuration.
- Every rebuild runs under `pollMu`. It reads the revision, calls the CLI and
  the APIs, and takes `mu` once more to compare the revision and publish.
  `saveCursorTeam` takes `cursorSettingsMu`, then `mu`, and never `pollMu`: a save
  overtakes a rebuild in flight, and the revision is how the rebuild learns of it.
- An update takes `pollMu` with `TryLock`, then `downloader.mu` with `TryLock`,
  and drops the snapshot before it answers. Session requests run the CLI
  outside `pollMu`, so they meet an update only at `downloader.mu` and on disk.
- A session whose provider the snapshot does not cover shares one fetch with
  other such sessions, keyed by the provider and the snapshot's identity.

### What is hard here

Saves overtake rebuilds (and rebuilds of rebuilds); a report deadline or a
client's context ends between any two steps of a rebuild, after which every
configuration read is empty; a failed step keeps an earlier value that may no
longer be right; the leader of a shared fetch is cancelled under its waiters;
the process is killed between two file operations, or between the host's
`SetState` and the revision; a reply is lost after the host acted.
`PROJECT.json` lists these hazards at their lines with the properties aimed at
them, and the few that no property covers, with the reason.

## Modules

| Module | What it is |
|---|---|
| `UsageSnapshot` | snapshot, poller, team settings and update request, composed |
| `TeamUsage` | abstract specification: a team-scoped register of what is shown and answered |
| `ReportMerge` | collection of a report and its merge with the earlier snapshot |
| `SessionFallback` | shared session fetches over a changing snapshot |
| `ManagedCli` | abstract specification: releases that become usable once, and one of them chosen |
| `CliInstall` | the managed CLI on disk, with crashes |
| `CursorDaily` | the day's spend, summed over pages of a listing that grows |
| `CursorFetch` | one lookup of Cursor's usage: credentials, accounts, parts in flight, team (extends `CursorDaily`) |
| `UsageWindows` | functions: a reported entry's windows, their pace and reset credits |
| `AgentTool` | what the agent tool answers over a history of polls (extends `UsageWindows`) |
| `SettingsPage` | the settings page's requests and generations |
| `MC...` | the instances that TLC checks (`SettingsPage` needs none) |
| `...Proofs` | theorems and their TLAPS proofs; `CursorDailyProofs` holds the lemmas that `CursorFetchProofs` rests on |

### UsageSnapshot

A *thread* is the poll loop, a reading request, a background poll that a save
leaves behind, a team request or an update request. `pc`, `spc` and `upc` say
where each is. What happens under `mu` is one action, because nothing in it waits
for another thread; `pollMu` and `cursorSettingsMu` are held over host calls and
CLI runs and are variables. `pollOnce` is `LockPoll` (with the `maxAge` check
behind which concurrent first loads collapse), `BeginRebuild`, `CursorConfig`,
`FetchCursor`, `Publish` (publish; give up at the deadline; or loop) and `Return`.
`saveCursorTeam` is `StoreTeam` and `BumpRevision`, so that rebuilds can act
between them. Of a report it keeps the Cursor scope and the CLI version that built
it; whether a retained value may stay is `failing`. The revision itself is not
counted: `overtaken` is the set of rebuilds whose revision has moved.
`InForce` defines which team counts: a save takes effect when it drops the
snapshot. `Restart` kills the process and keeps the host's state and the disk.

`ImplementsTeamUsage` refines `TeamUsage` by mapping the team in force, the scope
of the snapshot, and each request's scope and history. `TeamUsage` says in a page
what users rely on: selecting a team empties what is shown in the same step, and
a reader is answered with usage of a team in force during its own request.

### ReportMerge

One rebuild at a time (`UsageSnapshot` shows this), in the order of the code:
`StartReport` reads the configuration that the deferred filter will use, `Probe`,
`ReadAllowlist`, `QueryProviders`, then `CheckCursor`/`FetchCursor` beside
`AppendAugment` (after it in a degraded report), then `Publish`. A report is sets
of provider ids: with usage (`new`), failed (`failed`), silent. Each read of the
configuration is its own choice from `Reads`, which is the operator's
configuration, or the empty one once the context is over or when the host fails.
`Expire` ends the context anywhere. `Expanded`, `Failures` and `Retained` are the
three loops of the merge; `Listed` is the deferred filter. `silent` and `missed` are
history: the providers CodexBar answered without, and those whose own API failed.
What a failure may evict is told from them and not from the report, because the
report does not have every failure: `collectProviders` drops `enrichCursor`'s error.
`FailureEvictsNothing` is what the comment in `pollOnce` promises, and the code
breaks it (`merge_evicts`). `FailureEvictsAtMost` is what the promise comes to. It
names the two exceptions: `Discarded`, that very Cursor, and `Forgotten`, what an
empty configuration does not tell of after the context's end.

### SessionFallback

Requests of one provider (flights of different providers share nothing). A
snapshot is a number for the report's address, which is what the code compares.
`Check` is one turn of the loop in `sessionUsageOnDemand` under `mu`: it ends,
waits on the entry that belongs to the snapshot looked at, or leads a new
flight. `FinishFlight` closes the flight, as aborted when the leader's context is
over. `Poll` and `SaveTeam` are the environment: other requests' rebuilds publish,
and selections drop the snapshot. `floor`, `asked` and `born` are history.
`Chances` and `Distance` say how much a request still has before it
(`RetriesEnd`).

### CliInstall

One process with polls and session requests (`Resolvers`) and updates, on a disk
that outlives it. Each file operation that a kill may separate is an action:
`Extract`, `Write`, `Clear` (RemoveAll), `Rename`, `Select`. `Runnable` looks only at
the kind and mode of a file, as `isRunnableFile` does, so a partial directory
*would* look installed: that it never is one is `NeverHalfInstalled`. A user may
delete the executable of a version in `Deletable`.

`ImplementsManagedCli` refines `ManagedCli`, whose variables are the usable
releases, the selected one, those that have run, and what each caller was given
and has not run yet. It says what the rest of the plugin relies on: a release
becomes usable in one step and whole, a caller is given the selected release
while it is usable and else the pinned one, and finds it usable when it runs it
(unless the user deletes it), only a release that ran is selected, and a kill
forgets who was given what and nothing else. The file operations between an
extraction and its rename are stutters of it.

### CursorFetch and CursorDaily

One lookup (`cursorUsageClient.fetch`), from an enriched CodexBar value
(`base`, an account as it was reported) or from nothing. The lookup takes the
configured credential or the host's sessions in the order of `cursorAuth` and
`alternateAuths`. A credential is the account of its session, the user its token
names and whether it has a token at all; a source may be absent or unusable.
`/api/auth/me` says whose it is, the comparison of accounts (`sameAccount` with ids
and e-mails that may be missing) decides, then the parts are requested together
and answered in any order, each `rejected`, `failed`, or with the team it
declares. A rejection turns to the next session, which has to be the pinned
account. With a team, the member's row is looked up among rows that match by id
or e-mail. The daily spend is a loop over pages (`ReadPage`) while events are
inserted into the listing at any place (`LateEvent`); a cost is a function of its
event, so the sum is kept as the set counted. `SkipDaily` is the early return of
`fetchDailyUsage` for a team without a known user. `CursorDaily` has a
specification of its own (`DailySpec`), which a lookup implements. `Left` and
`Stage` say how much a lookup still has before it. What a mismatch, a rejection or a
partial sum may lead to is what the properties are about; which number becomes
which window is left out.

Assumptions on Cursor: a request is authorised by its session, also where it
carries a user id (`/api/usage?user=`), and the dashboard withdraws no event. An
answer that declares its team but has no usage counts as failed. Events that
arrive before the first page are part of the listing that page sees.

### UsageWindows and AgentTool

`UsageWindows` has no state. A reported entry is a function of its fields, its
extra windows a sequence; selections from it (`SlotsAt`, `ExtrasAt`) are
increasing sequences of positions, given by what they are (`Ordered`) and not by a
fold, so that theorems can be proved of them. `Decoded` merges the two spellings
of a window as `UnmarshalJSON` does, `Windows` leaves absent slots and Codex's
informational window out, `WindowPaces` and `SidePaces` write paces by the index
that `toProviderUsage` counts, and `LinearPace` is the pace itself, in integers
(the floats of the code are taken as exact; a calendar month is the constant
`Month`). In `AgentTool` a poll is one step, because `ReportMerge` and
`UsageSnapshot` model its inside: each provider gets an entry, a failure or
nothing, and earlier values are kept as the merge of `pollOnce` does. A call of
the tool reads the state and the clock and changes nothing, so the answer is the
operator `Record`, and a property of it is an invariant. `entry`, `taken` and
`fresh` are history: what a listed value was made of, when, and by which poll.
Left out: two Augment values in one sweep, and a failed sweep without earlier
values.

### SettingsPage

`SettingsStatus` and the `CursorTeamSettings` inside it. A generation is a flag on
each request, current or stale: counting up makes what is in flight stale
(`Older`, `Left`, `Superseded`). Reads and the update share one generation
(`requestGeneration`), loads and the save another (`configGeneration`), as in the
code. `FetchProviders` has its early returns: closed page, save or update under
way, a read to share. A change has a number once the server has applied it; a
read answers with a version at least as new as when it began, which is what
`UsageSnapshot` shows of the server. A request fails at any step, before or after
the server acted. `Unmount` closes the page under everything that is in flight.
Drafts, validation and messages are left out.

## Runs

| Run | Question | Size |
|---|---|---|
| `snapshot_safe` | Is only usage of the team in force published, handed out and served, does an acknowledged update reach every later reader, and does it all implement `TeamUsage`? | 476 k states |
| `snapshot_live` | Is every request answered, and does a dropped snapshot come back with nobody asking? | liveness |
| `snapshot_lost_reply` | *Violation*: does a refused save leave the selection unchanged? | |
| `merge_safe` | Do paused providers and unverified Cursor usage stay out, and does a failure evict no earlier value but in the two cases named, whatever fails or expires where? | 1.8 M states |
| `merge_evicts` | *Violation*: does a failure evict nothing? (No host failure, no deadline.) | |
| `merge_unpaused` | *Violation*: do paused providers stay out when `GetConfig` fails? | |
| `session_shared` | Do live requests survive cancelled leaders, with one fetch per snapshot, nothing stale or of an earlier team, and an answer for all? | |
| `install_crash` | Can a kill leave something partial that looks installed, can an update disturb a binary in use, move the selection by failing, and does it all implement `ManagedCli`? | 180 k states |
| `cursor_fetch` | Is a report of one account and one team, the account that was pinned, whichever credential is rejected where; does an explicit credential stay; is the day's sum complete or absent; does a lookup end? | 718 k states, liveness |
| `agent_tool` | Are kept values called stale in time, exhaustion and resets announced exactly when they are true of the entry kept, windows named and paced by themselves, and is a mixed answer called partial? | 12 k states, 1.2 M transitions |
| `agent_retained` | *Violation*: is only an earlier poll's value called cached? | |
| `settings_page` | Does the page never block itself, never show what was before an acknowledged change, and in the end show what came of it? | 184 k states, liveness |

### Bounds, and why they are enough

- `snapshot_safe`: the account, one team, and a legacy field that holds it;
  one reader, one background poll, one saver, one updater with one update.
  Selections, rebuilds and restarts are unbounded: saves are told apart by
  `overtaken`, not by a count. Two selections are enough to show a wrong one. A
  second team was run too and adds only time; the theorems below hold for any
  number of teams, readers, background polls, savers and updaters.
- `snapshot_live`: no teams, no restarts, one reader; here the host may lose
  replies and mix configurations. A save of the account again overtakes rebuilds
  as any other does, which is the case that could starve a request.
- `merge_*`: one default provider besides Cursor, one that only the sweep
  returns, and Augment: each class of providers the code tells apart has one
  member. Configurations: nothing, or any one provider that is asked about,
  paused; the default list, the sweep or one listed provider; with and without
  an Augment credential. `merge_evicts` has no faults, so that its counterexample is
  the plain one. Under `Faults <- MCDeadline` TLC finds another first, that of an
  Augment value after the context's end: the exception `Forgotten`.
- `session_shared`: two requests, three reports, one selection. A late leader of
  an old snapshot against a new flight needs two of each. What only a third
  request can do, lead again where an entry was removed under a live flight, is
  beyond the instance: three requests with two and three reports were run as well,
  without an error (two reports take more than five minutes with the liveness
  property), and `FetchedOnceSafe` holds for any number.
- `install_crash`: three releases, the pinned one deletable: the pin, a selected
  one and a newer one, which is the most the code tells apart; two resolvers and
  one updater; restarts without bound. Deadlock is checked in every run but
  `session_shared`, whose requests are asked once and then end.

- `cursor_fetch`: two accounts are enough to mix up two; the credentials are
  every kind the code tells apart for the account of Cursor Desktop, and one of
  the other account (exchanging the accounts gives the rest). Pages of one and
  two events, at most two pages, three events: a shifted page, a short one, an
  empty one and one beyond the limit all occur.
- `agent_tool`: an interval of one, so that values become stale at two, and a clock
  up to 4; four entries of Codex and two of Copilot, chosen for absent slots,
  informational windows between others, both spellings, exhausted windows whose
  resets pass, and dates behind and ahead of the poll.
- `settings_page`: three changes and two failures, which is a save beside a team
  change beside somebody else's, each of two failing. Reads are unbounded; what is
  in flight is a set, so equal requests coincide.

### Fairness

Stated beside each specification. The poll loop's timer fires; every CLI run,
host call, download and probe ends, because each has a context deadline and
`WaitDelay` bounds a killed child; so each step of a started operation is weakly
fair. A Go mutex is handed to a waiter after a millisecond of starvation, so
taking a lock is strongly fair. Clients owe nothing: no fairness on asking,
saving, updating or leaving, and none on a host that answers well. For this
reason a request whose rebuild is overtaken by saves for ever is answered only
by its deadline (`Expire`), which is what the code relies on. `ReportMerge` states
fairness of the rebuild itself although none of its properties needs it: its
counterexamples are of a plugin that keeps polling. In `CursorFetch` every request
has a time limit, so the lookup as a whole is weakly fair. In `SettingsPage` the
browser runs the interval while the page is open, and the server answers or fails
the current read, the save and the update, as shown by `RequestsAnswered`; nothing
is asked of the user. An answer may fail, and the bound on failures stands for a
server that does not fail for ever.

## What is proved

For all values of the constants, checked by TLAPS. `PROJECT.json` lists each
theorem with the property it states.

**UsageSnapshotProofs.** `TypeCorrect`. `Mutexes`: each mutex's holder is the one
thread in its critical section. `ShownScopeSafe`, `AnswerScopeSafe`,
`HandedOutScopeSafe`: the scope theorems, on the assumptions `~LostReply` (the
host applies what it acknowledges) and `~MixedConfig` (the reads of one rebuild
agree). The invariant adds to `ShownInForce` what a rebuild in flight carries:
unless it is overtaken, its scope and its report are of the team in force, or of
nobody, at every step between the revision and the comparison; and a saver between
`SetState` and the revision remembers the selection that is still in force.
`ShownInForce` alone is not inductive, since a rebuild brings its report from an
earlier moment. `UpdateReachesReadersSafe` has no assumption on the host: a report
in flight and a snapshot carry at least the acknowledged CLI version, since an
update holds `pollMu` throughout. `RefinesTeamUsage`: initial states map to
initial states and each step to a step of `TeamUsage` or a stutter.

**ReportMergeProofs.** `TypeCorrect`. `PausedStaysOutSafe`: while the host answers
`GetConfig` (`"host" \notin Faults`), a rebuild whose filter is not the operator's
has an expired context, hence a degraded report without usage, hence nothing to
filter (`FilterInv`); `merge_unpaused` shows the assumption is needed.
`UnverifiedCursorOutSafe` needs no assumption: once `barred`, Cursor is not in the
report and not retainable (`VerifyInv`). `FailureEvictsAtMostHolds`, again while the host answers: what is shown
came from a provider the configuration has asked (`SourceInv`). Each such provider
has answered, failed, stayed silent or been barred, or a global failure stands for
all; after the context's end this is known of the default providers (`CoverInv`).
What is listed as failed the merge retains, and of the two providers with an API of
their own Augment's failure is always listed (`MissedInv`), so that Cursor is the
only one that can be silent and failed at once. `merge_evicts` shows that this
exception is needed.

**SessionFallbackProofs.** All four safety properties, for any number of
requests, reports and selections, without an assumption on the environment.
`FallbackInv` has a part for each. `LeaderInv`: a request that has led a flight never
leads again, so an entry keeps its snapshot, and whoever waits waits on an
entry. `CurrentInv`: what a request looks at, leads for or waits on is not older
than the snapshot it may be answered with. `ScopeInv`: nor was that snapshot
built before the selection in force when it asked, and a flight reads its team
after its snapshot was built. `OnceInv`: the entry is the published snapshot's
only live flight.

`RetriesEndHolds` is what of `RequestsAnswered` needs no fairness: each step of a
request takes it nearer to its answer or costs it one of the flights it can be
disappointed by, an aborted flight disappoints nobody twice (`EntryInv`: it is
never the entry), and no step of another actor takes a request further away.

**CliInstallProofs.** All safety properties, for any releases and threads and any
set of deletable ones, and `RefinesManagedCli`. `LockInv`: whoever is past the
lock holds it. `InstallInv`: a directory that an installation clears was not
runnable, and what it renames into place is whole; hence no binary in use is
touched. `SelectInv`: between the probe and the selection the probed release
stays. `ChoiceInv`: a resolver installs the pinned release, and only while the
selected one is not there. For the refinement each action is mapped by a lemma: finding an
installed release gives it, the rename publishes, for a resolver giving in the
same step, the probe verifies, the selection selects; extracting, writing and
clearing change none of its variables.

**CursorDailyProofs, CursorFetchProofs.** `InvHolds`, and from it
`OneAccountHolds`, `BaseAccountHolds`, `PinnedAccountHolds`, `ExplicitStaysHolds`,
`StaleFallsThroughHolds`, `TeamScopedHolds`, `OwnRowHolds` and
`DailyCompleteInFetch`, for any accounts, credentials, events and pages.
`PartsInv` gives the two about teams: nothing is asked for before the account is
known, an attempt that failed leaves no part of it behind (so the next
credential's parts are not joined with the last one's), and a member's row is
taken in the very step in which what is not used is dropped. The daily part is an
invariant of its own (`DailyInv`): as long as the listing is as long as the first
page said, exactly the events that were passed are counted, once each; an
insertion changes the total, which ends the sum. `FollowsDaily` is the
composition: a lookup reads one history by the steps of `DailySpec` and no others,
whatever credentials it tries. `AdvancesHolds` is what of `LookupEnds` needs no
fairness: each step leaves the lookup fewer credentials (`Left`), or as many and
less to do with the one in use (`Stage`, which counts the parts in flight and the
pages left), and by `MeasuresTyped` both are natural numbers as long as it goes
on. `PagesInv` bounds the pages.

**AgentToolProofs.** `HistoryInv` says that a listed value is dated by its entry or
by the poll that took it, not later than now, and that a value without a failure
is of the last poll, and that what is listed of a provider is a function of the
entry it was made of and of the time it was taken, so that windows and paces of
different polls are never mixed. It gives `FreshIsRecentHolds`, `PartialToldHolds`,
`ExhaustionStandsHolds`, `NamesStayHolds`, `OwnPaceHolds` and `PaceTellsHolds`, for
every set of entries and every interval. An entry is assumed to have the fields and
the types of the JSON it is decoded from (`EntryType`), each number an integer or
absent. What is listed is an increasing sequence of
positions, and that there is one, that it is the only one, and which place a window
has in it (`OwnPace`) follows from the least-number principle in its set form; no
induction is needed. `ExhaustionStandsHolds` goes both ways between the entry kept and
the answer: while the entry is recent, exhaustion is claimed of a provider and of a
slot's window exactly when such a slot is used up (`ExhaustingAreSpent`,
`SpentIsSaid`), and the reset announced is the first of theirs to come
(`ReasonIsFirst`); later nothing is claimed (`NothingClaimed`). `NamesStayHolds` speaks
of ids that one extra window has, as
the code does not tell two with the same id apart. `PaceTellsHolds` rests on a lemma
about the rounding of the quotients in `LinearPace`.

**SettingsPageProofs.** `PageInv` is inductive, for any number of changes and
failures. Besides the properties it says that at most one read is current, which
began after all that is shown or acknowledged (`ReadInv`), that only a request that
will be heeded keeps the page busy (`BusyInv`: without it an update's answer could
come while a read is pending, and acknowledge what that read is too old for), and
that settings are loaded once (`ConfigInv`), so that no retry supersedes a save.
`NeverBackHolds` follows because only an answer that is heeded changes what is shown.

**Type correctness** is a theorem of each component's proofs (`TypeCorrect`,
`TypeOKHolds`) and not an invariant of the runs.

**Only model-checked.** The liveness properties (`RequestsAnswered` of
`UsageSnapshot` and of `SessionFallback`, `SnapshotReturns`, `EnsureReturns`,
`LookupEnds`, `AckedIsShown`), which need fairness and `ENABLED`; and the four
runs that expect a violation. Every other property of a passing run is a theorem,
under the assumptions named above where there are any. All invariants and action
properties of the proofs were model-checked on the instances above before they
were proved.

## Findings

1. `snapshot_lost_reply`: `saveCursorTeam` answers any error of `SetState` with
   "Your previous selection is unchanged." (`cursor_settings.go:195`). When the
   host applied the call and only its reply was lost, the selection has changed,
   the revision has not moved, and the earlier team's snapshot stays published.
2. `merge_evicts`: "A failed provider probe must not evict a still-useful value from
   the previous poll" (`plugin.go:202-203`), but it may be Cursor's. When CodexBar
   runs and answers without Cursor, `collectProviders` drops the error of
   `enrichCursor` (`plugin.go:673`; the degraded path lists it, `plugin.go:648`). If the
   Cursor API, which gave the published value, then fails in an ordinary way,
   Cursor is in neither list of the report, and the merge, which retains only what
   is listed as failed, drops the value.
3. `merge_unpaused`: one failed `GetConfig` at the start of a rebuild publishes
   usage of paused providers until the next poll, against `README.md:265`. The same
   empty configuration is what every read yields after the context's end (the
   deadline, or a `?refresh=1` client that left): Augment is then taken for
   unconfigured and its value, like that of any provider that is not asked by
   default, may leave the snapshot. `Forgotten` in `FailureEvictsAtMost` names this.
4. `agent_retained`: with the sweep over all providers, CodexBar may list an error
   of Augment, which it "can't read ... on non-macOS hosts" (`plugin.go:800`), while
   `appendAugment` fetches its value in the same poll (`plugin.go:670-676`). Both stay
   in the report, so the tool calls a value of this very refresh "cached telemetry"
   after a failed refresh (`agent_tool.go:65`), and every answer partial.

## Not modelled

- Archive extraction and its path checks, local credential stores, the key
  chain, credential files: file formats and cryptography without shared state.
- Command lines, JSON decoding, labels and hints; `providerForSession` and
  `resolveProvider` (string matching); `latestAsset` and `runUsageFast` (the first
  that works): their results are outcomes.
- The Augment and Copilot clients and Cursor's windows: one request each and a
  mapping of its numbers.
- The top bar, the status bar and the pill and appearance settings: rendering.
  Their reads of one session share a generation, so a late answer may replace a
  newer one until the next tick (`bundle.js:915`); the page's rules do not exist there.
- Two plugin processes over one cache directory: the host decides how many there
  are. Two settings pages that save at once: the host has no conditional PATCH.
- Release scripts.

## What could come next

The top bar's panel with late answers against a server that changes; Cursor's
windows beside those of `UsageWindows`; a measure of a rebuild's turns in
`UsageSnapshot` and of the page's retries in `SettingsPage`, as `RetriesEnd` and
`Advances` are for the other two loops.
