---------------------------- MODULE UsageSnapshot ----------------------------
(***************************************************************************)
(* The snapshot at the heart of the plugin (src/server/plugin.go): who     *)
(* rebuilds it, who reads it, and what a Cursor team selection             *)
(* (cursor_settings.go) and a CLI update (update.go) do to it while a      *)
(* rebuild is in flight.                                                   *)
(*                                                                         *)
(* A thread is the poll loop, a reading webhook request, a background poll *)
(* spawned by a save, a team-selection request or an update request.  A    *)
(* critical section of plugin.mu is one action, because nothing that       *)
(* blocks on another thread happens inside it; pollMu and cursorSettingsMu *)
(* are held over host calls and CLI runs and are therefore variables.      *)
(*                                                                         *)
(* Of a report the model keeps what the promises are about: the team its   *)
(* Cursor usage belongs to, whether Cursor is listed as an ordinary        *)
(* failure, and the managed CLI version that built it.                     *)
(***************************************************************************)
EXTENDS Naturals

CONSTANTS
    Teams,          \* Cursor team ids
    Personal,       \* the empty selection: account usage
    Legacy,         \* the selection the old manual config field holds
    Absent,         \* the host's plugin state has no selection
    NoUsage,        \* a report without Cursor usage
    NoSnapshot,     \* the nil snapshot; a request not answered yet
    NoAnswer,       \* TeamUsage's value for a request not answered yet
    NoOne,          \* an unlocked mutex
    PollLoop,       \* the poll loop
    Readers,        \* providers, status, overview and session requests
    BgPolls,        \* background polls; their number bounds those in flight
    Savers,         \* cursor-team requests
    Updaters,       \* update requests
    MaxCli,         \* bound: successful CLI updates
    Crashes,        \* the plugin process may be killed and restarted
    LostReply,      \* SetState may fail at the caller yet be applied
    MixedConfig     \* the reads of the configuration within one rebuild may
                    \* disagree, because one of them fails

Selections == Teams \union {Personal}
Pollers == {PollLoop} \union Readers \union BgPolls

ASSUME ConstantsAssumption ==
    /\ Legacy \in Selections
    /\ Absent \notin Selections
    /\ NoUsage \notin Selections
    /\ NoAnswer \notin Selections \union {NoUsage}
    /\ NoSnapshot \notin [usage : Selections \union {NoUsage},
                          cli : 0..MaxCli]
    /\ NoOne \notin Pollers \union Savers \union Updaters
    /\ PollLoop \notin Readers
    /\ BgPolls \intersect (Readers \union {PollLoop}) = {}
    /\ Updaters \intersect Pollers = {}
    /\ MaxCli \in Nat

ASSUME FlagsAssumption == {Crashes, LostReply, MixedConfig} \subseteq BOOLEAN

VARIABLES
    stored,         \* host state "cursor-team" (survives a restart)
    cli,            \* managed CLI version selected on disk (survives too)
    pollMu,
    settingsMu,     \* cursorSettingsMu
    snap,           \* snapshot
    age,            \* "old" once now - snapshotAt >= cacheTTL
    pc,             \* pc[t]: where poller t is
    spc,            \* spc[s]: where saver s is
    upc,            \* upc[u]: where updater u is
    ttl,            \* the pollers that called pollOnce with maxAge = cacheTTL
    late,           \* the pollers whose report deadline or context is over
    overtaken,      \* the pollers whose revision is no longer the current
                    \* cursorSelectionRevision: a team was saved since
    scope,          \* the selection t's rebuild read
    rep,            \* the report t builds or is about to return
    failing,        \* the pollers whose report lists Cursor as unavailable
                    \* for an ordinary reason: its earlier value may stay
    want,           \* the selection a saver was asked for
    \* history variables
    prev,           \* the selection a saver in its critical section replaces
    seen,           \* seen[r]: the selections in force since r asked
    floor,          \* floor[r]: the last acknowledged CLI update when r asked
    acked,          \* the CLI version of the last update answered with 200
    answer,         \* answer[r]: the report r's request was answered with
    refused         \* the savers told "Your previous selection is unchanged"
                    \* although their request changed it

disk == <<stored, cli>>
memory == <<snap, age>>
locks == <<pollMu, settingsMu>>
rebuild == <<ttl, late, overtaken, scope, rep, failing>>
history == <<seen, floor, acked, answer, refused>>
pcs == <<pc, spc, upc>>
vars == <<disk, memory, locks, pcs, rebuild, want, prev, history>>

Reports == [usage : Selections \union {NoUsage}, cli : 0..MaxCli]
Report(u, c) == [usage |-> u, cli |-> c]
EmptyReport == Report(NoUsage, 0)

PollerPcs == {"idle", "peek", "wait", "revision", "cursor", "fetch", "merge",
              "return", "answered"}
SaverPcs == {"idle", "check", "store", "bump", "respond"}
UpdaterPcs == {"idle", "update", "expire", "respond"}

\* What cursorConfig returns: a stored selection, empty or not, overrides the
\* legacy field.
Selected == IF stored = Absent THEN Legacy ELSE stored

\* A selection comes into force when the saver clears the snapshot, not when
\* the host has stored it.
InForce == IF settingsMu = NoOne THEN Selected ELSE prev[settingsMu]

TypeOK ==
    /\ stored \in Selections \union {Absent}
    /\ cli \in 0..MaxCli
    /\ pollMu \in Pollers \union Updaters \union {NoOne}
    /\ settingsMu \in Savers \union {NoOne}
    /\ snap \in Reports \union {NoSnapshot}
    /\ age \in {"fresh", "old"}
    /\ pc \in [Pollers -> PollerPcs]
    /\ spc \in [Savers -> SaverPcs]
    /\ upc \in [Updaters -> UpdaterPcs]
    /\ ttl \subseteq Pollers
    /\ late \subseteq Pollers
    /\ failing \subseteq Pollers
    /\ overtaken \subseteq Pollers
    /\ scope \in [Pollers -> Selections]
    /\ rep \in [Pollers -> Reports]
    /\ want \in [Savers -> Selections]
    /\ prev \in [Savers -> Selections]
    /\ seen \in [Readers -> SUBSET Selections]
    /\ floor \in [Readers -> 0..MaxCli]
    /\ acked \in 0..MaxCli
    /\ answer \in [Readers -> Reports \union {NoSnapshot}]
    /\ refused \subseteq Savers

\* (Mutant) Saving a team does not move the revision.
RebuildingNone == {}

\* Between reading the revision and comparing it again.
Rebuilding == {t \in Pollers : pc[t] \in {"cursor", "fetch", "merge"}}

Waiting(r) == pc[r] \notin {"idle", "answered"}

Fresh(f, S, v) == f = [t \in S |-> v]

\* SetHost starts the poll loop, which polls at once.
Started == [t \in Pollers |-> IF t = PollLoop THEN "wait" ELSE "idle"]

Init ==
    /\ stored \in Selections \union {Absent}
    /\ cli = 0
    /\ pollMu = NoOne
    /\ settingsMu = NoOne
    /\ snap = NoSnapshot
    /\ age = "fresh"
    /\ pc = Started
    /\ Fresh(spc, Savers, "idle")
    /\ Fresh(upc, Updaters, "idle")
    /\ ttl = {}
    /\ late = {}
    /\ failing = {}
    /\ overtaken = {}
    /\ Fresh(scope, Pollers, Personal)
    /\ Fresh(rep, Pollers, EmptyReport)
    /\ Fresh(want, Savers, Personal)
    /\ Fresh(prev, Savers, Personal)
    /\ Fresh(seen, Readers, {})
    /\ Fresh(floor, Readers, 0)
    /\ acked = 0
    /\ Fresh(answer, Readers, NoSnapshot)
    /\ refused = {}

Go(t, from, to) ==
    /\ pc[t] = from
    /\ pc' = [pc EXCEPT ![t] = to]
    /\ UNCHANGED <<spc, upc>>

SaverGo(s, from, to) ==
    /\ spc[s] = from
    /\ spc' = [spc EXCEPT ![s] = to]
    /\ UNCHANGED upc

UpdaterGo(u, from, to) ==
    /\ upc[u] = from
    /\ upc' = [upc EXCEPT ![u] = to]
    /\ UNCHANGED <<pc, spc>>

(***************************************************************************)
(* Starting a poll.                                                        *)
(***************************************************************************)
\* (Mutant) The loop only refreshes a snapshot that exists.
TickRefreshesOnly ==
    /\ snap # NoSnapshot
    /\ Go(PollLoop, "idle", "wait")
    /\ UNCHANGED <<disk, memory, locks, rebuild, want, prev, history>>

\* pollLoop: the interval timer fires and the loop polls unconditionally.
Tick ==
    /\ Go(PollLoop, "idle", "wait")
    /\ UNCHANGED <<disk, memory, locks, rebuild, want, prev, history>>

\* A webhook request arrives; ?refresh=1 goes straight to pollOnce(ctx, 0).
Ask(r) ==
    /\ \/ /\ Go(r, "idle", "wait")
          /\ ttl' = ttl \ {r}
       \/ /\ Go(r, "idle", "peek")
          /\ UNCHANGED ttl
    /\ seen' = [seen EXCEPT ![r] = {InForce}]
    /\ floor' = [floor EXCEPT ![r] = acked]
    /\ UNCHANGED <<disk, memory, locks, late, overtaken, scope, rep, failing,
                   want, prev, acked, answer, refused>>

\* snapshotForRead without refresh: serve the current snapshot, else build
\* one that concurrent first loads may share.
Peek(r) ==
    /\ \/ /\ snap # NoSnapshot
          /\ Go(r, "peek", "answered")
          /\ answer' = [answer EXCEPT ![r] = snap]
          /\ UNCHANGED ttl
       \/ /\ snap = NoSnapshot
          /\ Go(r, "peek", "wait")
          /\ ttl' = ttl \union {r}
          /\ UNCHANGED answer
    /\ UNCHANGED <<disk, memory, locks, late, overtaken, scope, rep, failing,
                   want, prev, seen, floor, acked, refused>>

(***************************************************************************)
(* pollOnce, serialized by pollMu.                                         *)
(***************************************************************************)
\* Taking the lock and the maxAge check behind which concurrent first loads
\* collapse; a fresh snapshot ends the call.
LockPoll(t) ==
    /\ pollMu = NoOne
    /\ pollMu' = t
    /\ LET hit == t \in ttl /\ snap # NoSnapshot /\ age = "fresh"
       IN  \/ /\ hit
              /\ Go(t, "wait", "return")
              /\ rep' = [rep EXCEPT ![t] = snap]
           \/ /\ ~hit
              /\ Go(t, "wait", "revision")
              /\ UNCHANGED rep
    /\ UNCHANGED <<disk, memory, settingsMu, ttl, late, overtaken, scope,
                   failing, want, prev, history>>

\* The 45 s report deadline passes, or the request's own context ends. It is
\* consulted by the fetch and when a rebuild finds its revision overtaken.
Expire(t) ==
    /\ pc[t] \in {"revision", "cursor", "fetch", "merge"}
    /\ t \notin late
    /\ late' = late \union {t}
    /\ UNCHANGED <<disk, memory, locks, pcs, ttl, overtaken, scope, rep,
                   failing, want, prev, history>>

\* (Mutant) A rebuild that is overtaken never looks at the deadline.
TimedOutNever(t) == FALSE

TimedOut(t) == t \in late

\* One turn of pollOnce's loop: the revision is read, then collectProviders
\* resolves the CLI, which cannot change while pollMu is held, and queries it.
\* Cursor may be left out of the poll by configuration; a failed probe then
\* lists it as failed if there is an earlier value to keep (see Merged). When
\* collectProviders read Cursor as enabled and enrichCursor reads it as paused,
\* the CLI's account-wide value stays in the report as it is.
BeginRebuild(t) ==
    /\ overtaken' = overtaken \ {t}
    /\ \/ /\ Go(t, "revision", "cursor")
          /\ failing' = failing \ {t}
          /\ rep' = [rep EXCEPT ![t] = Report(NoUsage, cli)]
       \/ /\ Go(t, "revision", "merge")
          /\ failing' \in {failing \ {t}, failing \union {t}}
          /\ rep' = [rep EXCEPT ![t] = Report(NoUsage, cli)]
       \/ /\ MixedConfig
          /\ Go(t, "revision", "merge")
          /\ failing' = failing \ {t}
          /\ rep' = [rep EXCEPT ![t] = Report(Personal, cli)]
    /\ UNCHANGED <<disk, memory, locks, ttl, late, scope, want, prev,
                   history>>

\* (Mutant) An explicit selection, the empty one too, gives way to the field.
MigrateAlways == stored' = IF Legacy # Personal THEN Legacy ELSE stored

\* cursorConfig moves a legacy team into the host's state, once.
MigrateLegacy == stored' = IF stored = Absent /\ Legacy # Personal
                           THEN Legacy ELSE stored

\* cursorConfig, under cursorSettingsMu: either the selection, after moving a
\* legacy team into the host's state, or an error, which leaves the report
\* without Cursor and bars the earlier value (cursorVerificationFailed).
CursorConfig(t) ==
    /\ settingsMu = NoOne
    /\ \/ /\ Go(t, "cursor", "fetch")
          /\ MigrateLegacy
          /\ scope' = [scope EXCEPT ![t] = Selected]
       \/ /\ Go(t, "cursor", "merge")
          /\ UNCHANGED <<stored, scope>>
    /\ UNCHANGED <<cli, memory, locks, ttl, late, overtaken, rep, failing,
                   want, prev, history>>

\* The fetch uses the selection read before it. A failure for a selected team
\* is a failed verification; for the account the CLI's own value stands, or
\* Cursor is listed as an ordinary failure.
FetchCursor(t) ==
    /\ Go(t, "fetch", "merge")
    /\ \/ /\ ~TimedOut(t) \/ scope[t] = Personal
          /\ rep' = [rep EXCEPT ![t] = Report(scope[t], rep[t].cli)]
          /\ UNCHANGED failing
       \/ /\ failing' = IF scope[t] = Personal THEN failing \union {t}
                        ELSE failing
          /\ UNCHANGED rep
    /\ scope' = [scope EXCEPT ![t] = Personal]
    /\ UNCHANGED <<disk, memory, locks, ttl, late, overtaken, want, prev,
                   history>>

\* An ordinary failure keeps the earlier value; a failed verification drops it.
Merged(t) ==
    IF t \in failing /\ snap # NoSnapshot
    THEN Report(snap.usage, rep[t].cli)
    ELSE rep[t]

\* (Mutant) The report of an overtaken rebuild is handed out as it is.
GivenUpAsIs(t) == rep[t]

\* At the deadline Cursor moves to the failures (cursorUnavailable).
GivenUp(t) == Report(NoUsage, rep[t].cli)

\* The end of one turn of pollOnce's loop, under mu: publish unless a team was
\* saved since the revision was read; else rebuild, or give up at the deadline
\* with a report that names no Cursor usage and is not published.
Publish(t) ==
    /\ \/ /\ t \notin overtaken
          /\ Go(t, "merge", "return")
          /\ snap' = Merged(t)
          /\ age' = "fresh"
          /\ rep' = [rep EXCEPT ![t] = Merged(t)]
       \/ /\ t \in overtaken
          /\ TimedOut(t)
          /\ Go(t, "merge", "return")
          /\ rep' = [rep EXCEPT ![t] = GivenUp(t)]
          /\ UNCHANGED <<snap, age>>
       \/ /\ t \in overtaken
          /\ ~TimedOut(t)
          /\ Go(t, "merge", "revision")
          /\ UNCHANGED <<snap, age, rep>>
    /\ UNCHANGED <<disk, locks, ttl, late, overtaken, scope, failing, want,
                   prev, history>>

\* The client has its answer: what the model remembers of the request ends.
Done(r) ==
    /\ Go(r, "answered", "idle")
    /\ seen' = [seen EXCEPT ![r] = {}]
    /\ floor' = [floor EXCEPT ![r] = 0]
    /\ answer' = [answer EXCEPT ![r] = NoSnapshot]
    /\ UNCHANGED <<disk, memory, locks, rebuild, want, prev, acked, refused>>

\* pollOnce returns and its deferred calls release pollMu; a webhook answers.
Return(t) ==
    /\ Go(t, "return", IF t \in Readers THEN "answered" ELSE "idle")
    /\ pollMu' = NoOne
    /\ ttl' = ttl \ {t}
    /\ late' = late \ {t}
    /\ overtaken' = overtaken \ {t}
    /\ rep' = [rep EXCEPT ![t] = EmptyReport]
    /\ failing' = failing \ {t}
    /\ answer' = IF t \in Readers THEN [answer EXCEPT ![t] = rep[t]]
                 ELSE answer
    /\ UNCHANGED <<disk, memory, settingsMu, scope, want, prev, seen, floor,
                   acked, refused>>

\* The snapshot gets older than cacheTTL.
Age ==
    /\ snap # NoSnapshot
    /\ age = "fresh"
    /\ age' = "old"
    /\ UNCHANGED <<disk, snap, locks, pcs, rebuild, want, prev, history>>

(***************************************************************************)
(* cursorTeamWebhook and saveCursorTeam.                                   *)
(***************************************************************************)
\* cursorTeamsWebhook: listing the teams reads the selection, and moves a
\* legacy team too. Its answer is not followed.
ListTeams ==
    /\ settingsMu = NoOne
    /\ MigrateLegacy
    /\ UNCHANGED <<cli, memory, locks, pcs, rebuild, want, prev, history>>

\* The empty selection needs no lookup, a team is checked first.
AskSave(s, sel) ==
    /\ SaverGo(s, "idle", IF sel = Personal THEN "store" ELSE "check")
    /\ want' = [want EXCEPT ![s] = sel]
    /\ UNCHANGED <<disk, memory, locks, pc, rebuild, prev, history>>

\* cursorConfig (with its migration) and the team lookup; an error, or a team
\* that is not available, ends the request.
CheckTeam(s) ==
    /\ settingsMu = NoOne
    /\ \/ /\ SaverGo(s, "check", "store")
          /\ MigrateLegacy
          /\ UNCHANGED want
       \/ /\ SaverGo(s, "check", "idle")
          /\ MigrateLegacy \/ UNCHANGED stored
          /\ want' = [want EXCEPT ![s] = Personal]
    /\ UNCHANGED <<cli, memory, locks, pc, rebuild, prev, history>>

\* saveCursorTeam locks cursorSettingsMu and stores the selection. An error
\* releases the lock and is answered "Your previous selection is unchanged".
StoreTeam(s) ==
    /\ settingsMu = NoOne
    /\ \/ /\ SaverGo(s, "store", "bump")
          /\ settingsMu' = s
          /\ prev' = [prev EXCEPT ![s] = Selected]
          /\ stored' = want[s]
          /\ UNCHANGED <<want, refused>>
       \/ /\ SaverGo(s, "store", "idle")
          /\ \/ UNCHANGED <<stored, refused>>
             \/ /\ LostReply
                /\ stored' = want[s]
                /\ refused' = IF want[s] = Selected THEN refused
                            ELSE refused \union {s}
          /\ want' = [want EXCEPT ![s] = Personal]
          /\ UNCHANGED <<settingsMu, prev>>
    /\ UNCHANGED <<cli, memory, pollMu, pc, rebuild, seen, floor, acked,
                   answer>>

\* (Mutant) The snapshot of the earlier selection stays.
BumpKeepsSnapshot(s) ==
    /\ SaverGo(s, "bump", "respond")
    /\ settingsMu' = NoOne
    /\ overtaken' = Rebuilding
    /\ UNCHANGED memory
    /\ want' = [want EXCEPT ![s] = Personal]
    /\ prev' = [prev EXCEPT ![s] = Personal]
    /\ seen' = [r \in Readers |-> IF Waiting(r) THEN seen[r] \union {Selected}
                                  ELSE seen[r]]
    /\ UNCHANGED <<disk, pollMu, pc, ttl, late, scope, rep, failing, floor,
                   acked, answer, refused>>

\* Then, under mu, the revision moves and the snapshot is dropped.
BumpRevision(s) ==
    /\ SaverGo(s, "bump", "respond")
    /\ settingsMu' = NoOne
    /\ overtaken' = Rebuilding
    /\ snap' = NoSnapshot
    /\ age' = "fresh"
    /\ want' = [want EXCEPT ![s] = Personal]
    /\ prev' = [prev EXCEPT ![s] = Personal]
    /\ seen' = [r \in Readers |-> IF Waiting(r) THEN seen[r] \union {Selected}
                                  ELSE seen[r]]
    /\ UNCHANGED <<disk, pollMu, pc, ttl, late, scope, rep, failing, floor,
                   acked, answer, refused>>

\* The request is answered and leaves a background poll behind. A poll beyond
\* the bound that BgPolls sets is not followed.
RespondSave(s) ==
    /\ SaverGo(s, "respond", "idle")
    /\ LET idle == {b \in BgPolls : pc[b] = "idle"}
       IN  \/ \E b \in idle :
                /\ pc' = [pc EXCEPT ![b] = "wait"]
                /\ ttl' = ttl \union {b}
           \/ /\ idle = {}
              /\ UNCHANGED <<pc, ttl>>
    /\ UNCHANGED <<disk, memory, locks, late, overtaken, scope, rep, failing,
                   want, prev, history>>

(***************************************************************************)
(* updateWebhook.                                                          *)
(***************************************************************************)
\* (Mutant) The result of TryLock is not looked at.
AskUpdateBusy(u) ==
    /\ UpdaterGo(u, "idle", "update")
    /\ pollMu' = u
    /\ UNCHANGED <<disk, memory, settingsMu, rebuild, want, prev, history>>

\* TryLock: an update never queues behind a rebuild. A busy plugin, and a CLI
\* the plugin does not manage, are refused without a step.
AskUpdate(u) ==
    /\ pollMu = NoOne
    /\ UpdaterGo(u, "idle", "update")
    /\ pollMu' = u
    /\ UNCHANGED <<disk, memory, settingsMu, rebuild, want, prev, history>>

\* downloader.update: the new version is selected on disk, or an error leaves
\* everything as it was.
UpdateCli(u) ==
    /\ \/ /\ cli < MaxCli
          /\ UpdaterGo(u, "update", "expire")
          /\ cli' = cli + 1
          /\ UNCHANGED pollMu
       \/ /\ UpdaterGo(u, "update", "idle")
          /\ pollMu' = NoOne
          /\ UNCHANGED cli
    /\ UNCHANGED <<stored, memory, settingsMu, rebuild, want, prev, history>>

\* (Mutant) The snapshot outlives the CLI that built it.
ExpireNothing(u) ==
    /\ UpdaterGo(u, "expire", "respond")
    /\ UNCHANGED <<disk, memory, locks, rebuild, want, prev, history>>

\* The snapshot of the old CLI is expired before the request is answered.
ExpireSnapshot(u) ==
    /\ UpdaterGo(u, "expire", "respond")
    /\ snap' = NoSnapshot
    /\ UNCHANGED <<disk, age, locks, rebuild, want, prev, history>>

RespondUpdate(u) ==
    /\ UpdaterGo(u, "respond", "idle")
    /\ pollMu' = NoOne
    /\ acked' = cli
    /\ UNCHANGED <<disk, memory, settingsMu, rebuild, want, prev, seen, floor,
                   answer, refused>>

(***************************************************************************)
(* The process is killed and started again: memory is lost, the host's     *)
(* state and the selected CLI stay, and SetHost starts a new poll loop.    *)
(***************************************************************************)
Restart ==
    /\ Crashes
    /\ pollMu' = NoOne
    /\ settingsMu' = NoOne
    /\ snap' = NoSnapshot
    /\ age' = "fresh"
    /\ pc' = Started
    /\ Fresh(spc', Savers, "idle")
    /\ Fresh(upc', Updaters, "idle")
    /\ ttl' = {}
    /\ late' = {}
    /\ failing' = {}
    /\ overtaken' = {}
    /\ Fresh(scope', Pollers, Personal)
    /\ Fresh(rep', Pollers, EmptyReport)
    /\ Fresh(want', Savers, Personal)
    /\ Fresh(prev', Savers, Personal)
    /\ Fresh(seen', Readers, {})
    /\ Fresh(floor', Readers, 0)
    /\ Fresh(answer', Readers, NoSnapshot)
    /\ UNCHANGED <<disk, acked, refused>>

Rebuild(t) ==
    \/ BeginRebuild(t) \/ CursorConfig(t) \/ FetchCursor(t)
    \/ Publish(t) \/ Return(t)

Poll(t) == LockPoll(t) \/ Rebuild(t) \/ Expire(t)

Save(s) ==
    \/ \E sel \in Selections : AskSave(s, sel)
    \/ CheckTeam(s) \/ StoreTeam(s) \/ BumpRevision(s) \/ RespondSave(s)

Update(u) ==
    AskUpdate(u) \/ UpdateCli(u) \/ ExpireSnapshot(u) \/ RespondUpdate(u)

Next ==
    \/ Tick
    \/ Age
    \/ ListTeams
    \/ Restart
    \/ \E r \in Readers : Ask(r) \/ Peek(r) \/ Done(r)
    \/ \E t \in Pollers : Poll(t)
    \/ \E s \in Savers : Save(s)
    \/ \E u \in Updaters : Update(u)

(***************************************************************************)
(* Every goroutine is scheduled, the interval timer fires, deadlines pass, *)
(* host calls and CLI runs end (each has a context deadline, and WaitDelay *)
(* bounds a killed CLI).  A Go mutex is handed to a waiter after 1 ms of   *)
(* starvation, hence strong fairness where a lock is taken.  Clients owe   *)
(* nothing: no fairness on Ask, AskSave or AskUpdate.                      *)
(***************************************************************************)
Fairness ==
    /\ WF_vars(Tick)
    /\ \A r \in Readers : WF_vars(Peek(r))
    /\ \A t \in Pollers :
         /\ SF_vars(LockPoll(t))
         /\ SF_vars(CursorConfig(t))
         /\ WF_vars(Rebuild(t))
         /\ WF_vars(Expire(t))
    /\ \A s \in Savers :
         /\ SF_vars(CheckTeam(s))
         /\ SF_vars(StoreTeam(s))
         /\ WF_vars(BumpRevision(s))
         /\ WF_vars(RespondSave(s))
    /\ \A u \in Updaters :
         WF_vars(UpdateCli(u) \/ ExpireSnapshot(u) \/ RespondUpdate(u))

Spec == Init /\ [][Next]_vars /\ Fairness

-----------------------------------------------------------------------------
(***************************************************************************)
(* Properties.                                                             *)
(***************************************************************************)
\* pollMu: at most one thread is inside a rebuild or an update, and it is the
\* one that holds pollMu, whatever TryLock, the poll loop, readers and
\* background polls do: the CLI is never swapped or run twice under a rebuild.
InPoll(t) == pc[t] \notin {"idle", "peek", "wait", "answered"}

OneRebuild ==
    /\ \A t \in Pollers : InPoll(t) <=> pollMu = t
    /\ \A u \in Updaters : upc[u] # "idle" <=> pollMu = u

\* cursorSettingsMu: the saver between SetState and the revision is its holder.
OneSaver == \A s \in Savers : spc[s] = "bump" <=> settingsMu = s

\* pollOnce and saveCursorTeam: whatever a save overtakes, and whatever value
\* a failed fetch retains, the published snapshot's Cursor usage belongs to
\* the team in force ("Never publish its old Cursor totals").
ShownInForce == snap # NoSnapshot => snap.usage \in {InForce, NoUsage}

\* snapshotForRead: a request is answered with the Cursor usage of a team that
\* was in force at some moment of the request, or with none. In particular a
\* request made after a save was acknowledged never sees the team before it.
AnswerScope ==
    \A r \in Readers : answer[r] # NoSnapshot =>
        answer[r].usage \in seen[r] \union {NoUsage}

\* pollOnce: what a rebuild hands out, published or given up at its deadline,
\* is scoped to the team in force when it does: a request whose rebuild a save
\* overtook is not answered with the totals of the team it left.
HandedOutInForce ==
    [][\A t \in Pollers :
         pc[t] = "merge" /\ pc'[t] = "return"
         => rep'[t].usage \in {InForce, NoUsage}]_vars

\* updateWebhook ("Expire the snapshot so the next read rebuilds with the new
\* CLI"): a request made after an update was answered with 200 is never served
\* a report that an older CLI built.
UpdateReachesReaders ==
    \A r \in Readers : answer[r] # NoSnapshot => answer[r].cli >= floor[r]

\* saveCursorTeam answers an error of SetState with "Your previous selection
\* is unchanged": it is.
FailedSaveKeepsSelection == refused = {}

\* Every webhook request is answered: no wait on pollMu, no rebuild restarted
\* by saves and no update in between lasts forever.
RequestsAnswered == \A r \in Readers : Waiting(r) ~> ~Waiting(r)

\* A snapshot that a save or an update dropped is built again without anyone
\* asking, by the background poll or the poll loop, once saves stop overtaking
\* the rebuilds.
SnapshotReturns ==
    <>[](\A s \in Savers : spc[s] = "idle")
    => (snap = NoSnapshot ~> snap # NoSnapshot)

(***************************************************************************)
(* What makes ShownInForce, AnswerScope and UpdateReachesReaders           *)
(* inductive: a rebuild whose revision is still current read the selection *)
(* in force, and a report in hand was built by the CLI selected on disk.   *)
(***************************************************************************)
RebuildScope(t) ==
    /\ pc[t] \in {"cursor", "fetch"} => rep[t].usage = NoUsage
    /\ pc[t] = "fetch" /\ t \notin overtaken => scope[t] = InForce
    /\ pc[t] = "merge" /\ t \notin overtaken =>
         rep[t].usage \in {InForce, NoUsage}

RequestScope(r) ==
    /\ Waiting(r) => InForce \in seen[r]
    /\ pc[r] = "return" => rep[r].usage \in seen[r] \union {NoUsage}
    /\ pc[r] = "idle" <=> seen[r] = {}
    /\ pc[r] = "answered" <=> answer[r] # NoSnapshot

ScopeInv ==
    /\ ShownInForce
    /\ AnswerScope
    /\ \A t \in Pollers : RebuildScope(t)
    /\ \A r \in Readers : RequestScope(r)

SnapshotCli ==
    /\ acked <= cli
    /\ snap # NoSnapshot =>
         /\ snap.cli >= acked
         /\ (\A u \in Updaters : upc[u] # "expire") => snap.cli = cli
    /\ \A u \in Updaters : upc[u] = "respond" => snap = NoSnapshot

RebuildCli(t) ==
    pc[t] \in {"cursor", "fetch", "merge", "return"} => rep[t].cli = cli

RequestCli(r) ==
    /\ Waiting(r) => floor[r] <= acked
    /\ answer[r] # NoSnapshot => pc[r] = "answered"

CliInv ==
    /\ SnapshotCli
    /\ \A t \in Pollers : RebuildCli(t)
    /\ \A r \in Readers : RequestCli(r)
    /\ UpdateReachesReaders

\* The abstract register of TeamUsage, as this module implements it.
shownScope == IF snap = NoSnapshot THEN NoUsage ELSE snap.usage
answerScope == [r \in Readers |-> IF answer[r] = NoSnapshot THEN NoAnswer
                                   ELSE answer[r].usage]

Scoped == INSTANCE TeamUsage WITH
    team <- InForce, shown <- shownScope, answer <- answerScope

\* The whole machine implements the team-scoped register of TeamUsage.
ImplementsTeamUsage == Scoped!Spec
=============================================================================
