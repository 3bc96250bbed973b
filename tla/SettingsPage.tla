------------------------------ MODULE SettingsPage ------------------------------
(***************************************************************************)
(* The settings page (src/ui/bundle.js, SettingsStatus and                 *)
(* CursorTeamSettings): reads of the usage on mounting, on a timer and     *)
(* after a change, the settings' save in two requests, the CodexBar        *)
(* update, the team's save, and the tests of a generation by which an      *)
(* answer that comes late is ignored.                                      *)
(*                                                                         *)
(* A request carries whether its generation is still the current one: to   *)
(* count a generation up is to make the requests before it stale.  Of the  *)
(* server only the number of changes it has applied is kept.  A read that  *)
(* begins after a change was applied answers with that change or a later    *)
(* one (UsageSnapshot).  The fields' drafts and messages are left out.     *)
(***************************************************************************)
EXTENDS Integers

CONSTANTS
    MaxChanges,     \* bound: changes that are begun
    MaxFailures     \* bound: requests that fail

ASSUME BoundsAssumption ==
    /\ MaxChanges \in Nat
    /\ MaxFailures \in Nat

VARIABLES
    mounted,        \* the page is open
    \* the server and the bounds
    world,          \* the changes applied
    changes,        \* the changes begun
    failures,       \* the requests that failed
    \* usage: state.data, state.loading, providerRequest
    shown, loading, pending,
    reads,          \* reads of the usage in flight
    \* discovery.loading, and the scans in flight
    scanning, scans,
    \* configState, and loadConfig's requests in flight
    config, configReads,
    \* saving.current, and the save in flight
    saving, save,
    \* updating.current, and the update in flight
    updating, update,
    \* CursorTeamSettings, with its one request
    team,
    acked           \* history: the last change whose success the page was told

usage == <<shown, loading, pending, reads>>
discovery == <<scanning, scans>>
settings == <<config, configReads>>
server == <<world, changes, failures>>
vars == <<mounted, server, usage, discovery, settings, saving, save,
          updating, update, team, acked>>

Nothing == -1

\* A change in flight, with its number once the server has applied it.
None == [at |-> "none", current |-> FALSE, number |-> 0]

Sent(step) == [at |-> step, current |-> TRUE, number |-> 0]

\* What is in flight once its generation is counted up.
Left(change) == [change EXCEPT !.current = FALSE]
Older(requests) == {[r EXCEPT !.current = FALSE] : r \in requests}
Superseded(requests) == IF requests = {} THEN {} ELSE {"stale"}

Read == [since |-> world, current |-> TRUE]

\* The page once its first effect has run.
Init ==
    /\ mounted = TRUE
    /\ world = 0
    /\ changes = 0
    /\ failures = 0
    /\ shown = Nothing
    /\ loading = TRUE
    /\ pending = TRUE
    /\ reads = {Read}
    /\ scanning = TRUE
    /\ scans = {"current"}
    /\ config = [loading |-> TRUE, data |-> FALSE, error |-> FALSE]
    /\ configReads = {"current"}
    /\ saving = FALSE
    /\ save = None
    /\ updating = FALSE
    /\ update = None
    /\ team = None
    /\ acked = 0

Fault ==
    /\ failures < MaxFailures
    /\ failures' = failures + 1
    /\ UNCHANGED <<world, changes>>

Begin ==
    /\ changes < MaxChanges
    /\ changes' = changes + 1
    /\ UNCHANGED <<world, failures>>

Apply ==
    /\ world' = world + 1
    /\ UNCHANGED <<changes, failures>>

(***************************************************************************)
(* The usage.                                                              *)
(***************************************************************************)
\* (Mutant) Only a save keeps a read from starting.
FreeInUpdate(inSave, inUpdate) == ~inSave

Free(inSave, inUpdate) == ~inSave /\ ~inUpdate

\* (Mutant) A save and a team change share the pending read.
ReplacesNever(restart) == ~pending

Replaces(restart) == ~pending \/ restart

\* fetchProviders, in a handler that leaves the update upd in flight; that
\* shares its generation with the reads.
FetchProviders(restart, inSave, inUpdate, upd) ==
    IF mounted /\ Free(inSave, inUpdate) /\ Replaces(restart)
    THEN /\ reads' = Older(reads) \union {Read}
         /\ pending' = TRUE
         /\ loading' = TRUE
         /\ update' = Left(upd)
         /\ UNCHANGED shown
    ELSE /\ update' = upd
         /\ UNCHANGED usage

\* The tests of an answer's generation.
Heeded(r) == mounted /\ r.current

AnswerRead(r) ==
    /\ reads' = reads \ {r}
    /\ IF Heeded(r)
       THEN /\ pending' = FALSE
            /\ loading' = FALSE
            /\ shown' \in r.since..world
       ELSE UNCHANGED <<shown, loading, pending>>
    /\ UNCHANGED <<mounted, server, discovery, settings, saving, save, updating,
                   update, team, acked>>

FailRead(r) ==
    /\ Fault
    /\ reads' = reads \ {r}
    /\ IF Heeded(r)
       THEN pending' = FALSE /\ loading' = FALSE
       ELSE UNCHANGED <<loading, pending>>
    /\ UNCHANGED <<mounted, shown, discovery, settings, saving, save, updating,
                   update, team, acked>>

\* (Mutant) No interval is set.
TimerOff == FALSE

Timer == mounted

\* The interval; the Refresh button asks in the same way.
Tick ==
    /\ Timer
    /\ FetchProviders(FALSE, saving, updating, update)
    /\ UNCHANGED <<mounted, server, discovery, settings, saving, save, updating,
                   team, acked>>

(***************************************************************************)
(* Discovery and the configuration.                                        *)
(***************************************************************************)
\* loadDiscovery, where the page is not updating CodexBar.
LoadDiscovery ==
    /\ scanning' = TRUE
    /\ scans' = Superseded(scans) \union {"current"}

Rescan ==
    /\ mounted
    /\ ~updating
    /\ LoadDiscovery
    /\ UNCHANGED <<mounted, server, usage, settings, saving, save, updating,
                   update, team, acked>>

\* A scan's answer or failure, which the page shows alike.
EndScan(r) ==
    /\ scans' = scans \ {r}
    /\ scanning' = (scanning /\ ~(mounted /\ r = "current"))
    /\ UNCHANGED <<mounted, server, usage, settings, saving, save, updating,
                   update, team, acked>>

\* loadConfig behind "Retry settings", which stands beside an error.
LoadConfig ==
    /\ mounted
    /\ config.error
    /\ config' = [config EXCEPT !.loading = TRUE, !.error = FALSE]
    /\ configReads' = Superseded(configReads) \union {"current"}
    /\ save' = Left(save)
    /\ UNCHANGED <<mounted, server, usage, discovery, saving, updating, update,
                   team, acked>>

AnswerConfig(r) ==
    /\ configReads' = configReads \ {r}
    /\ config' = IF mounted /\ r = "current"
                 THEN [loading |-> FALSE, data |-> TRUE, error |-> FALSE] ELSE config
    /\ UNCHANGED <<mounted, server, usage, discovery, saving, save, updating,
                   update, team, acked>>

FailConfig(r) ==
    /\ Fault
    /\ configReads' = configReads \ {r}
    /\ config' = IF mounted /\ r = "current"
                 THEN [config EXCEPT !.loading = FALSE, !.error = TRUE] ELSE config
    /\ UNCHANGED <<mounted, usage, discovery, saving, save, updating, update,
                   team, acked>>

(***************************************************************************)
(* The save of the settings: the latest are read, then patched.            *)
(***************************************************************************)
\* (Mutant) The read that a save aborts stays the pending one.
ReleasedKept == pending

\* Whether a read is pending once a save or an update released it.
Released == FALSE

SaveConfig ==
    /\ mounted
    /\ ~saving
    /\ ~updating
    /\ config.data
    /\ Begin
    /\ saving' = TRUE
    /\ save' = Sent("reading")
    /\ configReads' = Superseded(configReads)
    /\ reads' = Older(reads)
    /\ pending' = Released
    /\ loading' = FALSE
    /\ update' = Left(update)
    /\ UNCHANGED <<mounted, shown, discovery, config, updating, team, acked>>

\* The latest settings: without the page they are not patched.
PatchConfig ==
    /\ save.at = "reading"
    /\ save' = IF Heeded(save) THEN [save EXCEPT !.at = "patching"] ELSE None
    /\ UNCHANGED <<mounted, server, usage, discovery, settings, saving, updating,
                   update, team, acked>>

ApplySave ==
    /\ save.at = "patching"
    /\ Apply
    /\ save' = [save EXCEPT !.at = "applied", !.number = world + 1]
    /\ UNCHANGED <<mounted, usage, discovery, settings, saving, updating, update,
                   team, acked>>

AckSave ==
    /\ save.at = "applied"
    /\ save' = None
    /\ IF Heeded(save)
       THEN /\ saving' = FALSE
            /\ config' = [loading |-> FALSE, data |-> TRUE, error |-> FALSE]
            /\ acked' = save.number
            /\ IF updating THEN UNCHANGED discovery ELSE LoadDiscovery
            /\ FetchProviders(TRUE, FALSE, updating, update)
       ELSE UNCHANGED <<saving, config, acked, discovery, usage, update>>
    /\ UNCHANGED <<mounted, server, configReads, updating, team>>

\* (Mutant) A failed save is a failed load.
FailedLoad == [config EXCEPT !.error = TRUE]

\* configState after a failed save.
Unsaved == config

\* Either request fails, or the answer is lost.
FailSave ==
    /\ save.at # "none"
    /\ Fault
    /\ save' = None
    /\ IF Heeded(save)
       THEN saving' = FALSE /\ config' = Unsaved
       ELSE UNCHANGED <<saving, config>>
    /\ UNCHANGED <<mounted, usage, discovery, configReads, updating, update,
                   team, acked>>

(***************************************************************************)
(* The update of CodexBar.                                                 *)
(***************************************************************************)
UpdateCodexbar ==
    /\ mounted
    /\ ~updating
    /\ ~saving
    /\ Begin
    /\ updating' = TRUE
    /\ update' = Sent("posted")
    /\ reads' = Older(reads)
    /\ pending' = Released
    /\ UNCHANGED <<mounted, shown, loading, discovery, settings, saving, save,
                   team, acked>>

ApplyUpdate ==
    /\ update.at = "posted"
    /\ Apply
    /\ update' = [update EXCEPT !.at = "applied", !.number = world + 1]
    /\ UNCHANGED <<mounted, usage, discovery, settings, saving, save, updating,
                   team, acked>>

\* What is shown keeps its usage, and a fetch follows: no read is pending.
AckUpdate ==
    /\ update.at = "applied"
    /\ IF Heeded(update)
       THEN /\ updating' = FALSE
            /\ acked' = update.number
            /\ FetchProviders(FALSE, saving, FALSE, None)
       ELSE /\ update' = None
            /\ UNCHANGED <<updating, acked, usage>>
    /\ UNCHANGED <<mounted, server, discovery, settings, saving, save, team>>

FailUpdate ==
    /\ update.at # "none"
    /\ Fault
    /\ update' = None
    /\ IF Heeded(update)
       THEN updating' = FALSE /\ loading' = FALSE
       ELSE UNCHANGED <<updating, loading>>
    /\ UNCHANGED <<mounted, shown, pending, reads, discovery, settings, saving,
                   save, team, acked>>

(***************************************************************************)
(* Cursor's team settings, inside the page: busy lets one request out at a *)
(* time.                                                                   *)
(***************************************************************************)
OnlyTeam ==
    UNCHANGED <<mounted, usage, discovery, settings, saving, save, updating,
                update, acked>>

\* Cursor's card appears with the settings, and loads the teams.
MountTeam ==
    /\ mounted
    /\ config.data
    /\ team.at = "none"
    /\ team' = Sent("loading")
    /\ UNCHANGED server
    /\ OnlyTeam

EndTeamLoad ==
    /\ team.at = "loading"
    /\ team' = Sent("idle")
    /\ UNCHANGED server
    /\ OnlyTeam

ReloadTeams ==
    /\ team.at = "idle"
    /\ team' = Sent("loading")
    /\ UNCHANGED server
    /\ OnlyTeam

\* The buttons are disabled while the page saves or updates.
SaveTeam ==
    /\ team.at = "idle"
    /\ ~saving
    /\ ~updating
    /\ Begin
    /\ team' = Sent("posted")
    /\ OnlyTeam

ApplyTeam ==
    /\ team.at = "posted"
    /\ Apply
    /\ team' = [team EXCEPT !.at = "applied", !.number = world + 1]
    /\ OnlyTeam

\* onSaved.
AckTeam ==
    /\ team.at = "applied"
    /\ team' = Sent("idle")
    /\ acked' = team.number
    /\ FetchProviders(TRUE, saving, updating, update)
    /\ UNCHANGED <<mounted, server, discovery, settings, saving, save, updating>>

FailTeam ==
    /\ team.at \in {"posted", "applied"}
    /\ Fault
    /\ team' = Sent("idle")
    /\ OnlyTeam

\* The card disappears, with what the component waits for.
UnmountTeam ==
    /\ team.at # "none"
    /\ team' = None
    /\ UNCHANGED server
    /\ OnlyTeam

(***************************************************************************)
(* Leaving the page, and changes that are not its own: another page's, the *)
(* poller's, a team save of a card that is gone.                           *)
(***************************************************************************)
Unmount ==
    /\ mounted
    /\ mounted' = FALSE
    /\ reads' = Older(reads)
    /\ pending' = FALSE
    /\ scans' = Superseded(scans)
    /\ configReads' = Superseded(configReads)
    /\ save' = Left(save)
    /\ update' = Left(update)
    /\ team' = None
    /\ UNCHANGED <<server, shown, loading, scanning, config, saving, updating, acked>>

OtherChange ==
    /\ changes < MaxChanges
    /\ changes' = changes + 1
    /\ world' = world + 1
    /\ UNCHANGED <<mounted, failures, usage, discovery, settings, saving, save,
                   updating, update, team, acked>>

Usage == Tick \/ \E r \in reads : AnswerRead(r) \/ FailRead(r)

Loads ==
    \/ Rescan \/ \E r \in scans : EndScan(r)
    \/ LoadConfig \/ \E r \in configReads : AnswerConfig(r) \/ FailConfig(r)

Save == SaveConfig \/ PatchConfig \/ ApplySave \/ AckSave \/ FailSave

Update == UpdateCodexbar \/ ApplyUpdate \/ AckUpdate \/ FailUpdate

Team ==
    \/ MountTeam \/ EndTeamLoad \/ ReloadTeams
    \/ SaveTeam \/ ApplyTeam \/ AckTeam \/ FailTeam \/ UnmountTeam

Next == Usage \/ Loads \/ Save \/ Update \/ Team \/ Unmount \/ OtherChange

\* The server answers every request or fails it at its own timeouts, and the
\* browser runs the interval.
Fairness ==
    /\ WF_vars(\E r \in reads : r.current /\ AnswerRead(r))
    /\ WF_vars(PatchConfig \/ ApplySave \/ AckSave)
    /\ WF_vars(ApplyUpdate \/ AckUpdate)
    /\ WF_vars(Tick)

Spec == Init /\ [][Next]_vars /\ Fairness

-----------------------------------------------------------------------------
(***************************************************************************)
(* Properties.                                                             *)
(***************************************************************************)
Steps == {"none", "reading", "patching", "posted", "loading", "idle", "applied"}

Changes == [at : Steps, current : BOOLEAN, number : Nat]

ServerTypeOK ==
    /\ changes \in 0..MaxChanges
    /\ world \in 0..changes
    /\ failures \in 0..MaxFailures
    /\ acked \in 0..world

UsageTypeOK ==
    /\ shown \in Nothing..world
    /\ loading \in BOOLEAN
    /\ pending \in BOOLEAN
    /\ reads \subseteq [since : 0..world, current : BOOLEAN]

LoadsTypeOK ==
    /\ scanning \in BOOLEAN
    /\ scans \subseteq {"current", "stale"}
    /\ config \in [loading : BOOLEAN, data : BOOLEAN, error : BOOLEAN]
    /\ configReads \subseteq {"current", "stale"}

ChangesTypeOK ==
    /\ saving \in BOOLEAN
    /\ updating \in BOOLEAN
    /\ save \in Changes
    /\ update \in Changes
    /\ team \in Changes

\* The ranges of the variables; no more is applied, told or shown than was
\* begun.
TypeOK ==
    /\ mounted \in BOOLEAN
    /\ ServerTypeOK
    /\ UsageTypeOK
    /\ LoadsTypeOK
    /\ ChangesTypeOK

\* fetchProviders ("A pending read is shared by timer ticks"): what the page
\* waits for is in flight and will be heeded. Else the timer would share a
\* read that nobody answers, and the page never load again.
Awaited ==
    mounted =>
      /\ pending <=> \E r \in reads : r.current
      /\ loading => pending \/ updating
      /\ scanning <=> "current" \in scans
      /\ config.loading <=> "current" \in configReads

\* saveConfig and updateCodexbar: while the page is busy its request is in
\* flight and will be heeded. Else saving.current or updating.current stays
\* set, and nothing is saved, updated or loaded until the page is opened anew.
NotOrphaned ==
    mounted =>
      /\ saving => save.at # "none" /\ save.current
      /\ updating => update.at # "none" /\ update.current
      /\ ~(saving /\ updating)

\* fetchProviders ("saves and team changes replace it and discard its
\* response"): however the answers of shared, replaced and aborted reads come
\* in, the usage never goes back, neither to before what was shown nor to
\* before a change whose success the page was told.
NeverBack ==
    [][shown' # shown => shown' > shown /\ shown' >= acked /\ mounted]_vars

\* Whatever fails, the usage after an acknowledged change comes onto a page
\* that stays open.
AckedIsShown == (acked > shown) ~> (shown >= acked \/ ~mounted)

(***************************************************************************)
(* What makes the safety properties inductive.                             *)
(***************************************************************************)
Open(change) == IF change.at \in {"reading", "patching", "posted"} THEN 1 ELSE 0

CountInv ==
    /\ world + Open(save) + Open(update) + Open(team) <= changes
    /\ save.number <= world
    /\ update.number <= world
    /\ team.number <= world

ReadInv ==
    mounted =>
      /\ \A r, q \in reads : r.current /\ q.current => r = q
      /\ saving \/ updating => ~pending
      /\ \A r \in reads : r.current => shown <= r.since /\ acked <= r.since

\* A save runs only on settings that were loaded, and they are loaded once.
ConfigInv ==
    mounted =>
      /\ config.data => ~config.loading /\ ~config.error
      /\ saving => config.data

\* A request that will be heeded keeps the page busy.
Heard(change) == change.at # "none" /\ change.current

BusyInv ==
    mounted =>
      /\ Heard(save) => saving
      /\ Heard(update) => updating

PageInv ==
    /\ TypeOK
    /\ Awaited
    /\ NotOrphaned
    /\ CountInv
    /\ ReadInv
    /\ ConfigInv
    /\ BusyInv
================================================================================
