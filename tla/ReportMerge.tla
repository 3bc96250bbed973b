------------------------------ MODULE ReportMerge ------------------------------
(***************************************************************************)
(* What a rebuild puts into the snapshot (src/server/plugin.go):           *)
(* collectProviders probes CodexBar, asks the providers, then Cursor and   *)
(* Augment over their own APIs, and pollOnce merges the report with the    *)
(* earlier snapshot so that a failed provider keeps its earlier value.     *)
(*                                                                         *)
(* The configuration is read again at every step.  It cannot change under  *)
(* a running process (the host restarts the plugin when settings are       *)
(* saved), but config() answers a failed read with an empty configuration: *)
(* a read fails when the host fails it, and every read fails once the      *)
(* rebuild's deadline, or the context of the request behind it, is over.   *)
(*                                                                         *)
(* A report is sets of provider ids: those with usage of this rebuild and  *)
(* those listed as failed.  Rebuilds exclude each other (UsageSnapshot),   *)
(* so there is one; a team save or an update drops the snapshot.           *)
(***************************************************************************)
EXTENDS Naturals, FiniteSets

CONSTANTS
    Defaults,       \* defaultProviders
    Extra,          \* providers CodexBar knows that no list asks by default
    Cursor,         \* "cursor"
    Augment,        \* "augment"
    All,            \* "all": the sweep, and its failure
    Configs,        \* the configurations the operator may have saved
    Faults          \* "deadline": contexts end; "host": GetConfig may fail

Ids == Defaults \union Extra \union {Augment}

Config(paused, allow, credentials) ==
    [paused |-> paused, allow |-> allow, credentials |-> credentials]

\* disabled_providers, providers, and the Augment token with its email.
AllConfigs ==
    [paused : SUBSET Ids, allow : (SUBSET Ids) \union {{All}},
     credentials : SUBSET {Augment}]

\* What config() makes of a failed read.
EmptyConfig == Config({}, {}, {})

ASSUME ProvidersAssumption ==
    /\ Cursor \in Defaults
    /\ Augment \notin Defaults
    /\ All \notin Ids
    /\ Configs \subseteq AllConfigs
    /\ Faults \subseteq {"deadline", "host"}

VARIABLES
    config,         \* what the operator saved
    ctx,            \* "over" once the rebuild's context is
    pc,             \* where the rebuild is
    cursorAt,       \* where enrichCursor is
    augmentAt,      \* where appendAugment is
    revision,       \* "moved" once a team was saved since the rebuild read it
    cfg,            \* the configuration collectProviders read first
    cli,            \* report.Codexbar.Installed: "installed" or "degraded"
    asked,          \* the providers CodexBar is asked for, or {All}
    new,            \* report.Providers
    failed,         \* report.Unavailable
    barred,         \* {Cursor} when cursorVerificationFailed
    shown,          \* the snapshot: providers with usage
    marks,          \* the snapshot: providers listed as failed
    silent,         \* history: the providers asked that answered with nothing
    missed          \* history: the providers whose own API failed

place == <<pc, cursorAt, augmentAt>>
report == <<cfg, cli, asked, new, failed, barred, silent, missed>>
snapshot == <<shown, marks>>
vars == <<config, ctx, place, revision, report, snapshot>>

TypeOK ==
    /\ config \in Configs
    /\ ctx \in {"live", "over"}
    /\ pc \in {"idle", "config", "probe", "allow", "query", "extras"}
    /\ cursorAt \in {"check", "fetch", "done"}
    /\ augmentAt \in {"check", "done"}
    /\ revision \in {"same", "moved"}
    /\ cfg \in {config, EmptyConfig}
    /\ cli \in {"installed", "degraded"}
    /\ asked \in (SUBSET Ids) \union {{All}}
    /\ new \subseteq Ids
    /\ failed \subseteq Ids \union {All}
    /\ barred \subseteq {Cursor}
    /\ shown \subseteq Ids
    /\ marks \subseteq Ids \union {All}
    /\ silent \subseteq Ids
    /\ missed \subseteq {Cursor, Augment}

Init ==
    /\ config \in Configs
    /\ ctx = "live"
    /\ pc = "idle"
    /\ cursorAt = "done"
    /\ augmentAt = "done"
    /\ revision = "same"
    /\ cfg = EmptyConfig
    /\ cli = "degraded"
    /\ asked = {}
    /\ new = {}
    /\ failed = {}
    /\ barred = {}
    /\ shown = {}
    /\ marks = {}
    /\ silent = {}
    /\ missed = {}

\* What config() may answer now.
Reads ==
    IF ctx = "over" THEN {EmptyConfig}
    ELSE {config} \union (IF "host" \in Faults THEN {EmptyConfig} ELSE {})

\* configuredProviders, or the default list when it is empty.
ListOf(c) == IF c.allow = {} THEN Defaults ELSE c.allow

(***************************************************************************)
(* A rebuild.                                                              *)
(***************************************************************************)
\* pollOnce starts with a fresh context of its own.
Begin ==
    /\ pc = "idle"
    /\ pc' = "config"
    /\ ctx' = "live"
    /\ UNCHANGED <<config, cursorAt, augmentAt, revision, report, snapshot>>

\* reportTimeout, or the end of the request's own context.
Expire ==
    /\ "deadline" \in Faults
    /\ pc # "idle"
    /\ ctx' = "over"
    /\ UNCHANGED <<config, place, revision, report, snapshot>>

\* pollOnce reads the revision; collectProviders reads the configuration that
\* its deferred filter will use, and starts an empty report.
StartReport ==
    /\ pc = "config"
    /\ pc' = "probe"
    /\ revision' = "same"
    /\ cfg' \in Reads
    /\ cli' = "degraded"
    /\ asked' = {}
    /\ new' = {}
    /\ failed' = {}
    /\ barred' = {}
    /\ silent' = {}
    /\ missed' = {}
    /\ UNCHANGED <<config, ctx, cursorAt, augmentAt, snapshot>>

\* The `--version` probe fails when the context is over; a failure leaves a
\* degraded report to the two independent APIs.
Probe ==
    /\ pc = "probe"
    /\ \/ /\ ctx = "live"
          /\ pc' = "allow"
          /\ cli' = "installed"
          /\ UNCHANGED <<cursorAt, augmentAt>>
       \/ /\ pc' = "extras"
          /\ cursorAt' = "check"
          /\ augmentAt' = "check"
          /\ UNCHANGED cli
    /\ UNCHANGED <<config, ctx, revision, cfg, asked, new, failed, barred,
                   silent, missed, snapshot>>

\* providerList's first read: the sweep, or a list without Augment.
ReadAllowlist ==
    /\ pc = "allow"
    /\ pc' = "query"
    /\ \E c \in Reads : asked' = ListOf(c) \ {Augment}
    /\ UNCHANGED <<config, ctx, cursorAt, augmentAt, revision, cfg, cli, new,
                   failed, barred, silent, missed, snapshot>>

\* The answers CodexBar may give for the providers in ids.
Answers(ids) ==
    \E usage \in SUBSET ids : \E errors \in SUBSET (ids \ usage) :
        /\ ctx = "over" => errors = ids
        /\ new' = usage
        /\ failed' = errors
        /\ silent' = ids \ (usage \union errors)

\* queryProviders: the sweep is one call that may fail as a whole; a list is
\* asked provider by provider, after providerList's second read dropped the
\* paused ones.
QueryProviders ==
    /\ pc = "query"
    /\ pc' = "extras"
    /\ cursorAt' = "check"
    /\ augmentAt' = "check"
    /\ \/ /\ asked = {All}
          /\ \/ /\ ctx = "live"
                /\ Answers(Ids)
             \/ /\ failed' = {All}
                /\ UNCHANGED <<new, silent>>
       \/ /\ asked # {All}
          /\ \E c \in Reads : Answers(asked \ c.paused)
    /\ UNCHANGED <<config, ctx, revision, cfg, cli, asked, barred, missed,
                   snapshot>>

\* enrichCursor's first read: a paused Cursor is left as it is.
CheckCursor ==
    /\ pc = "extras"
    /\ cursorAt = "check"
    /\ \E c \in Reads :
         cursorAt' = IF Cursor \in c.paused THEN "done" ELSE "fetch"
    /\ UNCHANGED <<config, ctx, pc, augmentAt, revision, report, snapshot>>

CursorUsage ==
    /\ ctx = "live"
    /\ new' = new \union {Cursor}
    /\ failed' = failed \ {Cursor}
    /\ UNCHANGED <<barred, missed>>

\* cursorUnavailable for a cursorTeamSelectionError: the team could not be
\* read or looked up.
CursorUnverified ==
    /\ new' = new \ {Cursor}
    /\ failed' = failed \union {Cursor}
    /\ barred' = {Cursor}
    /\ UNCHANGED missed

\* An ordinary failure: CodexBar's value stands; without one, only a degraded
\* report lists Cursor as failed.
CursorFailed ==
    /\ ctx = "live"
    /\ failed' = IF Cursor \notin new /\ cli = "degraded"
                 THEN failed \union {Cursor} ELSE failed
    /\ missed' = missed \union {Cursor}
    /\ UNCHANGED <<new, barred>>

\* enrichCursor's fetch. Without a value to enrich it asks only if the list,
\* read again, has Cursor in it.
FetchCursor ==
    /\ pc = "extras"
    /\ cursorAt = "fetch"
    /\ cursorAt' = "done"
    /\ \E c \in Reads :
         \/ /\ Cursor \in new \/ {Cursor, All} \intersect ListOf(c) # {}
            /\ CursorUsage \/ CursorUnverified \/ CursorFailed
         \/ /\ Cursor \notin new
            /\ {Cursor, All} \intersect ListOf(c) = {}
            /\ UNCHANGED <<new, failed, barred, missed>>
    /\ UNCHANGED <<config, ctx, pc, augmentAt, revision, cfg, cli, asked,
                   silent, snapshot>>

\* appendAugment, beside enrichCursor, or after it in a degraded report.
AppendAugment ==
    /\ pc = "extras"
    /\ augmentAt = "check"
    /\ cli = "degraded" => cursorAt = "done"
    /\ augmentAt' = "done"
    /\ \E c \in Reads :
         \/ /\ Augment \in c.paused \/ c.credentials = {}
            /\ UNCHANGED <<new, failed, missed>>
         \/ /\ Augment \notin c.paused
            /\ c.credentials # {}
            /\ \/ /\ new' = new \union {Augment}
                  /\ UNCHANGED <<failed, missed>>
               \/ /\ failed' = failed \union {Augment}
                  /\ missed' = missed \union {Augment}
                  /\ UNCHANGED new
    /\ UNCHANGED <<config, ctx, pc, cursorAt, revision, cfg, cli, asked,
                   barred, silent, snapshot>>

(***************************************************************************)
(* The merge with the earlier snapshot.                                    *)
(***************************************************************************)
\* (Mutant) The report keeps what the configuration has paused.
ListedUnfiltered(ids) == ids

\* collectProviders' deferred filter.
Listed(ids) == ids \ cfg.paused

\* (Mutant) Cursor's earlier value survives a failed verification.
RetainableUnbarred(id) == id \in shown

\* An earlier value that a failure of its provider may keep alive.
Retainable(id) == id \in shown \ barred

\* A failed sweep or CLI probe.
GlobalFailure == All \in failed \/ cli = "degraded"

\* (Mutant) A global failure is expanded over what the list asks for only.
ExpandedListed(c) ==
    {id \in (shown \intersect ListOf(c)) \ (Listed(new) \union Listed(failed)) :
        GlobalFailure /\ Retainable(id) /\ id \notin c.paused}

\* A global failure is expanded over the earlier values.
Expanded(c) ==
    {id \in shown \ (Listed(new) \union Listed(failed)) :
        /\ GlobalFailure
        /\ Retainable(id)
        /\ id \notin c.paused
        /\ id = Augment => c.credentials # {}}

Failures(c) ==
    IF Expanded(c) = {} THEN Listed(failed)
    ELSE (Listed(failed) \union Expanded(c)) \ {All}

Retained(c) == {id \in Failures(c) \ Listed(new) : Retainable(id)}

\* The merge, then under mu: publish unless a team was saved meanwhile; else
\* rebuild, or end without publishing when the context is over.
Publish ==
    /\ pc = "extras"
    /\ cursorAt = "done"
    /\ augmentAt = "done"
    /\ \/ /\ revision = "same"
          /\ pc' = "idle"
          /\ \E c \in Reads :
               /\ shown' = Listed(new) \union Retained(c)
               /\ marks' = Failures(c)
       \/ /\ revision = "moved"
          /\ pc' = IF ctx = "over" THEN "idle" ELSE "config"
          /\ UNCHANGED snapshot
    /\ UNCHANGED <<config, ctx, cursorAt, augmentAt, revision, report>>

\* A saved team, or an update between two rebuilds, drops the snapshot.
DropSnapshot ==
    /\ revision' = "moved"
    /\ shown' = {}
    /\ marks' = {}
    /\ UNCHANGED <<config, ctx, place, report>>

Collect ==
    \/ StartReport \/ Probe \/ ReadAllowlist \/ QueryProviders
    \/ CheckCursor \/ FetchCursor \/ AppendAugment

Next == Begin \/ Collect \/ Publish \/ Expire \/ DropSnapshot

\* The poll loop never stops polling, and every CLI run and request ends at its
\* own timeout.
Spec == Init /\ [][Next]_vars /\ WF_vars(Begin \/ Collect \/ Publish)

-----------------------------------------------------------------------------
(***************************************************************************)
(* Properties.                                                             *)
(***************************************************************************)
Publishes == Publish /\ revision = "same"

\* disabled_providers (README: "Their usage stays out of every panel"): no
\* rebuild, failure or retained value puts usage of a paused provider into the
\* snapshot.
PausedStaysOut == shown \intersect config.paused = {}

\* What may leave the snapshot: a provider that answered without usage and
\* whose own API, if it was asked too, did not fail; a failed verification; and
\* in a global failure an Augment value without a credential, which pollOnce
\* excepts ("A removed Augment credential disables its independent API source.
\* A simultaneous CodexBar failure must not revive it").
Evictable ==
    (silent \ missed) \union barred
    \union (IF config.credentials = {} /\ GlobalFailure THEN {Augment} ELSE {})

\* pollOnce ("A failed provider probe must not evict a still-useful value from
\* the previous poll"): nothing else leaves it.
FailureEvictsNothing ==
    [][Publishes => shown \ shown' \subseteq Evictable]_vars

\* Cursor, when CodexBar was silent about it and its own API then failed:
\* collectProviders drops that error.
Discarded == missed \intersect silent \intersect {Cursor}

\* What config() does not tell of once the rebuild's context is over.
Forgotten == IF ctx = "over" THEN Ids \ Defaults ELSE {}

\* pollOnce, what its promise comes to: whatever fails in a rebuild, in whatever
\* order, a failure evicts no other earlier value than those two. A Codex value,
\* say, is kept by every rebuild until Codex answers without usage, and the
\* value of a provider that is not asked by default by every one that ends in
\* time; a Cursor value is kept whenever CodexBar lists Cursor or fails itself.
FailureEvictsAtMost ==
    [][Publishes =>
         shown \ shown' \subseteq Evictable \union Discarded \union Forgotten]_vars

\* enrichCursor ("A failed team lookup reports an error; it never falls back
\* to CodexBar's unscoped quota", README): when the team of a rebuild could not
\* be verified, the snapshot has no Cursor usage, neither CodexBar's own nor a
\* retained one, whatever else failed.
UnverifiedCursorOut ==
    [][Publishes /\ barred = {Cursor} => Cursor \notin shown']_vars

(***************************************************************************)
(* What makes them inductive, while the host answers GetConfig.            *)
(***************************************************************************)
Collecting == pc \notin {"idle", "config"}

\* Where usage may come from.
Polled == IF config.allow = {All} THEN Ids ELSE ListOf(config) \ {Augment}
Sources == Polled \union config.credentials

\* A rebuild whose filter is not the operator's has nothing to filter.
FilterInv ==
    /\ PausedStaysOut
    /\ Collecting /\ cfg # config =>
         /\ ctx = "over"
         /\ pc \in {"probe", "extras"}
         /\ cli = "degraded"
         /\ new = {}

VerifyInv ==
    /\ Collecting /\ (pc # "extras" \/ cursorAt # "done") => barred = {}
    /\ pc = "extras" /\ barred = {Cursor} => Cursor \notin new

\* Every provider that may have been shown has answered, failed or turned out
\* unverified, or all of them have failed; after the context's end this is known
\* of the providers asked by default.
Accounted ==
    /\ \A id \in Polled \ config.paused :
         ctx = "live" \/ id \in Defaults =>
           id \in new \union failed \union silent \union barred
    /\ ctx = "live" /\ augmentAt = "done" =>
         config.credentials \ config.paused \subseteq new \union failed

SourceInv ==
    /\ shown \subseteq Sources
    /\ pc \in {"probe", "allow", "query"} => new = {}
    /\ pc = "extras" => new \subseteq Sources
    /\ pc = "query" /\ asked # Defaults => asked = ListOf(config) \ {Augment}
    /\ pc = "query" /\ ctx = "live" => asked = ListOf(config) \ {Augment}

CoverInv ==
    /\ pc = "probe" => cli = "degraded"
    /\ pc = "extras" /\ cli = "installed" /\ All \notin failed => Accounted

\* An Augment that its own API failed to give stays listed as failed.
MissedInv ==
    /\ pc \in {"probe", "allow", "query"} => missed = {}
    /\ pc = "extras" /\ Augment \in missed => Augment \in failed

MergeInv == FilterInv /\ VerifyInv /\ SourceInv /\ CoverInv /\ MissedInv
=============================================================================
