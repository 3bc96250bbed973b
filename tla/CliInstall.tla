------------------------------- MODULE CliInstall -------------------------------
(***************************************************************************)
(* The managed CodexBar CLI on disk (src/server/download.go, update.go):   *)
(* a poll or a session request resolves it, installing the pinned version  *)
(* on first use, while an update installs the latest release beside it,    *)
(* probes it and selects it.  downloader.mu orders them within a process;  *)
(* the process may be killed between any two file operations.              *)
(*                                                                         *)
(* A version's directory is "absent", "whole" (every member of a verified  *)
(* archive), "partial" (the executable among them, not every byte), or     *)
(* "damaged" (something is there, the executable is not).                  *)
(***************************************************************************)
CONSTANTS
    Versions,       \* releases of CodexBar
    Pinned,         \* pinnedVersion
    NoVersion,      \* no selection file
    Resolvers,      \* polls and session requests
    Updaters,       \* update requests
    NoOne,          \* an unlocked mutex
    Deletable       \* the versions whose executable a user may delete

ASSUME VersionsAssumption ==
    /\ Pinned \in Versions
    /\ NoVersion \notin Versions
    /\ NoOne \notin Resolvers \union Updaters
    /\ Resolvers \intersect Updaters = {}
    /\ Deletable \subseteq Versions

Threads == Resolvers \union Updaters

VARIABLES
    dir,            \* dir[v]: the directory of version v
    tmp,            \* tmp[v]: its ".tmp-extract" sibling
    selected,       \* the version in the selection file
    mu,             \* downloader.mu
    pc,
    goal,           \* goal[t]: the version t installs, probes or may run
    verified        \* history: the versions whose probe succeeded

disk == <<dir, tmp, selected>>
vars == <<disk, mu, pc, goal, verified>>

Dirs == {"absent", "whole", "partial", "damaged"}
Pcs == {"idle", "lock", "look", "latest", "download", "extract", "write",
        "clear", "rename", "probe", "select", "run"}

TypeOK ==
    /\ dir \in [Versions -> Dirs]
    /\ tmp \in [Versions -> Dirs]
    /\ selected \in Versions \union {NoVersion}
    /\ mu \in Threads \union {NoOne}
    /\ pc \in [Threads -> Pcs]
    /\ goal \in [Threads -> Versions]
    /\ verified \subseteq Versions

Init ==
    /\ dir = [v \in Versions |-> "absent"]
    /\ tmp = [v \in Versions |-> "absent"]
    /\ selected = NoVersion
    /\ mu = NoOne
    /\ pc = [t \in Threads |-> "idle"]
    /\ goal = [t \in Threads |-> Pinned]
    /\ verified = {}

\* isRunnableFile looks at the file's kind and mode, not at its bytes.
Runnable(v) == dir[v] \in {"whole", "partial"}

\* selectedBin: a selected version that is gone falls back to the pin.
Resolution ==
    IF selected # NoVersion /\ Runnable(selected) THEN selected ELSE Pinned

Go(t, here, there) ==
    /\ pc[t] = here
    /\ pc' = [pc EXCEPT ![t] = there]

Aim(t, v) == goal' = [goal EXCEPT ![t] = v]

\* (Mutant) An error returns with the mutex held.
FailLocked(t, here) ==
    /\ Go(t, here, "idle")
    /\ UNCHANGED mu

\* An error ends the call, and its deferred Unlock runs.
Fail(t, here) ==
    /\ Go(t, here, "idle")
    /\ mu' = NoOne

(***************************************************************************)
(* ensure.                                                                 *)
(***************************************************************************)
\* resolveCommand needs the managed CLI.
Ask(t) ==
    /\ Go(t, "idle", "lock")
    /\ UNCHANGED <<disk, mu, goal, verified>>

Lock(t) ==
    /\ mu = NoOne
    /\ Go(t, "lock", "look")
    /\ mu' = t
    /\ UNCHANGED <<disk, goal, verified>>

\* The selected version, else the pinned one, is returned when it is runnable;
\* else the pinned version is installed.
Look(t) ==
    /\ Aim(t, Resolution)
    /\ \/ /\ Runnable(Resolution)
          /\ Go(t, "look", "run")
          /\ mu' = NoOne
       \/ /\ ~Runnable(Resolution)
          /\ Go(t, "look", "download")
          /\ UNCHANGED mu
    /\ UNCHANGED <<disk, verified>>

\* The caller has run the binary that ensure returned.
Run(t) ==
    /\ Go(t, "run", "idle")
    /\ UNCHANGED <<disk, mu, goal, verified>>

(***************************************************************************)
(* install and publishExtraction.                                          *)
(***************************************************************************)
\* The archive is read as a whole and its checksum compared.
Download(t) ==
    /\ \/ Fail(t, "download")
       \/ Go(t, "download", "extract") /\ UNCHANGED mu
    /\ UNCHANGED <<disk, goal, verified>>

\* (Mutant) The members are written straight into the version's directory.
ExtractInPlace(t) ==
    /\ Go(t, "extract", "write")
    /\ dir' = [dir EXCEPT ![goal[t]] = "partial"]
    /\ tmp' = [tmp EXCEPT ![goal[t]] = "partial"]
    /\ UNCHANGED <<selected, mu, goal, verified>>

\* What an earlier process left in the temporary directory goes; the members
\* are written into it one by one.
Extract(t) ==
    /\ Go(t, "extract", "write")
    /\ tmp' = [tmp EXCEPT ![goal[t]] = "partial"]
    /\ UNCHANGED <<dir, selected, mu, goal, verified>>

\* The last member is written, or an error, or a missing executable, removes
\* the temporary directory.
Write(t) ==
    /\ \/ /\ Fail(t, "write")
          /\ tmp' = [tmp EXCEPT ![goal[t]] = "absent"]
       \/ /\ Go(t, "write", "clear")
          /\ tmp' = [tmp EXCEPT ![goal[t]] = "whole"]
          /\ UNCHANGED mu
    /\ UNCHANGED <<dir, selected, goal, verified>>

\* RemoveAll(destDir).
Clear(t) ==
    /\ Go(t, "clear", "rename")
    /\ dir' = [dir EXCEPT ![goal[t]] = "absent"]
    /\ UNCHANGED <<tmp, selected, mu, goal, verified>>

\* Rename(tmp, destDir), or its failure; ensure then returns the binary.
Rename(t) ==
    /\ \/ /\ Fail(t, "rename")
          /\ UNCHANGED dir
       \/ /\ dir' = [dir EXCEPT ![goal[t]] = tmp[goal[t]]]
          /\ \/ t \in Resolvers /\ Go(t, "rename", "run") /\ mu' = NoOne
             \/ t \in Updaters /\ Go(t, "rename", "probe") /\ UNCHANGED mu
    /\ tmp' = [tmp EXCEPT ![goal[t]] = "absent"]
    /\ UNCHANGED <<selected, goal, verified>>

(***************************************************************************)
(* update.                                                                 *)
(***************************************************************************)
\* TryLock: an update does not queue behind an installation.
AskUpdate(u) ==
    /\ mu = NoOne
    /\ Go(u, "idle", "latest")
    /\ mu' = u
    /\ UNCHANGED <<disk, goal, verified>>

\* (Mutant) The release is installed again although it is there.
NeedsInstallAlways(v) == TRUE

NeedsInstall(v) == ~Runnable(v)

\* latestAsset: whatever release is the latest now, or an error.
Latest(u) ==
    /\ \/ Fail(u, "latest") /\ UNCHANGED goal
       \/ \E v \in Versions :
            /\ Aim(u, v)
            /\ \/ NeedsInstall(v) /\ Go(u, "latest", "download")
               \/ ~NeedsInstall(v) /\ Go(u, "latest", "probe")
            /\ UNCHANGED mu
    /\ UNCHANGED <<disk, verified>>

\* (Mutant) The outcome of the probe is not looked at.
ProbeIgnored(u) ==
    /\ Go(u, "probe", "select")
    /\ verified' \in {verified, verified \union {goal[u]}}
    /\ UNCHANGED <<disk, mu, goal>>

\* The new binary must run and report its own version, in time.
Probe(u) ==
    /\ \/ Fail(u, "probe") /\ UNCHANGED verified
       \/ /\ Runnable(goal[u])
          /\ Go(u, "probe", "select")
          /\ verified' = verified \union {goal[u]}
          /\ UNCHANGED mu
    /\ UNCHANGED <<disk, goal>>

\* (Mutant) The selection file is written where it is, and may be cut short.
SelectInPlace(u) ==
    /\ Fail(u, "select")
    /\ selected' \in {selected, goal[u], NoVersion}
    /\ UNCHANGED <<dir, tmp, goal, verified>>

\* The selection is written to a temporary file and renamed into place.
Select(u) ==
    /\ Fail(u, "select")
    /\ selected' \in {selected, goal[u]}
    /\ UNCHANGED <<dir, tmp, goal, verified>>

(***************************************************************************)
(* What happens to the process and its files.                              *)
(***************************************************************************)
Restart ==
    /\ mu' = NoOne
    /\ pc' = [t \in Threads |-> "idle"]
    /\ UNCHANGED <<disk, goal, verified>>

\* A user removes an installed executable.
Delete(v) ==
    /\ Runnable(v)
    /\ dir' = [dir EXCEPT ![v] = "damaged"]
    /\ UNCHANGED <<tmp, selected, mu, pc, goal, verified>>

Install(t) ==
    Download(t) \/ Extract(t) \/ Write(t) \/ Clear(t) \/ Rename(t)

Ensure(t) == Look(t) \/ Install(t) \/ Run(t)

Update(u) == Latest(u) \/ Install(u) \/ Probe(u) \/ Select(u)

Next ==
    \/ \E t \in Resolvers : Ask(t) \/ Lock(t) \/ Ensure(t)
    \/ \E u \in Updaters : AskUpdate(u) \/ Update(u)
    \/ Restart
    \/ \E v \in Deletable : Delete(v)

\* Downloads, file operations and probes end; a Go mutex is handed to a waiter
\* that starves; nobody need ask.
Fairness ==
    /\ \A t \in Resolvers : SF_vars(Lock(t)) /\ WF_vars(Ensure(t))
    /\ \A u \in Updaters : WF_vars(Update(u))

Spec == Init /\ [][Next]_vars /\ Fairness

-----------------------------------------------------------------------------
(***************************************************************************)
(* Properties.                                                             *)
(***************************************************************************)
\* publishExtraction ("so a partial download never looks installed"): whatever
\* the process was doing when it was killed, and whoever installs next.
NeverHalfInstalled == \A v \in Versions : Runnable(v) => dir[v] = "whole"

\* update installs "alongside the active binary": the binary that ensure
\* returned stays in place until its caller has run it, whichever release an
\* update installs meanwhile and however it ends.
ResolvedRuns ==
    \A t \in Resolvers : pc[t] = "run" /\ goal[t] \notin Deletable
                         => dir[goal[t]] = "whole"

\* "Every failure leaves the previous selection intact": the version ensure
\* resolves to changes only when an update that was verified selects another,
\* or when a user's deletion of the one or the other takes effect.
OnlySelectionMoves ==
    [][Resolution' # Resolution =>
         \/ \E u \in Updaters :
              /\ pc[u] = "select"
              /\ Resolution' = goal[u] \/ goal[u] \in Deletable
         \/ selected \in Deletable /\ dir'[selected] # dir[selected]]_vars

\* What ManagedCli sees: a release is there when all of it is, and a resolver
\* has a binary from ensure's return until it has run it.
Managed == INSTANCE ManagedCli WITH
    usable <- {v \in Versions : dir[v] = "whole"},
    held <- [r \in Resolvers |-> IF pc[r] = "run" THEN goal[r] ELSE NoVersion]

\* Extraction, clearing, renaming, probing, selecting, and a kill between any
\* two of them, appear to callers as the single steps of ManagedCli.
ImplementsManagedCli == Managed!Spec

\* ensure returns, with the binary or an error, whoever holds the mutex.
EnsureReturns == \A t \in Resolvers : pc[t] = "lock" ~> pc[t] \in {"run", "idle"}

(***************************************************************************)
(* What makes the safety properties inductive.                             *)
(***************************************************************************)
Installing(t) == pc[t] \in {"download", "extract", "write", "clear", "rename"}
Holds(t) == Installing(t) \/ pc[t] \in {"look", "latest", "probe", "select"}

\* Whoever is past the lock holds it; only what is not runnable is installed.
LockInv == \A t \in Threads : Holds(t) => mu = t

InstallInv ==
    /\ \A v \in Versions : dir[v] # "partial"
    /\ \A t \in Threads : Installing(t) => ~Runnable(goal[t])
    /\ \A t \in Threads :
         pc[t] \in {"clear", "rename"} => tmp[goal[t]] = "whole"
    /\ ResolvedRuns

\* A resolver installs the pinned release, and only while no selected one runs.
ChoiceInv ==
    \A r \in Resolvers : Installing(r) =>
      goal[r] = Pinned /\ (selected = NoVersion \/ ~Runnable(selected))

\* update probes before it selects: no restart and no other thread gets a
\* version selected that never ran and reported itself.
SelectedIsVerified == selected \in verified \union {NoVersion}

SelectInv ==
    /\ SelectedIsVerified
    /\ \A u \in Threads : pc[u] = "select" => goal[u] \in verified
    /\ \A u \in Threads :
         pc[u] \in {"probe", "select"} /\ goal[u] \notin Deletable
         => dir[goal[u]] = "whole"
    /\ selected \notin Deletable \union {NoVersion} => dir[selected] = "whole"
================================================================================
