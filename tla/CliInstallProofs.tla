--------------------------- MODULE CliInstallProofs ---------------------------
(***************************************************************************)
(* Proofs about CliInstall, for any releases, requests and updates.        *)
(***************************************************************************)
EXTENDS CliInstall, TLAPS

-----------------------------------------------------------------------------
(* Type correctness. *)

LEMMA TypeStep ==
  TypeOK /\ [Next]_vars => TypeOK'
  <1> SUFFICES ASSUME TypeOK, [Next]_vars
               PROVE  TypeOK'
    OBVIOUS
  <1> USE DEF disk, Go, Aim, Fail
  <1>1. ASSUME NEW t \in Threads, Ask(t) PROVE TypeOK'
    BY <1>1 DEF TypeOK, Pcs, Ask
  <1>2. ASSUME NEW t \in Threads, Lock(t) PROVE TypeOK'
    BY <1>2 DEF TypeOK, Pcs, Lock
  <1>3. ASSUME NEW t \in Threads, Look(t) PROVE TypeOK'
    BY <1>3, VersionsAssumption DEF TypeOK, Pcs, Look, Resolution
  <1>4. ASSUME NEW t \in Threads, Run(t) PROVE TypeOK'
    BY <1>4 DEF TypeOK, Pcs, Run
  <1>5. ASSUME NEW t \in Threads, Download(t) PROVE TypeOK'
    BY <1>5 DEF TypeOK, Pcs, Download
  <1>6. ASSUME NEW t \in Threads, Extract(t) PROVE TypeOK'
    BY <1>6 DEF TypeOK, Dirs, Pcs, Extract
  <1>7. ASSUME NEW t \in Threads, Write(t) PROVE TypeOK'
    BY <1>7 DEF TypeOK, Dirs, Pcs, Write
  <1>8. ASSUME NEW t \in Threads, Clear(t) PROVE TypeOK'
    BY <1>8 DEF TypeOK, Dirs, Pcs, Clear
  <1>9. ASSUME NEW t \in Threads, Rename(t) PROVE TypeOK'
    BY <1>9 DEF TypeOK, Dirs, Pcs, Rename
  <1>10. ASSUME NEW t \in Threads, AskUpdate(t) PROVE TypeOK'
    BY <1>10 DEF TypeOK, Pcs, AskUpdate
  <1>11. ASSUME NEW t \in Threads, Latest(t) PROVE TypeOK'
    BY <1>11 DEF TypeOK, Pcs, Latest
  <1>12. ASSUME NEW t \in Threads, Probe(t) PROVE TypeOK'
    BY <1>12 DEF TypeOK, Pcs, Probe
  <1>13. ASSUME NEW t \in Threads, Select(t) PROVE TypeOK'
    BY <1>13 DEF TypeOK, Pcs, Select
  <1>14. CASE Restart
    BY <1>14 DEF TypeOK, Pcs, Restart
  <1>15. ASSUME NEW v \in Deletable, Delete(v) PROVE TypeOK'
    BY <1>15 DEF TypeOK, Dirs, Delete
  <1>16. CASE UNCHANGED vars
    BY <1>16 DEF TypeOK, vars
  <1> QED
    BY <1>1, <1>2, <1>3, <1>4, <1>5, <1>6, <1>7, <1>8, <1>9, <1>10, <1>11,
       <1>12, <1>13, <1>14, <1>15, <1>16
       DEF Next, Ensure, Update, Install, Threads

-----------------------------------------------------------------------------
(* The lock. *)

LEMMA LockStep ==
  TypeOK /\ LockInv /\ [Next]_vars => LockInv'
  <1> SUFFICES ASSUME TypeOK, LockInv, [Next]_vars
               PROVE  LockInv'
    OBVIOUS
  <1> USE DEF disk, Go, Aim, Fail
  <1>1. ASSUME NEW t \in Threads, Ask(t) PROVE LockInv'
    BY <1>1 DEF LockInv, Holds, Installing, Ask
  <1>2. ASSUME NEW t \in Threads, Lock(t) PROVE LockInv'
    BY <1>2, VersionsAssumption DEF LockInv, Holds, Installing, Threads, Lock
  <1>3. ASSUME NEW t \in Threads, Look(t) PROVE LockInv'
    BY <1>3 DEF TypeOK, LockInv, Holds, Installing, Look, Resolution,
           Runnable
  <1>4. ASSUME NEW t \in Threads, Run(t) PROVE LockInv'
    BY <1>4 DEF LockInv, Holds, Installing, Run
  <1>5. ASSUME NEW t \in Threads, Download(t) PROVE LockInv'
    BY <1>5 DEF TypeOK, LockInv, Holds, Installing, Download
  <1>6. ASSUME NEW t \in Threads, Extract(t) PROVE LockInv'
    BY <1>6 DEF LockInv, Holds, Installing, Extract
  <1>7. ASSUME NEW t \in Threads, Write(t) PROVE LockInv'
    BY <1>7 DEF TypeOK, LockInv, Holds, Installing, Write
  <1>8. ASSUME NEW t \in Threads, Clear(t) PROVE LockInv'
    BY <1>8 DEF LockInv, Holds, Installing, Clear
  <1>9. ASSUME NEW t \in Threads, Rename(t) PROVE LockInv'
    BY <1>9 DEF TypeOK, LockInv, Holds, Installing, Rename
  <1>10. ASSUME NEW t \in Threads, AskUpdate(t) PROVE LockInv'
    BY <1>10, VersionsAssumption
       DEF LockInv, Holds, Installing, Threads, AskUpdate
  <1>11. ASSUME NEW t \in Threads, Latest(t) PROVE LockInv'
    BY <1>11 DEF TypeOK, LockInv, Holds, Installing, Latest, NeedsInstall,
           Runnable
  <1>12. ASSUME NEW t \in Threads, Probe(t) PROVE LockInv'
    BY <1>12 DEF TypeOK, LockInv, Holds, Installing, Probe
  <1>13. ASSUME NEW t \in Threads, Select(t) PROVE LockInv'
    BY <1>13 DEF TypeOK, LockInv, Holds, Installing, Select
  <1>14. CASE Restart
    BY <1>14 DEF LockInv, Holds, Installing, Restart
  <1>15. ASSUME NEW v \in Deletable, Delete(v) PROVE LockInv'
    BY <1>15 DEF LockInv, Holds, Installing, Delete
  <1>16. CASE UNCHANGED vars
    BY <1>16 DEF LockInv, Holds, Installing, vars
  <1> QED
    BY <1>1, <1>2, <1>3, <1>4, <1>5, <1>6, <1>7, <1>8, <1>9, <1>10, <1>11,
       <1>12, <1>13, <1>14, <1>15, <1>16
       DEF Next, Ensure, Update, Install, Threads

-----------------------------------------------------------------------------
(* What is installed. *)

LEMMA InstallStep ==
  TypeOK /\ LockInv /\ InstallInv /\ [Next]_vars => InstallInv'
  <1> SUFFICES ASSUME TypeOK, LockInv, InstallInv, [Next]_vars
               PROVE  InstallInv'
    OBVIOUS
  <1> USE DEF disk, Go, Aim, Fail
  <1>1. ASSUME NEW t \in Threads, Ask(t) PROVE InstallInv'
    BY <1>1 DEF InstallInv, ResolvedRuns, Installing,
           Runnable, Dirs, Threads, Ask
  <1>2. ASSUME NEW t \in Threads, Lock(t) PROVE InstallInv'
    BY <1>2 DEF InstallInv, ResolvedRuns, Installing,
           Runnable, Dirs, Threads, Lock
  <1>3. ASSUME NEW t \in Threads, Look(t) PROVE InstallInv'
    BY <1>3, VersionsAssumption
       DEF TypeOK, InstallInv, ResolvedRuns, Installing,
           Runnable, Dirs, Threads, Look, Resolution, Runnable
  <1>4. ASSUME NEW t \in Threads, Run(t) PROVE InstallInv'
    BY <1>4 DEF InstallInv, ResolvedRuns, Installing,
           Runnable, Dirs, Threads, Run
  <1>5. ASSUME NEW t \in Threads, Download(t) PROVE InstallInv'
    BY <1>5 DEF TypeOK, InstallInv, ResolvedRuns, Installing,
           Runnable, Dirs, Threads, Download
  <1>6. ASSUME NEW t \in Threads, Extract(t) PROVE InstallInv'
    BY <1>6 DEF LockInv, InstallInv, ResolvedRuns, Holds, Installing,
           Runnable, Dirs, Threads, Extract
  <1>7. ASSUME NEW t \in Threads, Write(t) PROVE InstallInv'
    BY <1>7 DEF TypeOK, LockInv, InstallInv, ResolvedRuns, Holds, Installing,
           Runnable, Dirs, Threads, Write
  <1>8. ASSUME NEW t \in Threads, Clear(t) PROVE InstallInv'
    BY <1>8 DEF InstallInv, ResolvedRuns, Installing,
           Runnable, Dirs, Threads, Clear
  <1>9. ASSUME NEW t \in Threads, Rename(t) PROVE InstallInv'
    BY <1>9 DEF TypeOK, LockInv, InstallInv, ResolvedRuns, Holds, Installing,
           Runnable, Dirs, Threads, Rename
  <1>10. ASSUME NEW t \in Threads, AskUpdate(t) PROVE InstallInv'
    BY <1>10 DEF InstallInv, ResolvedRuns, Installing,
           Runnable, Dirs, Threads, AskUpdate
  <1>11. ASSUME NEW t \in Threads, Latest(t) PROVE InstallInv'
    BY <1>11 DEF TypeOK, InstallInv, ResolvedRuns, Installing,
           Runnable, Dirs, Threads, Latest, NeedsInstall, Runnable
  <1>12. ASSUME NEW t \in Threads, Probe(t) PROVE InstallInv'
    BY <1>12 DEF TypeOK, InstallInv, ResolvedRuns, Installing,
           Runnable, Dirs, Threads, Probe, Runnable
  <1>13. ASSUME NEW t \in Threads, Select(t) PROVE InstallInv'
    BY <1>13 DEF InstallInv, ResolvedRuns, Installing,
           Runnable, Dirs, Threads, Select
  <1>14. CASE Restart
    BY <1>14 DEF InstallInv, ResolvedRuns, Installing,
           Runnable, Dirs, Threads, Restart
  <1>15. ASSUME NEW v \in Deletable, Delete(v) PROVE InstallInv'
    BY <1>15 DEF InstallInv, ResolvedRuns, Installing,
           Runnable, Dirs, Threads, Delete
  <1>16. CASE UNCHANGED vars
    BY <1>16 DEF InstallInv, ResolvedRuns, Installing,
           Runnable, Dirs, Threads, vars
  <1> QED
    BY <1>1, <1>2, <1>3, <1>4, <1>5, <1>6, <1>7, <1>8, <1>9, <1>10, <1>11,
       <1>12, <1>13, <1>14, <1>15, <1>16
       DEF Next, Ensure, Update, Install, Threads

-----------------------------------------------------------------------------
(* What is selected. *)

LEMMA SelectStep ==
  TypeOK /\ LockInv /\ InstallInv /\ SelectInv /\ [Next]_vars => SelectInv'
  <1> SUFFICES ASSUME TypeOK, LockInv, InstallInv, SelectInv, [Next]_vars
               PROVE  SelectInv'
    OBVIOUS
  <1> USE DEF disk, Go, Aim, Fail
  <1>1. ASSUME NEW t \in Threads, Ask(t) PROVE SelectInv'
    BY <1>1 DEF SelectInv, SelectedIsVerified, Holds,
           Installing, Runnable, Dirs, Ask
  <1>2. ASSUME NEW t \in Threads, Lock(t) PROVE SelectInv'
    BY <1>2 DEF SelectInv, SelectedIsVerified, Holds,
           Installing, Runnable, Dirs, Lock
  <1>3. ASSUME NEW t \in Threads, Look(t) PROVE SelectInv'
    BY <1>3 DEF TypeOK, SelectInv, SelectedIsVerified, Holds,
           Installing, Runnable, Dirs, Look, Resolution, Runnable
  <1>4. ASSUME NEW t \in Threads, Run(t) PROVE SelectInv'
    BY <1>4 DEF SelectInv, SelectedIsVerified, Holds,
           Installing, Runnable, Dirs, Run
  <1>5. ASSUME NEW t \in Threads, Download(t) PROVE SelectInv'
    BY <1>5 DEF TypeOK, SelectInv, SelectedIsVerified, Holds,
           Installing, Runnable, Dirs, Download
  <1>6. ASSUME NEW t \in Threads, Extract(t) PROVE SelectInv'
    BY <1>6 DEF SelectInv, SelectedIsVerified, Holds,
           Installing, Runnable, Dirs, Extract
  <1>7. ASSUME NEW t \in Threads, Write(t) PROVE SelectInv'
    BY <1>7 DEF TypeOK, SelectInv, SelectedIsVerified, Holds,
           Installing, Runnable, Dirs, Write
  <1>8. ASSUME NEW t \in Threads, Clear(t) PROVE SelectInv'
    BY <1>8 DEF InstallInv, SelectInv, SelectedIsVerified, Holds,
           Installing, Runnable, Dirs, Clear
  <1>9. ASSUME NEW t \in Threads, Rename(t) PROVE SelectInv'
    BY <1>9 DEF TypeOK, InstallInv, SelectInv, SelectedIsVerified, Holds,
           Installing, Runnable, Dirs, Rename
  <1>10. ASSUME NEW t \in Threads, AskUpdate(t) PROVE SelectInv'
    BY <1>10 DEF SelectInv, SelectedIsVerified, Holds,
           Installing, Runnable, Dirs, AskUpdate
  <1>11. ASSUME NEW t \in Threads, Latest(t) PROVE SelectInv'
    BY <1>11 DEF TypeOK, InstallInv, SelectInv, SelectedIsVerified, Holds,
           Installing, Runnable, Dirs, Latest, NeedsInstall, Runnable
  <1>12. ASSUME NEW t \in Threads, Probe(t) PROVE SelectInv'
    BY <1>12 DEF TypeOK, SelectInv, SelectedIsVerified, Holds,
           Installing, Runnable, Dirs, Probe, Runnable
  <1>13. ASSUME NEW t \in Threads, Select(t) PROVE SelectInv'
    BY <1>13 DEF SelectInv, SelectedIsVerified, Holds,
           Installing, Runnable, Dirs, Select
  <1>14. CASE Restart
    BY <1>14 DEF SelectInv, SelectedIsVerified, Holds,
           Installing, Runnable, Dirs, Restart
  <1>15. ASSUME NEW v \in Deletable, Delete(v) PROVE SelectInv'
    BY <1>15 DEF SelectInv, SelectedIsVerified, Holds,
           Installing, Runnable, Dirs, Delete
  <1>16. CASE UNCHANGED vars
    BY <1>16 DEF SelectInv, SelectedIsVerified, Holds,
           Installing, Runnable, Dirs, vars
  <1> QED
    BY <1>1, <1>2, <1>3, <1>4, <1>5, <1>6, <1>7, <1>8, <1>9, <1>10, <1>11,
       <1>12, <1>13, <1>14, <1>15, <1>16
       DEF Next, Ensure, Update, Install, Threads

-----------------------------------------------------------------------------
(* The theorems. *)

\* Every variable keeps its type, whoever installs and whenever the process is
\* killed.
THEOREM TypeCorrect == Spec => []TypeOK
  <1>1. Init => TypeOK
    BY VersionsAssumption DEF Init, TypeOK, Dirs, Pcs
  <1> QED BY <1>1, TypeStep, PTL DEF Spec

LEMMA InstallSafe == Spec => [](TypeOK /\ LockInv /\ InstallInv /\ SelectInv)
  <1>1. Init => LockInv
    BY DEF Init, LockInv, Holds, Installing
  <1>2. Init => InstallInv
    BY DEF Init, InstallInv, ResolvedRuns, Installing, Threads
  <1>3. Init => SelectInv
    BY DEF Init, SelectInv, SelectedIsVerified
  <1> QED
    BY <1>1, <1>2, <1>3, TypeCorrect, LockStep, InstallStep, SelectStep, PTL
       DEF Spec

\* publishExtraction: wherever the process is killed, nothing partial looks
\* installed.
THEOREM NeverHalfInstalledSafe == Spec => []NeverHalfInstalled
  <1>1. InstallInv => NeverHalfInstalled
    BY DEF InstallInv, NeverHalfInstalled, Runnable
  <1> QED BY <1>1, InstallSafe, PTL

\* The binary that ensure returned stays in place until its caller has run it.
THEOREM ResolvedRunsSafe == Spec => []ResolvedRuns
  <1>1. InstallInv => ResolvedRuns
    BY DEF InstallInv
  <1> QED BY <1>1, InstallSafe, PTL

\* Only a release that ran and reported itself is ever selected.
THEOREM SelectedIsVerifiedSafe == Spec => []SelectedIsVerified
  <1>1. SelectInv => SelectedIsVerified
    BY DEF SelectInv
  <1> QED BY <1>1, InstallSafe, PTL

LEMMA ResolutionKept ==
  ASSUME TypeOK, selected' = selected,
         selected # NoVersion => (Runnable(selected)' <=> Runnable(selected))
  PROVE  Resolution' = Resolution
  BY DEF Resolution

LEMMA ResolutionMoves ==
  ASSUME TypeOK, LockInv, InstallInv, SelectInv, [Next]_vars,
         Resolution' # Resolution
  PROVE  \/ \E u \in Updaters :
              /\ pc[u] = "select"
              /\ Resolution' = goal[u] \/ goal[u] \in Deletable
         \/ selected \in Deletable /\ dir'[selected] # dir[selected]
  <1>1. ASSUME UNCHANGED <<dir, selected>> PROVE FALSE
    BY <1>1, ResolutionKept DEF Runnable
  <1>2. ASSUME NEW t \in Threads, Clear(t) PROVE FALSE
    <2>1. ~Runnable(goal[t]) /\ goal[t] \in Versions
      BY <1>2 DEF TypeOK, InstallInv, Installing, Clear, Go
    <2>2. selected' = selected /\ dir' = [dir EXCEPT ![goal[t]] = "absent"]
      BY <1>2 DEF Clear
    <2>3. selected # NoVersion => (Runnable(selected)' <=> Runnable(selected))
      BY <2>1, <2>2 DEF TypeOK, Runnable
    <2> QED BY <2>2, <2>3, ResolutionKept
  <1>3. ASSUME NEW t \in Threads, Rename(t)
        PROVE  selected \in Deletable /\ dir'[selected] # dir[selected]
    <2>1. /\ selected' = selected /\ goal[t] \in Versions
          /\ UNCHANGED dir \/ dir' = [dir EXCEPT ![goal[t]] = "whole"]
          /\ ~Runnable(goal[t])
      BY <1>3 DEF TypeOK, InstallInv, Installing, Rename, Go, Fail
    <2>2. selected # NoVersion /\ ~(Runnable(selected)' <=> Runnable(selected))
      BY <2>1, ResolutionKept
    <2>3. dir'[selected] # dir[selected] /\ selected = goal[t]
      BY <2>1, <2>2 DEF TypeOK, Runnable
    <2>4. selected \in Deletable
      BY <2>1, <2>2, <2>3 DEF SelectInv, Runnable
    <2> QED BY <2>3, <2>4
  <1>4. ASSUME NEW u \in Updaters, Select(u)
        PROVE  /\ pc[u] = "select"
               /\ Resolution' = goal[u] \/ goal[u] \in Deletable
    <2>1. /\ pc[u] = "select" /\ goal[u] \in Versions
          /\ UNCHANGED <<dir, goal>>
          /\ selected' \in {selected, goal[u]}
      BY <1>4 DEF TypeOK, Select, Fail, Go, Threads
    <2>2. selected' = goal[u]
      BY <2>1, <1>1
    <2>3. goal[u] \notin Deletable => dir'[goal[u]] = "whole"
      BY <2>1 DEF SelectInv, Threads
    <2> QED
      BY <2>1, <2>2, <2>3, VersionsAssumption DEF Resolution, Runnable
  <1>5. ASSUME NEW v \in Deletable, Delete(v)
        PROVE  selected \in Deletable /\ dir'[selected] # dir[selected]
    <2>1. /\ selected' = selected /\ Runnable(v) /\ v \in Versions
          /\ dir' = [dir EXCEPT ![v] = "damaged"]
      BY <1>5, VersionsAssumption DEF Delete
    <2>2. selected # NoVersion /\ ~(Runnable(selected)' <=> Runnable(selected))
      BY <2>1, ResolutionKept
    <2> QED BY <2>1, <2>2 DEF TypeOK, Runnable
  <1>6. \/ UNCHANGED <<dir, selected>>
        \/ \E t \in Threads : Clear(t) \/ Rename(t)
        \/ \E u \in Updaters : Select(u)
        \/ \E v \in Deletable : Delete(v)
    BY DEF Next, Ensure, Update, Install, Threads, Ask, Lock, Look, Run,
           Download, Extract, Write, AskUpdate, Latest, Probe, Restart, vars, disk
  <1> QED BY <1>1, <1>2, <1>3, <1>4, <1>5, <1>6

\* Every failure leaves the selection intact: no installation, restart or
\* failed update moves the version that ensure resolves to.
THEOREM OnlySelectionMovesSafe == Spec => OnlySelectionMoves
  <1>1. TypeOK /\ LockInv /\ InstallInv /\ SelectInv /\ [Next]_vars =>
          [Resolution' # Resolution =>
             \/ \E u \in Updaters :
                  /\ pc[u] = "select"
                  /\ Resolution' = goal[u] \/ goal[u] \in Deletable
             \/ selected \in Deletable /\ dir'[selected] # dir[selected]]_vars
    BY ResolutionMoves
  <1> QED BY <1>1, InstallSafe, PTL DEF Spec, OnlySelectionMoves

-----------------------------------------------------------------------------
(* Refinement: the file operations implement the single steps of ManagedCli. *)

LEMMA ChoiceStep ==
  TypeOK /\ LockInv /\ ChoiceInv /\ [Next]_vars => ChoiceInv'
  <1> SUFFICES ASSUME TypeOK, LockInv, ChoiceInv, [Next]_vars,
                      NEW r \in Resolvers, Installing(r)'
               PROVE  /\ goal'[r] = Pinned
                      /\ selected' = NoVersion \/ ~Runnable(selected)'
    BY DEF ChoiceInv, Installing
  <1> DEFINE chosen_ == /\ goal'[r] = Pinned
                        /\ selected' = NoVersion \/ ~Runnable(selected)'
  <1>1. r \in Threads /\ Resolvers \intersect Updaters = {}
    BY VersionsAssumption DEF Threads
  <1>2. CASE Look(r)
    BY <1>1, <1>2 DEF TypeOK, Look, Resolution, Runnable, disk, Aim, Go, Installing
  <1>3. CASE ~Look(r)
    <2>1. Installing(r)
      BY <1>1, <1>3
      DEF TypeOK, Installing, Next, Ensure, Update, Install, Go, Ask, Lock, Look, Run,
          Download, Extract, Write, Clear, Rename, AskUpdate, Latest, Probe, Select,
          Restart, Delete, Fail, vars, Threads
    <2>2. /\ mu = r /\ goal[r] = Pinned
          /\ selected = NoVersion \/ ~Runnable(selected)
      BY <1>1, <2>1 DEF LockInv, Holds, ChoiceInv
    <2>3. ASSUME NEW t \in Threads, Holds(t)
          PROVE  t = r
      BY <2>2, <2>3 DEF LockInv
    <2>4. CASE UNCHANGED <<dir, selected, goal>>
      BY <2>2, <2>4 DEF Runnable
    <2>5. ASSUME NEW t \in Threads, Look(t) \/ Latest(t) \/ Select(t)
          PROVE  chosen_
      <3>1. Holds(t) /\ ~Installing(t)
        BY <2>5 DEF Look, Latest, Select, Fail, Go, Holds, Installing
      <3> QED BY <2>1, <2>3, <3>1
    <2>6. ASSUME NEW t \in Threads, Clear(t)
          PROVE  chosen_
      BY <2>2, <2>6 DEF Clear, TypeOK, Runnable
    <2>7. ASSUME NEW t \in Threads, Rename(t)
          PROVE  chosen_
      <3>1. Holds(t) /\ ~Installing(t)'
        BY <2>7 DEF Rename, Fail, Go, Holds, Installing, TypeOK
      <3> QED BY <2>3, <3>1
    <2>8. ASSUME NEW v \in Deletable, Delete(v)
          PROVE  chosen_
      BY <2>2, <2>8 DEF Delete, TypeOK, Runnable
    <2>9. \/ UNCHANGED <<dir, selected, goal>>
          \/ \E t \in Threads :
               Look(t) \/ Latest(t) \/ Select(t) \/ Clear(t) \/ Rename(t)
          \/ \E v \in Deletable : Delete(v)
      BY DEF Next, Ensure, Update, Install, Threads, Ask, Lock, Run,
             Download, Extract, Write, AskUpdate, Probe, Restart, vars, disk
    <2> QED BY <2>4, <2>5, <2>6, <2>7, <2>8, <2>9
  <1> QED BY <1>2, <1>3

\* What ManagedCli sees of a state.
usableBar == {v \in Versions : dir[v] = "whole"}
heldBar == [r \in Resolvers |-> IF pc[r] = "run" THEN goal[r] ELSE NoVersion]

LEMMA UsableIsRunnable ==
  ASSUME InstallInv, NEW v \in Versions
  PROVE  v \in usableBar <=> Runnable(v)
  BY DEF InstallInv, usableBar, Runnable

\* Both choose the same release.
LEMMA ResolvedIsResolution ==
  ASSUME TypeOK, InstallInv
  PROVE  Managed!Resolved = Resolution /\ Resolution \in Versions
  BY UsableIsRunnable, VersionsAssumption
  DEF Managed!Resolved, Resolution, TypeOK, usableBar

\* A thread that is not at "run" and does not come there leaves what is held.
LEMMA HeldSame ==
  ASSUME TypeOK, NEW t \in Threads, NEW here \in Pcs, NEW there \in Pcs,
         Go(t, here, there), here # "run", there # "run",
         \A s \in Threads : s # t => goal'[s] = goal[s]
  PROVE  heldBar' = heldBar
  BY DEF TypeOK, Go, heldBar, Threads

LEMMA HeldChanges ==
  ASSUME TypeOK, NEW r \in Resolvers, NEW here \in Pcs, here # "run",
         Go(r, here, "run"), NEW v, goal'[r] = v,
         \A s \in Threads : s # r => goal'[s] = goal[s]
  PROVE  heldBar[r] = NoVersion /\ heldBar' = [heldBar EXCEPT ![r] = v]
  BY DEF TypeOK, Go, heldBar, Threads

LEMMA InitManaged == Init => Managed!Init
  <1> SUFFICES ASSUME Init PROVE Managed!Init
    OBVIOUS
  <1>1. usableBar = {} /\ heldBar = [r \in Resolvers |-> NoVersion]
    BY DEF Init, usableBar, heldBar, Threads
  <1> QED BY <1>1 DEF Init, Managed!Init, usableBar, heldBar

ManagedSame == UNCHANGED <<usableBar, selected, verified, heldBar>>

\* What an installation does before it renames is not to be seen.
LEMMA QuietManaged ==
  ASSUME TypeOK, InstallInv, NEW t \in Threads,
         \/ Ask(t) \/ Lock(t) \/ Download(t) \/ Extract(t) \/ Write(t) \/ Clear(t)
         \/ AskUpdate(t) \/ Latest(t)
  PROVE  ManagedSame
  <1>1. UNCHANGED <<selected, verified>>
    BY DEF Ask, Lock, Download, Extract, Write, Clear, AskUpdate, Latest, disk
  <1>2. usableBar' = usableBar
    <2>1. CASE Clear(t)
      BY <2>1 DEF TypeOK, InstallInv, Installing, Clear, Go, Runnable, usableBar
    <2>2. CASE ~Clear(t)
      BY <2>2 DEF Ask, Lock, Download, Extract, Write, AskUpdate, Latest, disk, usableBar
    <2> QED BY <2>1, <2>2
  <1>3. \A s \in Threads : s # t => goal'[s] = goal[s]
    BY DEF TypeOK, Ask, Lock, Download, Extract, Write, Clear, AskUpdate, Latest, Aim
  <1>4. \E here, there \in Pcs \ {"run"} : Go(t, here, there)
    BY DEF Ask, Lock, Download, Extract, Write, Clear, AskUpdate, Latest, Fail, Pcs
  <1> QED BY <1>1, <1>2, <1>3, <1>4, HeldSame DEF ManagedSame

\* ensure returns what is there, or turns to installing.
LEMMA LookManaged ==
  ASSUME TypeOK, InstallInv, NEW r \in Resolvers, Look(r)
  PROVE  Managed!Give(r) \/ ManagedSame
  <1>1. /\ UNCHANGED <<dir, selected, verified>> /\ r \in Threads
        /\ goal' = [goal EXCEPT ![r] = Resolution]
        /\ usableBar' = usableBar
    BY DEF Look, disk, Aim, usableBar, Threads
  <1>2. /\ goal'[r] = Resolution /\ Resolution \in Versions
        /\ \A s \in Threads : s # r => goal'[s] = goal[s]
    BY <1>1, ResolvedIsResolution DEF TypeOK
  <1>3. CASE Runnable(Resolution) /\ Go(r, "look", "run")
    <2>1. heldBar[r] = NoVersion /\ heldBar' = [heldBar EXCEPT ![r] = Resolution]
      BY <1>2, <1>3, HeldChanges DEF Pcs
    <2>2. Managed!Resolved = Resolution /\ Resolution \in usableBar
      BY <1>2, <1>3, ResolvedIsResolution, UsableIsRunnable
    <2> QED BY <1>1, <2>1, <2>2 DEF Managed!Give, usableBar, heldBar
  <1>4. CASE Go(r, "look", "download")
    BY <1>1, <1>2, <1>4, HeldSame DEF ManagedSame, Pcs
  <1> QED BY <1>3, <1>4 DEF Look

\* The binary is run while it is usable, unless a user deleted it.
LEMMA RunManaged ==
  ASSUME TypeOK, InstallInv, NEW r \in Resolvers, Run(r)
  PROVE  Managed!Run(r)
  <1>1. /\ Go(r, "run", "idle") /\ UNCHANGED <<dir, selected, goal, verified>>
        /\ usableBar' = usableBar /\ r \in Threads
    BY DEF Run, disk, usableBar, Threads
  <1>2. heldBar' = [heldBar EXCEPT ![r] = NoVersion] /\ heldBar[r] = goal[r]
    BY <1>1 DEF TypeOK, Go, heldBar, Threads
  <1>3. goal[r] \in usableBar \union Deletable
    BY <1>1 DEF TypeOK, InstallInv, ResolvedRuns, Go, usableBar
  <1> QED BY <1>1, <1>2, <1>3 DEF Managed!Run, usableBar, heldBar

\* The rename publishes the release as a whole, and ensure hands it out.
LEMMA RenameManaged ==
  ASSUME TypeOK, InstallInv, ChoiceInv, NEW t \in Threads, Rename(t)
  PROVE  \/ \E v \in Versions : Managed!Publish(v)
         \/ \E r \in Resolvers : Managed!PublishAndGive(r)
         \/ ManagedSame
  <1>1. /\ UNCHANGED <<selected, goal, verified>> /\ pc[t] = "rename"
        /\ goal[t] \in Versions /\ ~Runnable(goal[t]) /\ tmp[goal[t]] = "whole"
        /\ goal[t] \notin usableBar
    BY DEF Rename, TypeOK, InstallInv, Installing, Go, Fail, usableBar, Runnable
  <1>2. CASE Fail(t, "rename") /\ UNCHANGED dir
    <2>1. Go(t, "rename", "idle") /\ usableBar' = usableBar
      BY <1>2 DEF Fail, usableBar
    <2> QED BY <1>1, <2>1, HeldSame DEF ManagedSame, Pcs
  <1>3. CASE dir' = [dir EXCEPT ![goal[t]] = tmp[goal[t]]]
             /\ t \in Resolvers /\ Go(t, "rename", "run")
    <2>1. usableBar' = usableBar \union {goal[t]}
      BY <1>1, <1>3 DEF TypeOK, usableBar
    <2>2. goal[t] = Pinned /\ (selected = NoVersion \/ ~Runnable(selected))
      BY <1>1, <1>3 DEF ChoiceInv, Installing
    <2>3. Managed!Resolved = Pinned
      BY <2>2, ResolvedIsResolution DEF Resolution
    <2>4. heldBar[t] = NoVersion /\ heldBar' = [heldBar EXCEPT ![t] = goal[t]]
      BY <1>1, <1>3, HeldChanges DEF Pcs
    <2> QED BY <1>1, <1>3, <2>1, <2>2, <2>3, <2>4
        DEF Managed!PublishAndGive, usableBar, heldBar
  <1>4. CASE dir' = [dir EXCEPT ![goal[t]] = tmp[goal[t]]]
             /\ Go(t, "rename", "probe")
    <2>1. usableBar' = usableBar \union {goal[t]}
      BY <1>1, <1>4 DEF TypeOK, usableBar
    <2>2. heldBar' = heldBar
      BY <1>1, <1>4, HeldSame DEF Pcs
    <2> QED BY <1>1, <2>1, <2>2 DEF Managed!Publish, usableBar, heldBar
  <1> QED BY <1>2, <1>3, <1>4 DEF Rename

LEMMA ProbeManaged ==
  ASSUME TypeOK, InstallInv, NEW u \in Threads, Probe(u)
  PROVE  (\E v \in Versions : Managed!Verify(v)) \/ ManagedSame
  <1>1. /\ UNCHANGED <<dir, selected, goal>> /\ usableBar' = usableBar
        /\ goal[u] \in Versions
    BY DEF Probe, disk, TypeOK, usableBar
  <1>2. heldBar' = heldBar
    BY <1>1, HeldSame DEF Probe, Fail, Pcs
  <1>3. \/ UNCHANGED verified
        \/ Runnable(goal[u]) /\ verified' = verified \union {goal[u]}
    BY DEF Probe
  <1>4. Runnable(goal[u]) => goal[u] \in usableBar
    BY <1>1, UsableIsRunnable
  <1> QED BY <1>1, <1>2, <1>3, <1>4 DEF Managed!Verify, ManagedSame, usableBar, heldBar

\* The selection file changes only to a release that ran and is still there.
LEMMA SelectManaged ==
  ASSUME TypeOK, SelectInv, NEW u \in Threads, Select(u)
  PROVE  (\E v \in Versions : Managed!Select(v)) \/ ManagedSame
  <1>1. /\ UNCHANGED <<dir, goal, verified>> /\ usableBar' = usableBar
        /\ goal[u] \in Versions /\ Go(u, "select", "idle")
        /\ selected' \in {selected, goal[u]}
    BY DEF Select, Fail, TypeOK, usableBar
  <1>2. heldBar' = heldBar
    BY <1>1, HeldSame DEF Pcs
  <1>3. goal[u] \in verified /\ goal[u] \in usableBar \union Deletable
    BY <1>1 DEF SelectInv, Go, usableBar
  <1> QED BY <1>1, <1>2, <1>3 DEF Managed!Select, ManagedSame, usableBar, heldBar

LEMMA RestartManaged ==
  ASSUME Restart
  PROVE  Managed!Restart
  <1>1. /\ UNCHANGED <<dir, selected, verified>> /\ usableBar' = usableBar
        /\ heldBar' = [r \in Resolvers |-> NoVersion]
    BY DEF Restart, disk, usableBar, heldBar, Threads
  <1> QED BY <1>1 DEF Managed!Restart, usableBar, heldBar

LEMMA DeleteManaged ==
  ASSUME TypeOK, NEW v \in Deletable, Delete(v)
  PROVE  Managed!Lose(v) /\ v \in Versions
  <1>1. v \in Versions /\ dir' = [dir EXCEPT ![v] = "damaged"]
        /\ UNCHANGED <<selected, verified, pc, goal>>
    BY VersionsAssumption DEF Delete
  <1>2. usableBar' = usableBar \ {v} /\ heldBar' = heldBar
    BY <1>1 DEF TypeOK, usableBar, heldBar
  <1> QED BY <1>1, <1>2 DEF Managed!Lose, usableBar, heldBar

LEMMA NextManaged ==
  TypeOK /\ InstallInv /\ SelectInv /\ ChoiceInv /\ [Next]_vars
    => [Managed!Next]_Managed!vars
  <1> SUFFICES ASSUME TypeOK, InstallInv, SelectInv, ChoiceInv, [Next]_vars
               PROVE  Managed!Next \/ ManagedSame
    BY DEF Managed!vars, ManagedSame, usableBar, heldBar
  <1>1. ASSUME NEW t \in Threads,
               \/ Ask(t) \/ Lock(t) \/ Download(t) \/ Extract(t) \/ Write(t)
               \/ Clear(t) \/ AskUpdate(t) \/ Latest(t)
        PROVE  ManagedSame
    BY <1>1, QuietManaged
  <1>2. ASSUME NEW r \in Resolvers, Look(r) \/ Run(r)
        PROVE  Managed!Next \/ ManagedSame
    BY <1>2, LookManaged, RunManaged DEF Managed!Next
  <1>3. ASSUME NEW t \in Threads, Rename(t) \/ Probe(t) \/ Select(t)
        PROVE  Managed!Next \/ ManagedSame
    BY <1>3, RenameManaged, ProbeManaged, SelectManaged DEF Managed!Next
  <1>4. CASE Restart
    BY <1>4, RestartManaged DEF Managed!Next
  <1>5. ASSUME NEW v \in Deletable, Delete(v)
        PROVE  Managed!Next
    BY <1>5, DeleteManaged DEF Managed!Next
  <1>6. CASE UNCHANGED vars
    BY <1>6 DEF vars, disk, ManagedSame, usableBar, heldBar
  <1> QED BY <1>1, <1>2, <1>3, <1>4, <1>5, <1>6
      DEF Next, Ensure, Update, Install, Threads

\* ensure and update: with file operations that are interleaved, fail and are
\* cut off by kills, callers see releases appear as a whole, a selection that
\* only a probed release takes over, and nothing taken away but by a user.
THEOREM RefinesManagedCli == Spec => ImplementsManagedCli
  <1>1. Init => ChoiceInv
    BY DEF Init, ChoiceInv, Installing, Threads
  <1>2. Spec => []ChoiceInv
    BY <1>1, ChoiceStep, InstallSafe, PTL DEF Spec
  <1> QED BY <1>2, InitManaged, NextManaged, InstallSafe, PTL
      DEF Spec, ImplementsManagedCli, Managed!Spec

================================================================================
