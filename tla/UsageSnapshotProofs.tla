------------------------- MODULE UsageSnapshotProofs -------------------------
(***************************************************************************)
(* Proofs about UsageSnapshot for every number of teams, clients, saves    *)
(* and updates.  Each invariant is proved from the ones before it:         *)
(* types, then the two mutexes, then the scope of Cursor usage and the     *)
(* version of the CLI.                                                     *)
(***************************************************************************)
EXTENDS UsageSnapshot, TLAPS

LEMMA Actors ==
    /\ PollLoop \in Pollers
    /\ Readers \subseteq Pollers
    /\ BgPolls \subseteq Pollers
    /\ Personal \in Selections
    /\ Legacy \in Selections
  BY ConstantsAssumption DEF Pollers, Selections

\* The constructor of reports and its projections.
LEMMA ReportTypes ==
    /\ \A u \in Selections \union {NoUsage}, c \in 0..MaxCli :
         /\ Report(u, c) \in Reports
         /\ Report(u, c).usage = u
         /\ Report(u, c).cli = c
    /\ \A x \in Reports : /\ x.usage \in Selections \union {NoUsage}
                          /\ x.cli \in 0..MaxCli
    /\ EmptyReport \in Reports
    /\ NoSnapshot \notin Reports
  BY ConstantsAssumption DEF EmptyReport, Reports, Report

LEMMA InitType == Init => TypeOK
  BY Actors, ReportTypes, ConstantsAssumption
     DEF Init, TypeOK, Fresh, Started, PollerPcs, SaverPcs, UpdaterPcs

LEMMA InForceType == TypeOK => InForce \in Selections /\ Selected \in Selections
  BY Actors DEF TypeOK, InForce, Selected

\* A step of a thread's program counter keeps the type of the counters.
LEMMA PcTypes ==
  ASSUME TypeOK
  PROVE  /\ \A t \in Pollers, a \in PollerPcs, b \in PollerPcs : Go(t, a, b) =>
              pc' \in [Pollers -> PollerPcs] /\ UNCHANGED <<spc, upc>>
         /\ \A s \in Savers, a \in SaverPcs, b \in SaverPcs :
              SaverGo(s, a, b) =>
                spc' \in [Savers -> SaverPcs] /\ UNCHANGED upc
         /\ \A u \in Updaters, a \in UpdaterPcs, b \in UpdaterPcs :
              UpdaterGo(u, a, b) =>
                upc' \in [Updaters -> UpdaterPcs] /\ UNCHANGED <<pc, spc>>
  BY DEF TypeOK, Go, SaverGo, UpdaterGo

\* Every step keeps the types; one step per action, and under it the variables
\* the action changes.
LEMMA NextType == TypeOK /\ [Next]_vars => TypeOK'
  <1> SUFFICES ASSUME TypeOK, [Next]_vars
               PROVE  TypeOK'
    OBVIOUS
  <1> USE Actors DEF disk, memory, locks, pcs, rebuild, history
  <1>1. CASE Tick
    BY <1>1 DEF Tick, TypeOK, Go, PollerPcs
  <1>2. CASE Age
    BY <1>2 DEF Age, TypeOK
  <1>3. CASE Restart
    <2>1. /\ pc' \in [Pollers -> PollerPcs]
          /\ spc' \in [Savers -> SaverPcs]
          /\ upc' \in [Updaters -> UpdaterPcs]
      BY <1>3 DEF Restart, Fresh, Started, PollerPcs, SaverPcs, UpdaterPcs
    <2>2. /\ overtaken' \subseteq Pollers
          /\ floor' \in [Readers -> 0..MaxCli]
      BY <1>3, ConstantsAssumption DEF Restart, Fresh
    <2>3. /\ scope' \in [Pollers -> Selections]
          /\ rep' \in [Pollers -> Reports]
          /\ want' \in [Savers -> Selections]
          /\ prev' \in [Savers -> Selections]
          /\ seen' \in [Readers -> SUBSET Selections]
          /\ answer' \in [Readers -> Reports \union {NoSnapshot}]
      BY <1>3, ReportTypes DEF Restart, Fresh
    <2>4. QED
      BY <1>3, <2>1, <2>2, <2>3 DEF Restart, TypeOK
  <1>4. ASSUME NEW r \in Readers, Ask(r)
        PROVE  TypeOK'
    <2>1. pc' \in [Pollers -> PollerPcs] /\ UNCHANGED <<spc, upc>>
      BY <1>4, PcTypes DEF Ask, PollerPcs
    <2>2. /\ ttl' \subseteq Pollers
          /\ floor' \in [Readers -> 0..MaxCli]
      BY <1>4 DEF Ask, TypeOK
    <2>3. seen' \in [Readers -> SUBSET Selections]
      BY <1>4, InForceType DEF Ask, TypeOK
    <2>4. QED
      BY <1>4, <2>1, <2>2, <2>3 DEF Ask, TypeOK
  <1>5. ASSUME NEW r \in Readers, Peek(r)
        PROVE  TypeOK'
    <2>1. pc' \in [Pollers -> PollerPcs] /\ UNCHANGED <<spc, upc>>
      BY <1>5, PcTypes DEF Peek, PollerPcs
    <2>2. /\ ttl' \subseteq Pollers
          /\ answer' \in [Readers -> Reports \union {NoSnapshot}]
      BY <1>5 DEF Peek, TypeOK
    <2>3. QED
      BY <1>5, <2>1, <2>2 DEF Peek, TypeOK
  <1>6. ASSUME NEW r \in Readers, Done(r)
        PROVE  TypeOK'
    <2>1. pc' \in [Pollers -> PollerPcs] /\ UNCHANGED <<spc, upc>>
      BY <1>6, PcTypes DEF Done, PollerPcs
    <2>2. /\ seen' \in [Readers -> SUBSET Selections]
          /\ answer' \in [Readers -> Reports \union {NoSnapshot}]
      BY <1>6 DEF Done, TypeOK
    <2>3. floor' \in [Readers -> 0..MaxCli]
      BY <1>6, ConstantsAssumption DEF Done, TypeOK
    <2>4. QED
      BY <1>6, <2>1, <2>2, <2>3 DEF Done, TypeOK
  <1>7. ASSUME NEW t \in Pollers, LockPoll(t)
        PROVE  TypeOK'
    <2>1. pc' \in [Pollers -> PollerPcs] /\ UNCHANGED <<spc, upc>>
      BY <1>7, PcTypes DEF LockPoll, PollerPcs
    <2>2. rep' \in [Pollers -> Reports]
      BY <1>7 DEF LockPoll, TypeOK
    <2>3. QED
      BY <1>7, <2>1, <2>2 DEF LockPoll, TypeOK
  <1>8. ASSUME NEW t \in Pollers, Expire(t)
        PROVE  TypeOK'
    BY <1>8 DEF Expire, TypeOK
  <1>9. ASSUME NEW t \in Pollers, BeginRebuild(t)
        PROVE  TypeOK'
    <2>1. pc' \in [Pollers -> PollerPcs] /\ UNCHANGED <<spc, upc>>
      BY <1>9, PcTypes DEF BeginRebuild, PollerPcs
    <2>2. /\ Report(NoUsage, cli) \in Reports
          /\ Report(Personal, cli) \in Reports
      BY ReportTypes, Personal \in Selections DEF TypeOK, Selections
    <2>3. rep' \in [Pollers -> Reports]
      BY <1>9, <2>2 DEF BeginRebuild, TypeOK
    <2>4. /\ overtaken' \subseteq Pollers
          /\ failing' \subseteq Pollers
      BY <1>9 DEF BeginRebuild, TypeOK
    <2>5. QED
      BY <1>9, <2>1, <2>3, <2>4 DEF BeginRebuild, TypeOK
  <1>10. ASSUME NEW t \in Pollers, CursorConfig(t)
         PROVE  TypeOK'
    <2>1. pc' \in [Pollers -> PollerPcs] /\ UNCHANGED <<spc, upc>>
      BY <1>10, PcTypes DEF CursorConfig, PollerPcs
    <2>2. /\ stored' \in Selections \union {Absent}
          /\ scope' \in [Pollers -> Selections]
      BY <1>10, InForceType DEF CursorConfig, MigrateLegacy, TypeOK
    <2>3. QED
      BY <1>10, <2>1, <2>2 DEF CursorConfig, TypeOK
  <1>11. ASSUME NEW t \in Pollers, FetchCursor(t)
         PROVE  TypeOK'
    <2>1. pc' \in [Pollers -> PollerPcs] /\ UNCHANGED <<spc, upc>>
      BY <1>11, PcTypes DEF FetchCursor, PollerPcs
    <2>2. Report(scope[t], rep[t].cli) \in Reports
      BY ReportTypes DEF TypeOK
    <2>3. rep' \in [Pollers -> Reports]
      BY <1>11, <2>2 DEF FetchCursor, TypeOK
    <2>4. /\ scope' \in [Pollers -> Selections]
          /\ failing' \subseteq Pollers
      BY <1>11 DEF FetchCursor, TypeOK
    <2>5. QED
      BY <1>11, <2>1, <2>3, <2>4 DEF FetchCursor, TypeOK
  <1>12. ASSUME NEW t \in Pollers, Publish(t)
         PROVE  TypeOK'
    <2>1. pc' \in [Pollers -> PollerPcs] /\ UNCHANGED <<spc, upc>>
      BY <1>12, PcTypes DEF Publish, GivenUp, PollerPcs
    <2>2. Merged(t) \in Reports
      BY ReportTypes DEF Merged, TypeOK
    <2>3. Report(NoUsage, rep[t].cli) \in Reports
      BY ReportTypes DEF TypeOK
    <2>4. rep' \in [Pollers -> Reports]
      BY <1>12, <2>2, <2>3 DEF Publish, GivenUp, TypeOK
    <2>5. /\ snap' \in Reports \union {NoSnapshot}
          /\ age' \in {"fresh", "old"}
      BY <1>12, <2>2 DEF Publish, GivenUp, TypeOK
    <2>6. QED
      BY <1>12, <2>1, <2>4, <2>5 DEF Publish, GivenUp, TypeOK
  <1>13. ASSUME NEW t \in Pollers, Return(t)
         PROVE  TypeOK'
    <2>1. pc' \in [Pollers -> PollerPcs] /\ UNCHANGED <<spc, upc>>
      BY <1>13, PcTypes DEF Return, PollerPcs
    <2>2. /\ rep' \in [Pollers -> Reports]
          /\ answer' \in [Readers -> Reports \union {NoSnapshot}]
      BY <1>13, ReportTypes DEF Return, TypeOK
    <2>3. overtaken' \subseteq Pollers
      BY <1>13, ConstantsAssumption DEF Return, TypeOK
    <2>4. QED
      BY <1>13, <2>1, <2>2, <2>3 DEF Return, TypeOK
  <1>14. ASSUME NEW s \in Savers, NEW sel \in Selections, AskSave(s, sel)
         PROVE  TypeOK'
    <2>1. spc' \in [Savers -> SaverPcs] /\ UNCHANGED upc
      BY <1>14, PcTypes DEF AskSave, SaverPcs
    <2>2. want' \in [Savers -> Selections]
      BY <1>14 DEF AskSave, TypeOK
    <2>3. QED
      BY <1>14, <2>1, <2>2 DEF AskSave, TypeOK
  <1>15. ASSUME NEW s \in Savers, CheckTeam(s)
         PROVE  TypeOK'
    <2>1. spc' \in [Savers -> SaverPcs] /\ UNCHANGED upc
      BY <1>15, PcTypes DEF CheckTeam, SaverPcs
    <2>2. /\ want' \in [Savers -> Selections]
          /\ stored' \in Selections \union {Absent}
      BY <1>15 DEF CheckTeam, MigrateLegacy, TypeOK
    <2>3. QED
      BY <1>15, <2>1, <2>2 DEF CheckTeam, TypeOK
  <1>16. ASSUME NEW s \in Savers, StoreTeam(s)
         PROVE  TypeOK'
    <2>1. spc' \in [Savers -> SaverPcs] /\ UNCHANGED upc
      BY <1>16, PcTypes DEF StoreTeam, SaverPcs
    <2>2. /\ want' \in [Savers -> Selections]
          /\ prev' \in [Savers -> Selections]
          /\ stored' \in Selections \union {Absent}
      BY <1>16, InForceType DEF StoreTeam, TypeOK
    <2>3. /\ refused' \subseteq Savers
          /\ settingsMu' \in Savers \union {NoOne}
      BY <1>16 DEF StoreTeam, TypeOK
    <2>4. QED
      BY <1>16, <2>1, <2>2, <2>3 DEF StoreTeam, TypeOK
  <1>17. ASSUME NEW s \in Savers, BumpRevision(s)
         PROVE  TypeOK'
    <2>1. spc' \in [Savers -> SaverPcs] /\ UNCHANGED upc
      BY <1>17, PcTypes DEF BumpRevision, SaverPcs
    <2>2. /\ want' \in [Savers -> Selections]
          /\ prev' \in [Savers -> Selections]
      BY <1>17 DEF BumpRevision, TypeOK
    <2>3. seen' \in [Readers -> SUBSET Selections]
      BY <1>17, InForceType DEF BumpRevision, TypeOK
    <2>4. overtaken' \subseteq Pollers
      BY <1>17 DEF BumpRevision, Rebuilding
    <2>5. QED
      BY <1>17, <2>1, <2>2, <2>3, <2>4 DEF BumpRevision, TypeOK
  <1>18. ASSUME NEW s \in Savers, RespondSave(s)
         PROVE  TypeOK'
    <2>1. spc' \in [Savers -> SaverPcs] /\ UNCHANGED upc
      BY <1>18, PcTypes DEF RespondSave, SaverPcs
    <2>2. /\ pc' \in [Pollers -> PollerPcs]
          /\ ttl' \subseteq Pollers
      BY <1>18 DEF RespondSave, TypeOK, PollerPcs
    <2>3. QED
      BY <1>18, <2>1, <2>2 DEF RespondSave, TypeOK
  <1>19. ASSUME NEW u \in Updaters, AskUpdate(u) \/ UpdateCli(u)
         PROVE  TypeOK'
    <2>1. upc' \in [Updaters -> UpdaterPcs] /\ UNCHANGED <<pc, spc>>
      BY <1>19, PcTypes DEF AskUpdate, UpdateCli, UpdaterPcs
    <2>2. pollMu' \in Pollers \union Updaters \union {NoOne}
      BY <1>19 DEF AskUpdate, UpdateCli, TypeOK
    <2>3. cli' \in 0..MaxCli
      BY <1>19, ConstantsAssumption DEF AskUpdate, UpdateCli, TypeOK
    <2>4. QED
      BY <1>19, <2>1, <2>2, <2>3 DEF AskUpdate, UpdateCli, TypeOK
  <1>20. ASSUME NEW u \in Updaters, ExpireSnapshot(u) \/ RespondUpdate(u)
         PROVE  TypeOK'
    <2>1. upc' \in [Updaters -> UpdaterPcs] /\ UNCHANGED <<pc, spc>>
      BY <1>20, PcTypes DEF ExpireSnapshot, RespondUpdate, UpdaterPcs
    <2>2. QED
      BY <1>20, <2>1 DEF ExpireSnapshot, RespondUpdate, TypeOK
  <1>21. CASE UNCHANGED vars
    BY <1>21 DEF vars, TypeOK
  <1>22. CASE ListTeams
    <2>1. stored' \in Selections \union {Absent}
      BY <1>22 DEF ListTeams, MigrateLegacy, TypeOK
    <2>2. QED
      BY <1>22, <2>1 DEF ListTeams, TypeOK
  <1>23. QED
    BY <1>1, <1>2, <1>3, <1>4, <1>5, <1>6, <1>7, <1>8, <1>9, <1>10, <1>11,
       <1>12, <1>13, <1>14, <1>15, <1>16, <1>17, <1>18, <1>19, <1>20, <1>21, <1>22
       DEF Next, Poll, Rebuild, Save, Update

\* TypeOK: every variable of the plugin keeps its type, whatever the order of
\* polls, reads, saves, updates and restarts.
THEOREM TypeCorrect == Spec => []TypeOK
  BY InitType, NextType, PTL DEF Spec

-----------------------------------------------------------------------------
(***************************************************************************)
(* The two mutexes.                                                        *)
(***************************************************************************)
LEMMA InitMutex == Init => OneRebuild /\ OneSaver
  BY ConstantsAssumption
     DEF Init, Fresh, Started, OneRebuild, OneSaver, InPoll, Pollers

LEMMA NextMutex ==
  TypeOK /\ OneRebuild /\ OneSaver /\ [Next]_vars => OneRebuild' /\ OneSaver'
  <1> SUFFICES ASSUME TypeOK, OneRebuild, OneSaver, [Next]_vars
               PROVE  OneRebuild' /\ OneSaver'
    OBVIOUS
  <1> USE Actors, ConstantsAssumption
      DEF OneRebuild, OneSaver, InPoll, TypeOK, Go, SaverGo, UpdaterGo,
          locks, pcs
  <1>1. CASE Tick
    BY <1>1 DEF Tick
  <1>2. CASE Age
    BY <1>2 DEF Age
  <1>3. CASE Restart
    BY <1>3 DEF Restart, Fresh, Started, Pollers
  <1>4. ASSUME NEW r \in Readers, Ask(r) \/ Peek(r) \/ Done(r)
        PROVE  OneRebuild' /\ OneSaver'
    BY <1>4 DEF Ask, Peek, Done
  <1>5. ASSUME NEW t \in Pollers, LockPoll(t)
        PROVE  OneRebuild' /\ OneSaver'
    BY <1>5 DEF LockPoll
  <1>6. ASSUME NEW t \in Pollers, Expire(t) \/ BeginRebuild(t)
        PROVE  OneRebuild' /\ OneSaver'
    BY <1>6 DEF Expire, BeginRebuild
  <1>7. ASSUME NEW t \in Pollers, CursorConfig(t) \/ FetchCursor(t)
        PROVE  OneRebuild' /\ OneSaver'
    BY <1>7 DEF CursorConfig, FetchCursor
  <1>8. ASSUME NEW t \in Pollers, Publish(t)
        PROVE  OneRebuild' /\ OneSaver'
    BY <1>8 DEF Publish
  <1>9. ASSUME NEW t \in Pollers, Return(t)
        PROVE  OneRebuild' /\ OneSaver'
    BY <1>9 DEF Return
  <1>10. ASSUME NEW s \in Savers, NEW sel \in Selections, AskSave(s, sel)
         PROVE  OneRebuild' /\ OneSaver'
    BY <1>10 DEF AskSave
  <1>11. ASSUME NEW s \in Savers, CheckTeam(s)
         PROVE  OneRebuild' /\ OneSaver'
    BY <1>11 DEF CheckTeam
  <1>12. ASSUME NEW s \in Savers, StoreTeam(s)
         PROVE  OneRebuild' /\ OneSaver'
    BY <1>12 DEF StoreTeam
  <1>13. ASSUME NEW s \in Savers, BumpRevision(s)
         PROVE  OneRebuild' /\ OneSaver'
    BY <1>13 DEF BumpRevision
  <1>14. ASSUME NEW s \in Savers, RespondSave(s)
         PROVE  OneRebuild' /\ OneSaver'
    BY <1>14 DEF RespondSave
  <1>15. ASSUME NEW u \in Updaters, Update(u)
         PROVE  OneRebuild' /\ OneSaver'
    BY <1>15 DEF Update, AskUpdate, UpdateCli, ExpireSnapshot, RespondUpdate
  <1>16. CASE UNCHANGED vars
    BY <1>16 DEF vars
  <1>17. CASE ListTeams
    BY <1>17 DEF ListTeams
  <1>18. QED
    BY <1>1, <1>2, <1>3, <1>4, <1>5, <1>6, <1>7, <1>8, <1>9, <1>10, <1>11,
       <1>12, <1>13, <1>14, <1>15, <1>16, <1>17
       DEF Next, Poll, Rebuild, Save

\* OneRebuild and OneSaver: pollMu and cursorSettingsMu each have at most one
\* owner, and the owner is the thread that is inside.
THEOREM Mutexes == Spec => [](OneRebuild /\ OneSaver)
  BY InitType, NextType, InitMutex, NextMutex, PTL DEF Spec

-----------------------------------------------------------------------------
(***************************************************************************)
(* The scope of Cursor usage, where SetState fails only without effect.    *)
(***************************************************************************)
LEMMA InitScope == Init => ScopeInv
  BY Actors, ReportTypes, ConstantsAssumption
     DEF Init, Fresh, Started, ScopeInv, ShownInForce, AnswerScope,
         RebuildScope, RequestScope, Waiting

\* The selection in force only changes when a saver moves the revision, and
\* with a restart between the host's SetState and that step.
SaveBeforeBump(s) ==
    \/ \E sel \in Selections : AskSave(s, sel)
    \/ CheckTeam(s) \/ StoreTeam(s) \/ RespondSave(s)

KeepsInForce ==
    \/ Tick \/ Age \/ ListTeams \/ UNCHANGED vars
    \/ \E r \in Readers : Ask(r) \/ Peek(r) \/ Done(r)
    \/ \E t \in Pollers : Poll(t)
    \/ \E s \in Savers : SaveBeforeBump(s)
    \/ \E u \in Updaters : Update(u)

LEMMA InForceKept ==
  ASSUME TypeOK, ~LostReply, KeepsInForce
  PROVE  InForce' = InForce
  <1> USE DEF disk, locks, InForce, Selected
  <1>1. CASE Tick \/ Age \/ ListTeams \/ UNCHANGED vars
    BY <1>1, ConstantsAssumption
       DEF Tick, Age, ListTeams, MigrateLegacy, TypeOK, vars
  <1>2. CASE \E r \in Readers : Ask(r) \/ Peek(r) \/ Done(r)
    BY <1>2 DEF Ask, Peek, Done
  <1>3. ASSUME NEW t \in Pollers, Poll(t)
        PROVE  InForce' = InForce
    <2>1. CASE CursorConfig(t)
      BY <2>1, ConstantsAssumption DEF CursorConfig, MigrateLegacy, TypeOK
    <2>2. CASE LockPoll(t) \/ Expire(t) \/ BeginRebuild(t) \/ FetchCursor(t)
      BY <2>2 DEF LockPoll, Expire, BeginRebuild, FetchCursor
    <2>3. CASE Publish(t) \/ Return(t)
      BY <2>3 DEF Publish, Return
    <2>4. QED
      BY <1>3, <2>1, <2>2, <2>3 DEF Poll, Rebuild
  <1>4. ASSUME NEW s \in Savers, SaveBeforeBump(s)
        PROVE  InForce' = InForce
    <2>1. CASE \E sel \in Selections : AskSave(s, sel)
      BY <2>1 DEF AskSave
    <2>2. CASE CheckTeam(s)
      BY <2>2, ConstantsAssumption DEF CheckTeam, MigrateLegacy, TypeOK
    <2>3. CASE StoreTeam(s)
      BY <2>3, ConstantsAssumption DEF StoreTeam, TypeOK
    <2>4. CASE RespondSave(s)
      BY <2>4 DEF RespondSave
    <2>5. QED
      BY <1>4, <2>1, <2>2, <2>3, <2>4 DEF SaveBeforeBump
  <1>5. CASE \E u \in Updaters : Update(u)
    BY <1>5 DEF Update, AskUpdate, UpdateCli, ExpireSnapshot, RespondUpdate
  <1>6. QED
    BY <1>1, <1>2, <1>3, <1>4, <1>5 DEF KeepsInForce

LEMMA NextScope ==
  ASSUME ~LostReply, ~MixedConfig,
         TypeOK, OneRebuild, OneSaver, ScopeInv, [Next]_vars
  PROVE  ScopeInv'
  <1> USE Actors DEF disk, memory, locks, pcs, rebuild, history
  <1>1. CASE Tick
    <2>1. InForce' = InForce
      BY <1>1, InForceKept DEF KeepsInForce
    <2>2. QED
      BY <1>1, <2>1, ConstantsAssumption
         DEF Tick, Go, TypeOK, ScopeInv, ShownInForce, AnswerScope,
             RebuildScope, RequestScope, Waiting
  <1>2. CASE Age
    <2>1. InForce' = InForce
      BY <1>2, InForceKept DEF KeepsInForce
    <2>2. QED
      BY <1>2, <2>1
         DEF Age, ScopeInv, ShownInForce, AnswerScope, RebuildScope,
             RequestScope, Waiting
  <1>3. CASE Restart
    <2>1. ShownInForce' /\ AnswerScope'
      BY <1>3 DEF Restart, Fresh, ShownInForce, AnswerScope
    <2>2. \A x \in Pollers : pc'[x] \in {"idle", "wait"}
      BY <1>3 DEF Restart, Started
    <2>3. \A x \in Pollers : RebuildScope(x)'
      BY <2>2 DEF RebuildScope
    <2>4. \A r \in Readers : pc'[r] = "idle"
      BY <1>3, ConstantsAssumption DEF Restart, Started, Pollers
    <2>5. \A r \in Readers : RequestScope(r)'
      BY <1>3, <2>4 DEF Restart, Fresh, RequestScope, Waiting
    <2>6. QED
      BY <2>1, <2>3, <2>5 DEF ScopeInv
  <1>4. ASSUME NEW r \in Readers, Ask(r)
        PROVE  ScopeInv'
    <2>1. InForce' = InForce
      BY <1>4, InForceKept DEF KeepsInForce
    <2>2. QED
      BY <1>4, <2>1
         DEF Ask, Go, TypeOK, ScopeInv, ShownInForce, AnswerScope,
             RebuildScope, RequestScope, Waiting
  <1>5. ASSUME NEW r \in Readers, Peek(r)
        PROVE  ScopeInv'
    <2>1. InForce' = InForce
      BY <1>5, InForceKept DEF KeepsInForce
    <2>2. QED
      BY <1>5, <2>1
         DEF Peek, Go, TypeOK, ScopeInv, ShownInForce, AnswerScope,
             RebuildScope, RequestScope, Waiting
  <1>6. ASSUME NEW r \in Readers, Done(r)
        PROVE  ScopeInv'
    <2>1. InForce' = InForce
      BY <1>6, InForceKept DEF KeepsInForce
    <2>2. QED
      BY <1>6, <2>1
         DEF Done, Go, TypeOK, ScopeInv, ShownInForce, AnswerScope,
             RebuildScope, RequestScope, Waiting
  <1>7. ASSUME NEW t \in Pollers, LockPoll(t)
        PROVE  ScopeInv'
    <2>1. InForce' = InForce
      BY <1>7, InForceKept DEF KeepsInForce, Poll
    <2>2. QED
      BY <1>7, <2>1
         DEF LockPoll, Go, TypeOK, ScopeInv, ShownInForce, AnswerScope,
             RebuildScope, RequestScope, Waiting
  <1>8. ASSUME NEW t \in Pollers, Expire(t)
        PROVE  ScopeInv'
    <2>1. InForce' = InForce
      BY <1>8, InForceKept DEF KeepsInForce, Poll
    <2>2. QED
      BY <1>8, <2>1
         DEF Expire, ScopeInv, ShownInForce, AnswerScope, RebuildScope,
             RequestScope, Waiting
  <1>9. ASSUME NEW t \in Pollers, BeginRebuild(t)
        PROVE  ScopeInv'
    <2>1. InForce' = InForce
      BY <1>9, InForceKept DEF KeepsInForce, Poll, Rebuild
    <2>2. Report(NoUsage, cli).usage = NoUsage
      BY ReportTypes DEF TypeOK
    <2>3. \A x \in Pollers : RebuildScope(x)'
      BY <1>9, <2>1, <2>2
         DEF BeginRebuild, Go, TypeOK, ScopeInv, RebuildScope
    <2>4. QED
      BY <1>9, <2>1, <2>3
         DEF BeginRebuild, Go, TypeOK, ScopeInv, ShownInForce, AnswerScope,
             RequestScope, Waiting
  <1>10. ASSUME NEW t \in Pollers, CursorConfig(t)
         PROVE  ScopeInv'
    <2>1. InForce' = InForce /\ Selected = InForce
      BY <1>10, ConstantsAssumption
         DEF CursorConfig, MigrateLegacy, InForce, Selected, TypeOK
    <2>2. \A x \in Pollers : RebuildScope(x)'
      BY <1>10, <2>1 DEF CursorConfig, Go, TypeOK, ScopeInv, RebuildScope
    <2>3. QED
      BY <1>10, <2>1, <2>2
         DEF CursorConfig, Go, TypeOK, ScopeInv, ShownInForce, AnswerScope,
             RequestScope, Waiting
  <1>11. ASSUME NEW t \in Pollers, FetchCursor(t)
         PROVE  ScopeInv'
    <2>1. InForce' = InForce
      BY <1>11, InForceKept DEF KeepsInForce, Poll, Rebuild
    <2>2. Report(scope[t], rep[t].cli).usage = scope[t]
      BY ReportTypes DEF TypeOK
    <2>3. \A x \in Pollers : RebuildScope(x)'
      BY <1>11, <2>1, <2>2
         DEF FetchCursor, Go, TypeOK, ScopeInv, RebuildScope
    <2>4. QED
      BY <1>11, <2>1, <2>3
         DEF FetchCursor, Go, TypeOK, ScopeInv, ShownInForce,
             AnswerScope,
             RequestScope, Waiting
  <1>12. ASSUME NEW t \in Pollers, Publish(t)
         PROVE  ScopeInv'
    <2>1. InForce' = InForce
      BY <1>12, InForceKept DEF KeepsInForce, Poll, Rebuild
    <2>2. t \notin overtaken => Merged(t).usage \in {InForce, NoUsage}
      BY <1>12, ReportTypes
         DEF Publish, Go, Merged, TypeOK, ScopeInv, ShownInForce, RebuildScope
    <2>3. Report(NoUsage, rep[t].cli).usage = NoUsage
      BY ReportTypes DEF TypeOK
    <2>4. ShownInForce'
      BY <1>12, <2>1, <2>2
         DEF Publish, ScopeInv, ShownInForce
    <2>5. \A x \in Pollers : RebuildScope(x)'
      BY <1>12, <2>1
         DEF Publish, Go, TypeOK, ScopeInv, RebuildScope
    <2>6. \A r \in Readers : RequestScope(r)'
      BY <1>12, <2>1, <2>2, <2>3
         DEF Publish, GivenUp, Go, TypeOK, ScopeInv, RequestScope,
             Waiting
    <2>7. QED
      BY <1>12, <2>4, <2>5, <2>6
         DEF Publish, ScopeInv, AnswerScope
  <1>13. ASSUME NEW t \in Pollers, Return(t)
         PROVE  ScopeInv'
    <2>1. InForce' = InForce
      BY <1>13, InForceKept DEF KeepsInForce, Poll, Rebuild
    <2>2. \A x \in Pollers : RebuildScope(x)'
      BY <1>13, <2>1 DEF Return, Go, TypeOK, ScopeInv, RebuildScope
    <2>3. \A r \in Readers : RequestScope(r)'
      <3>1. rep[t] # NoSnapshot
        BY ReportTypes DEF TypeOK
      <3>2. QED
        BY <1>13, <2>1, <3>1
           DEF Return, Go, TypeOK, ScopeInv, RequestScope, Waiting
    <2>4. AnswerScope'
      BY <1>13 DEF Return, Go, TypeOK, ScopeInv, RequestScope, AnswerScope
    <2>5. QED
      BY <1>13, <2>1, <2>2, <2>3, <2>4 DEF Return, ScopeInv, ShownInForce
  <1>14. ASSUME NEW s \in Savers, NEW sel \in Selections, AskSave(s, sel)
         PROVE  ScopeInv'
    <2>1. InForce' = InForce
      BY <1>14, InForceKept DEF KeepsInForce, SaveBeforeBump
    <2>2. QED
      BY <1>14, <2>1
         DEF AskSave, ScopeInv, ShownInForce, AnswerScope, RebuildScope,
             RequestScope, Waiting
  <1>15. ASSUME NEW s \in Savers, CheckTeam(s)
         PROVE  ScopeInv'
    <2>1. InForce' = InForce
      BY <1>15, InForceKept DEF KeepsInForce, SaveBeforeBump
    <2>2. QED
      BY <1>15, <2>1
         DEF CheckTeam, ScopeInv, ShownInForce, AnswerScope, RebuildScope,
             RequestScope, Waiting
  <1>16. ASSUME NEW s \in Savers, StoreTeam(s)
         PROVE  ScopeInv'
    <2>1. InForce' = InForce
      BY <1>16, InForceKept DEF KeepsInForce, SaveBeforeBump
    <2>2. QED
      BY <1>16, <2>1
         DEF StoreTeam, ScopeInv, ShownInForce, AnswerScope, RebuildScope,
             RequestScope, Waiting
  <1>17. ASSUME NEW s \in Savers, BumpRevision(s)
         PROVE  ScopeInv'
    <2>1. InForce' = Selected
      BY <1>17, ConstantsAssumption DEF BumpRevision, InForce, Selected
    <2>2. \A x \in Pollers : RebuildScope(x)'
      BY <1>17 DEF BumpRevision, SaverGo, Rebuilding, ScopeInv, RebuildScope
    <2>3. \A r \in Readers : seen[r] \subseteq seen'[r]
                             /\ (Waiting(r) => Selected \in seen'[r])
      BY <1>17 DEF BumpRevision, TypeOK
    <2>4. QED
      BY <1>17, <2>1, <2>2, <2>3
         DEF BumpRevision, ScopeInv, ShownInForce, AnswerScope, RequestScope,
             Waiting
  <1>18. ASSUME NEW s \in Savers, RespondSave(s)
         PROVE  ScopeInv'
    <2>1. InForce' = InForce
      BY <1>18, InForceKept DEF KeepsInForce, SaveBeforeBump
    <2>2. QED
      BY <1>18, <2>1, ConstantsAssumption
         DEF RespondSave, TypeOK, ScopeInv, ShownInForce, AnswerScope,
             RebuildScope, RequestScope, Waiting
  <1>19. ASSUME NEW u \in Updaters, Update(u)
         PROVE  ScopeInv'
    <2>1. InForce' = InForce
      BY <1>19, InForceKept DEF KeepsInForce
    <2>2. QED
      BY <1>19, <2>1
         DEF Update, AskUpdate, UpdateCli, ExpireSnapshot, RespondUpdate,
             UpdaterGo, ScopeInv, ShownInForce, AnswerScope, RebuildScope,
             RequestScope, Waiting
  <1>20. CASE UNCHANGED vars
    <2>1. InForce' = InForce
      BY <1>20, InForceKept DEF KeepsInForce
    <2>2. QED
      BY <1>20, <2>1
         DEF vars, ScopeInv, ShownInForce, AnswerScope, RebuildScope,
             RequestScope, Waiting
  <1>21. CASE ListTeams
    <2>1. InForce' = InForce
      BY <1>21, InForceKept DEF KeepsInForce
    <2>2. QED
      BY <1>21, <2>1
         DEF ListTeams, ScopeInv, ShownInForce, AnswerScope, RebuildScope,
             RequestScope, Waiting
  <1>22. QED
    BY <1>1, <1>2, <1>3, <1>4, <1>5, <1>6, <1>7, <1>8, <1>9, <1>10, <1>11,
       <1>12, <1>13, <1>14, <1>15, <1>16, <1>17, <1>18, <1>19, <1>20, <1>21
       DEF Next, Poll, Rebuild, Save

\* ShownInForce: no interleaving of rebuilds, retained values, saves, updates
\* and restarts ever publishes Cursor usage of a team that is not in force.
THEOREM ShownScopeSafe ==
  ASSUME ~LostReply, ~MixedConfig
  PROVE  Spec => []ShownInForce
  <1>1. ScopeInv => ShownInForce
    BY DEF ScopeInv
  <1>2. TypeOK /\ OneRebuild /\ OneSaver /\ ScopeInv /\ [Next]_vars => ScopeInv'
    BY NextScope
  <1>3. QED
    BY <1>1, <1>2, InitScope, TypeCorrect, Mutexes, PTL DEF Spec

\* AnswerScope: a request is answered with usage of a team that was in force
\* during the request, or with none.
THEOREM AnswerScopeSafe ==
  ASSUME ~LostReply, ~MixedConfig
  PROVE  Spec => []AnswerScope
  <1>1. ScopeInv => AnswerScope
    BY DEF ScopeInv
  <1>2. TypeOK /\ OneRebuild /\ OneSaver /\ ScopeInv /\ [Next]_vars => ScopeInv'
    BY NextScope
  <1>3. QED
    BY <1>1, <1>2, InitScope, TypeCorrect, Mutexes, PTL DEF Spec

\* HandedOutInForce: what leaves a rebuild belongs to the team in force then,
\* the unpublished report of a rebuild that gave up included.
LEMMA StepHandsOut ==
  ASSUME TypeOK, ScopeInv, [Next]_vars, NEW t \in Pollers,
         pc[t] = "merge", pc'[t] = "return"
  PROVE  Publish(t)
  <1> USE DEF disk, memory, locks, pcs, rebuild, history
  <1>1. CASE Tick \/ Age \/ ListTeams \/ Restart \/ UNCHANGED vars
    BY <1>1 DEF Tick, Age, ListTeams, Restart, Started, Go, TypeOK, vars
  <1>2. CASE \E r \in Readers : Ask(r) \/ Peek(r) \/ Done(r)
    BY <1>2, Actors DEF Ask, Peek, Done, Go, TypeOK
  <1>3. ASSUME NEW x \in Pollers, Poll(x), ~Publish(t)
        PROVE  FALSE
    <2>1. pc'[t] = "return" => x = t
      BY <1>3
         DEF Poll, Rebuild, LockPoll, Expire, BeginRebuild, CursorConfig,
             FetchCursor, Publish, Return, Go, TypeOK
    <2>2. QED
      BY <1>3, <2>1
         DEF Poll, Rebuild, LockPoll, Expire, BeginRebuild, CursorConfig,
             FetchCursor, Return, Go, TypeOK
  <1>4. CASE \E s \in Savers : Save(s)
    BY <1>4, Actors
       DEF Save, AskSave, CheckTeam, StoreTeam, BumpRevision, RespondSave,
           TypeOK
  <1>5. CASE \E u \in Updaters : Update(u)
    BY <1>5
       DEF Update, AskUpdate, UpdateCli, ExpireSnapshot, RespondUpdate,
           UpdaterGo
  <1>6. QED
    BY <1>1, <1>2, <1>3, <1>4, <1>5 DEF Next

THEOREM HandedOutScopeSafe ==
  ASSUME ~LostReply, ~MixedConfig
  PROVE  Spec => HandedOutInForce
  <1>1. ASSUME TypeOK, ScopeInv, [Next]_vars, NEW t \in Pollers,
               pc[t] = "merge", pc'[t] = "return"
        PROVE  rep'[t].usage \in {InForce, NoUsage}
    <2>1. Publish(t)
      BY <1>1, StepHandsOut
    <2>2. t \notin overtaken => Merged(t).usage \in {InForce, NoUsage}
      BY <1>1, ReportTypes
         DEF Merged, TypeOK, ScopeInv, ShownInForce, RebuildScope
    <2>3. GivenUp(t).usage = NoUsage
      BY <1>1, ReportTypes DEF GivenUp, TypeOK
    <2>4. QED
      BY <1>1, <2>1, <2>2, <2>3 DEF Publish, Go, TypeOK
  <1>2. TypeOK /\ ScopeInv /\ [Next]_vars =>
          [\A t \in Pollers : pc[t] = "merge" /\ pc'[t] = "return"
             => rep'[t].usage \in {InForce, NoUsage}]_vars
    BY <1>1
  <1>3. TypeOK /\ OneRebuild /\ OneSaver /\ ScopeInv /\ [Next]_vars => ScopeInv'
    BY NextScope
  <1>4. QED
    BY <1>2, <1>3, InitScope, TypeCorrect, Mutexes, PTL
       DEF Spec, HandedOutInForce

-----------------------------------------------------------------------------
(***************************************************************************)
(* Refinement: the plugin implements the register of TeamUsage.            *)
(***************************************************************************)
LEMMA InitRefines == Init => Scoped!Init
  BY InitType, InForceType
     DEF Init, Fresh, Scoped!Init, shownScope, answerScope

\* A step that keeps the selection, the snapshot and the requests stutters.
LEMMA Stutters ==
  ASSUME InForce' = InForce, UNCHANGED <<snap, seen, answer>>
  PROVE  UNCHANGED Scoped!vars
  BY DEF Scoped!vars, shownScope, answerScope

\* Answering a waiting request is Answer of the register.
LEMMA AnswerRefines ==
  ASSUME TypeOK, ScopeInv, NEW r \in Readers, NEW x \in Reports,
         Waiting(r), x.usage \in seen[r] \union {NoUsage},
         answer' = [answer EXCEPT ![r] = x],
         InForce' = InForce, UNCHANGED <<snap, seen>>
  PROVE  Scoped!Answer(r)
  <1>1. answer[r] = NoSnapshot /\ seen[r] # {}
    BY DEF ScopeInv, RequestScope, Waiting
  <1>2. Scoped!Waiting(r)
    BY <1>1 DEF Scoped!Waiting, answerScope
  <1>3. answerScope' = [answerScope EXCEPT ![r] = x.usage]
    BY ReportTypes DEF answerScope, TypeOK
  <1>4. QED
    BY <1>2, <1>3 DEF Scoped!Answer, shownScope

LEMMA NextRefines ==
  ASSUME ~LostReply, ~MixedConfig,
         TypeOK, OneRebuild, OneSaver, ScopeInv, ScopeInv', [Next]_vars
  PROVE  [Scoped!Next]_(Scoped!vars)
  <1> USE Actors DEF disk, memory, locks, pcs, rebuild, history, Scoped!Next
  <1>1. CASE Tick \/ Age \/ ListTeams \/ UNCHANGED vars
    <2>1. InForce' = InForce
      BY <1>1, InForceKept DEF KeepsInForce
    <2>2. QED
      BY <1>1, <2>1, Stutters DEF Tick, Age, ListTeams, vars
  <1>2. CASE Restart
    <2>1. InForce' \in Selections
      BY <1>2, InForceType DEF Restart, InForce, Selected
    <2>2. Scoped!Restart(InForce')
      BY <1>2
         DEF Restart, Fresh, Scoped!Restart, shownScope, answerScope
    <2>3. QED
      BY <2>1, <2>2
  <1>3. ASSUME NEW r \in Readers, Ask(r)
        PROVE  Scoped!Next
    <2>1. InForce' = InForce
      BY <1>3, InForceKept DEF KeepsInForce
    <2>2. seen[r] = {}
      BY <1>3 DEF Ask, Go, ScopeInv, RequestScope
    <2>3. Scoped!Ask(r)
      BY <1>3, <2>1, <2>2 DEF Ask, Scoped!Ask, shownScope, answerScope
    <2>4. QED
      BY <2>3
  <1>4. ASSUME NEW r \in Readers, Peek(r)
        PROVE  [Scoped!Next]_(Scoped!vars)
    <2>1. InForce' = InForce
      BY <1>4, InForceKept DEF KeepsInForce
    <2>2. CASE UNCHANGED answer
      BY <1>4, <2>1, <2>2, Stutters DEF Peek
    <2>3. CASE snap # NoSnapshot /\ answer' = [answer EXCEPT ![r] = snap]
      <3>1. snap \in Reports
        BY <2>3 DEF TypeOK
      <3>2. Waiting(r) /\ snap.usage \in seen[r] \union {NoUsage}
        BY <1>4, <2>3
           DEF Peek, Go, Waiting, ScopeInv, ShownInForce, RequestScope
      <3>3. Scoped!Answer(r)
        BY <1>4, <2>1, <2>3, <3>1, <3>2, AnswerRefines DEF Peek
      <3>4. QED
        BY <3>3
    <2>4. QED
      BY <1>4, <2>2, <2>3 DEF Peek
  <1>5. ASSUME NEW r \in Readers, Done(r)
        PROVE  Scoped!Next
    <2>1. InForce' = InForce
      BY <1>5, InForceKept DEF KeepsInForce
    <2>2. answer[r] # NoSnapshot /\ answer[r] \in Reports
      BY <1>5 DEF Done, Go, ScopeInv, RequestScope, TypeOK
    <2>3. answerScope[r] # NoAnswer
      BY <2>2, ReportTypes, ConstantsAssumption DEF answerScope
    <2>4. answerScope' = [answerScope EXCEPT ![r] = NoAnswer]
      BY <1>5 DEF Done, answerScope, TypeOK
    <2>5. Scoped!Done(r)
      BY <1>5, <2>1, <2>3, <2>4 DEF Done, Scoped!Done, shownScope
    <2>6. QED
      BY <2>5
  <1>6. ASSUME NEW t \in Pollers,
               LockPoll(t) \/ Expire(t) \/ BeginRebuild(t) \/ CursorConfig(t)
               \/ FetchCursor(t)
        PROVE  UNCHANGED Scoped!vars
    <2>1. InForce' = InForce
      BY <1>6, InForceKept DEF KeepsInForce, Poll, Rebuild
    <2>2. QED
      BY <1>6, <2>1, Stutters
         DEF LockPoll, Expire, BeginRebuild, CursorConfig, FetchCursor
  <1>7. ASSUME NEW t \in Pollers, Publish(t)
        PROVE  [Scoped!Next]_(Scoped!vars)
    <2>1. InForce' = InForce
      BY <1>7, InForceKept DEF KeepsInForce, Poll, Rebuild
    <2>2. shownScope' \in {InForce, NoUsage}
      BY <2>1 DEF ScopeInv, ShownInForce, shownScope
    <2>3. Scoped!Show
      BY <1>7, <2>1, <2>2 DEF Publish, Scoped!Show, answerScope
    <2>4. QED
      BY <2>3
  <1>8. ASSUME NEW t \in Pollers, Return(t)
        PROVE  [Scoped!Next]_(Scoped!vars)
    <2>1. InForce' = InForce
      BY <1>8, InForceKept DEF KeepsInForce, Poll, Rebuild
    <2>2. CASE t \notin Readers
      BY <1>8, <2>1, <2>2, Stutters DEF Return
    <2>3. CASE t \in Readers
      <3>1. rep[t] \in Reports
        BY DEF TypeOK
      <3>2. Waiting(t) /\ rep[t].usage \in seen[t] \union {NoUsage}
        BY <1>8, <2>3 DEF Return, Go, Waiting, ScopeInv, RequestScope
      <3>3. Scoped!Answer(t)
        BY <1>8, <2>1, <2>3, <3>1, <3>2, AnswerRefines DEF Return
      <3>4. QED
        BY <2>3, <3>3
    <2>4. QED
      BY <2>2, <2>3
  <1>9. ASSUME NEW s \in Savers, SaveBeforeBump(s)
        PROVE  UNCHANGED Scoped!vars
    <2>1. InForce' = InForce
      BY <1>9, InForceKept DEF KeepsInForce
    <2>2. QED
      BY <1>9, <2>1, Stutters
         DEF SaveBeforeBump, AskSave, CheckTeam, StoreTeam, RespondSave
  <1>10. ASSUME NEW s \in Savers, BumpRevision(s)
         PROVE  Scoped!Next
    <2>1. InForce' = Selected /\ Selected \in Selections
      BY <1>10, InForceType, ConstantsAssumption
         DEF BumpRevision, InForce, Selected
    <2>2. \A r \in Readers : Waiting(r) <=> Scoped!Waiting(r)
      <3>1. \A r \in Readers : answerScope[r] = NoAnswer
                               <=> answer[r] = NoSnapshot
        BY ReportTypes, ConstantsAssumption DEF answerScope, TypeOK
      <3>2. QED
        BY <3>1 DEF Scoped!Waiting, Waiting, ScopeInv, RequestScope
    <2>3. Scoped!Select(Selected)
      BY <1>10, <2>1, <2>2
         DEF BumpRevision, Scoped!Select, shownScope, answerScope
    <2>4. QED
      BY <2>1, <2>3
  <1>11. ASSUME NEW u \in Updaters, Update(u)
         PROVE  [Scoped!Next]_(Scoped!vars)
    <2>1. InForce' = InForce
      BY <1>11, InForceKept DEF KeepsInForce
    <2>2. shownScope' \in {InForce, NoUsage}
      BY <2>1 DEF ScopeInv, ShownInForce, shownScope
    <2>3. Scoped!Show
      BY <1>11, <2>1, <2>2
         DEF Update, AskUpdate, UpdateCli, ExpireSnapshot, RespondUpdate,
             Scoped!Show, answerScope
    <2>4. QED
      BY <2>3
  <1>12. QED
    BY <1>1, <1>2, <1>3, <1>4, <1>5, <1>6, <1>7, <1>8, <1>9, <1>10, <1>11
       DEF Next, Poll, Rebuild, Save, SaveBeforeBump

\* ImplementsTeamUsage: with a host that applies what it acknowledges and a
\* configuration that does not change under a rebuild, the whole machine is a
\* register that shows, and answers with, usage of the team in force.
THEOREM RefinesTeamUsage ==
  ASSUME ~LostReply, ~MixedConfig
  PROVE  Spec => ImplementsTeamUsage
  <1>1. TypeOK /\ OneRebuild /\ OneSaver /\ ScopeInv /\ [Next]_vars => ScopeInv'
    BY NextScope
  <1>2. TypeOK /\ OneRebuild /\ OneSaver /\ ScopeInv /\ ScopeInv' /\ [Next]_vars
          => [Scoped!Next]_(Scoped!vars)
    BY NextRefines
  <1>3. QED
    BY <1>1, <1>2, InitRefines, InitScope, TypeCorrect, Mutexes, PTL
       DEF Spec, ImplementsTeamUsage, Scoped!Spec

-----------------------------------------------------------------------------
(***************************************************************************)
(* The CLI version that built what a reader is served.                     *)
(***************************************************************************)
LEMMA InitCli == Init => CliInv
  BY Actors, ReportTypes, ConstantsAssumption
     DEF Init, Fresh, Started, CliInv, SnapshotCli, RebuildCli, RequestCli,
         UpdateReachesReaders, Waiting

\* Outside a rebuild and an update, a snapshot is the selected CLI's.
LEMMA SnapshotIsCurrent ==
  ASSUME TypeOK, OneRebuild, SnapshotCli, snap # NoSnapshot,
         \A u \in Updaters : pollMu # u
  PROVE  snap.cli = cli
  BY DEF OneRebuild, SnapshotCli

\* A step that changes neither the CLI, the snapshot nor an acknowledgement
\* keeps SnapshotCli; so does dropping the snapshot.
LEMMA SnapshotCliKept ==
  ASSUME SnapshotCli, UNCHANGED <<cli, acked, upc>>,
         snap' \in {snap, NoSnapshot}
  PROVE  SnapshotCli'
  BY DEF SnapshotCli

LEMMA NextCli ==
  ASSUME TypeOK, OneRebuild, CliInv, [Next]_vars
  PROVE  CliInv'
  <1> USE Actors DEF disk, memory, locks, pcs, rebuild, history
  <1>1. CASE Tick
    <2>1. SnapshotCli'
      BY <1>1, SnapshotCliKept DEF Tick, Go, CliInv
    <2>2. QED
      BY <1>1, <2>1, ConstantsAssumption
         DEF Tick, Go, TypeOK, CliInv, RebuildCli, RequestCli, Waiting,
             UpdateReachesReaders
  <1>2. CASE Age
    <2>1. SnapshotCli'
      BY <1>2, SnapshotCliKept DEF Age, CliInv
    <2>2. QED
      BY <1>2, <2>1
         DEF Age, CliInv, RebuildCli, RequestCli, Waiting,
             UpdateReachesReaders
  <1>3. CASE Restart
    <2>1. SnapshotCli'
      BY <1>3 DEF Restart, Fresh, CliInv, SnapshotCli
    <2>2. \A x \in Pollers : pc'[x] \in {"idle", "wait"}
      BY <1>3 DEF Restart, Started
    <2>3. \A x \in Pollers : RebuildCli(x)'
      BY <2>2 DEF RebuildCli
    <2>4. \A r \in Readers : pc'[r] = "idle"
      BY <1>3, ConstantsAssumption DEF Restart, Started, Pollers
    <2>5. \A r \in Readers : RequestCli(r)' /\ answer'[r] = NoSnapshot
      BY <1>3, <2>4 DEF Restart, Fresh, RequestCli, Waiting
    <2>6. QED
      BY <2>1, <2>3, <2>5 DEF CliInv, UpdateReachesReaders
  <1>4. ASSUME NEW r \in Readers, Ask(r)
        PROVE  CliInv'
    <2>1. SnapshotCli'
      BY <1>4, SnapshotCliKept DEF Ask, Go, CliInv
    <2>2. QED
      BY <1>4, <2>1
         DEF Ask, Go, TypeOK, CliInv, RebuildCli, RequestCli, Waiting,
             UpdateReachesReaders
  <1>5. ASSUME NEW r \in Readers, Peek(r)
        PROVE  CliInv'
    <2>1. SnapshotCli'
      BY <1>5, SnapshotCliKept DEF Peek, Go, CliInv
    <2>2. snap # NoSnapshot => snap.cli >= floor[r]
      <3>1. snap # NoSnapshot => snap.cli \in Nat
        BY ReportTypes DEF TypeOK
      <3>2. floor[r] \in Nat /\ acked \in Nat
        BY ConstantsAssumption DEF TypeOK
      <3>3. floor[r] <= acked /\ (snap # NoSnapshot => snap.cli >= acked)
        BY <1>5 DEF Peek, Go, CliInv, SnapshotCli, RequestCli, Waiting
      <3>4. QED
        BY <3>1, <3>2, <3>3
    <2>3. UpdateReachesReaders'
      BY <1>5, <2>2 DEF Peek, TypeOK, CliInv, UpdateReachesReaders
    <2>4. QED
      BY <1>5, <2>1, <2>3
         DEF Peek, Go, TypeOK, CliInv, RebuildCli, RequestCli, Waiting
  <1>6. ASSUME NEW r \in Readers, Done(r)
        PROVE  CliInv'
    <2>1. SnapshotCli'
      BY <1>6, SnapshotCliKept DEF Done, Go, CliInv
    <2>2. QED
      BY <1>6, <2>1
         DEF Done, Go, TypeOK, CliInv, RebuildCli, RequestCli, Waiting,
             UpdateReachesReaders
  <1>7. ASSUME NEW t \in Pollers, LockPoll(t)
        PROVE  CliInv'
    <2>1. SnapshotCli'
      BY <1>7, SnapshotCliKept DEF LockPoll, Go, CliInv
    <2>2. snap # NoSnapshot => snap.cli = cli
      BY <1>7, SnapshotIsCurrent, ConstantsAssumption DEF LockPoll, CliInv
    <2>3. \A x \in Pollers : RebuildCli(x)'
      BY <1>7, <2>2 DEF LockPoll, Go, TypeOK, CliInv, RebuildCli
    <2>4. QED
      BY <1>7, <2>1, <2>3
         DEF LockPoll, Go, TypeOK, CliInv, RequestCli, Waiting,
             UpdateReachesReaders
  <1>8. ASSUME NEW t \in Pollers, Expire(t)
        PROVE  CliInv'
    <2>1. SnapshotCli'
      BY <1>8, SnapshotCliKept DEF Expire, CliInv
    <2>2. QED
      BY <1>8, <2>1
         DEF Expire, CliInv, RebuildCli, RequestCli, Waiting,
             UpdateReachesReaders
  <1>9. ASSUME NEW t \in Pollers, BeginRebuild(t)
        PROVE  CliInv'
    <2>1. SnapshotCli'
      BY <1>9, SnapshotCliKept DEF BeginRebuild, Go, CliInv
    <2>2. Report(NoUsage, cli).cli = cli /\ Report(Personal, cli).cli = cli
      BY ReportTypes, Personal \in Selections DEF TypeOK, Selections
    <2>3. rep'[t].cli = cli
      BY <1>9, <2>2 DEF BeginRebuild, TypeOK
    <2>4. \A x \in Pollers : RebuildCli(x)'
      BY <1>9, <2>3 DEF BeginRebuild, Go, TypeOK, CliInv, RebuildCli
    <2>5. QED
      BY <1>9, <2>1, <2>4
         DEF BeginRebuild, Go, TypeOK, CliInv, RequestCli, Waiting,
             UpdateReachesReaders
  <1>10. ASSUME NEW t \in Pollers, CursorConfig(t)
         PROVE  CliInv'
    <2>1. SnapshotCli'
      BY <1>10, SnapshotCliKept DEF CursorConfig, Go, CliInv
    <2>2. QED
      BY <1>10, <2>1
         DEF CursorConfig, Go, TypeOK, CliInv, RebuildCli, RequestCli,
             Waiting, UpdateReachesReaders
  <1>11. ASSUME NEW t \in Pollers, FetchCursor(t)
         PROVE  CliInv'
    <2>1. SnapshotCli'
      BY <1>11, SnapshotCliKept DEF FetchCursor, Go, CliInv
    <2>2. Report(scope[t], rep[t].cli).cli = rep[t].cli
      BY ReportTypes DEF TypeOK
    <2>3. \A x \in Pollers : RebuildCli(x)'
      BY <1>11, <2>2 DEF FetchCursor, Go, TypeOK, CliInv, RebuildCli
    <2>4. QED
      BY <1>11, <2>1, <2>3
         DEF FetchCursor, Go, TypeOK, CliInv, RequestCli, Waiting,
             UpdateReachesReaders
  <1>12. ASSUME NEW t \in Pollers, Publish(t)
         PROVE  CliInv'
    <2>1. rep[t].cli = cli
      BY <1>12 DEF Publish, GivenUp, Go, CliInv, RebuildCli
    <2>2. Merged(t).cli = cli /\ Report(NoUsage, rep[t].cli).cli = cli
      BY <2>1, ReportTypes DEF Merged, TypeOK
    <2>3. \A u \in Updaters : upc[u] = "idle"
      BY <1>12, ConstantsAssumption
         DEF Publish, GivenUp, Go, OneRebuild, InPoll
    <2>4. SnapshotCli'
      <3>1. cli \in Nat /\ acked \in Nat /\ acked <= cli
        BY ConstantsAssumption DEF TypeOK, CliInv, SnapshotCli
      <3>2. snap' = snap \/ snap' = Merged(t)
        BY <1>12 DEF Publish
      <3>3. UNCHANGED <<cli, acked, upc>>
        BY <1>12 DEF Publish, GivenUp, Go
      <3>4. QED
        BY <2>2, <2>3, <3>1, <3>2, <3>3 DEF CliInv, SnapshotCli
    <2>5. \A x \in Pollers : RebuildCli(x)'
      BY <1>12, <2>2
         DEF Publish, GivenUp, Go, TypeOK, CliInv, RebuildCli
    <2>6. QED
      BY <1>12, <2>4, <2>5
         DEF Publish, GivenUp, Go, TypeOK, CliInv, RequestCli,
             Waiting,
             UpdateReachesReaders
  <1>13. ASSUME NEW t \in Pollers, Return(t)
         PROVE  CliInv'
    <2>1. SnapshotCli'
      BY <1>13, SnapshotCliKept DEF Return, Go, CliInv
    <2>2. \A x \in Pollers : RebuildCli(x)'
      BY <1>13 DEF Return, Go, TypeOK, CliInv, RebuildCli
    <2>3. t \in Readers => rep[t].cli >= floor[t]
      <3>1. rep[t].cli = cli
        BY <1>13 DEF Return, Go, CliInv, RebuildCli
      <3>2. t \in Readers => floor[t] <= acked /\ floor[t] \in Nat
        BY <1>13, ConstantsAssumption
           DEF Return, Go, TypeOK, CliInv, RequestCli, Waiting
      <3>3. cli \in Nat /\ acked \in Nat /\ acked <= cli
        BY ConstantsAssumption DEF TypeOK, CliInv, SnapshotCli
      <3>4. QED
        BY <3>1, <3>2, <3>3
    <2>4. UpdateReachesReaders'
      BY <1>13, <2>3 DEF Return, TypeOK, CliInv, UpdateReachesReaders
    <2>5. \A r \in Readers : RequestCli(r)'
      BY <1>13 DEF Return, Go, TypeOK, CliInv, RequestCli, Waiting
    <2>6. QED
      BY <2>1, <2>2, <2>4, <2>5 DEF CliInv
  <1>14. ASSUME NEW s \in Savers, Save(s)
         PROVE  CliInv'
    <2>1. /\ snap' \in {snap, NoSnapshot}
          /\ UNCHANGED <<cli, acked, upc, rep, floor, answer>>
      BY <1>14
         DEF Save, AskSave, CheckTeam, StoreTeam, BumpRevision, RespondSave,
             SaverGo
    <2>2. \A x \in Pollers : \/ pc'[x] = pc[x]
                             \/ x \in BgPolls /\ pc'[x] = "wait"
      BY <1>14
         DEF Save, AskSave, CheckTeam, StoreTeam, BumpRevision, RespondSave,
             SaverGo, TypeOK
    <2>3. SnapshotCli'
      BY <2>1, SnapshotCliKept DEF CliInv
    <2>4. \A x \in Pollers : RebuildCli(x)'
      BY <2>1, <2>2 DEF CliInv, RebuildCli
    <2>5. \A r \in Readers : pc'[r] = pc[r]
      BY <2>2, ConstantsAssumption
    <2>6. QED
      BY <2>1, <2>3, <2>4, <2>5
         DEF CliInv, RequestCli, Waiting, UpdateReachesReaders
  <1>15. ASSUME NEW u \in Updaters, AskUpdate(u)
         PROVE  CliInv'
    <2>1. snap # NoSnapshot => snap.cli = cli
      BY <1>15, SnapshotIsCurrent, ConstantsAssumption DEF AskUpdate, CliInv
    <2>2. SnapshotCli'
      BY <1>15, <2>1 DEF AskUpdate, UpdaterGo, TypeOK, CliInv, SnapshotCli
    <2>3. QED
      BY <1>15, <2>2
         DEF AskUpdate, UpdaterGo, CliInv, RebuildCli, RequestCli, Waiting,
             UpdateReachesReaders
  <1>16. ASSUME NEW u \in Updaters, UpdateCli(u)
         PROVE  CliInv'
    <2>1. \A t \in Pollers : ~InPoll(t)
      BY <1>16, ConstantsAssumption DEF UpdateCli, UpdaterGo, OneRebuild
    <2>2. \A t \in Pollers : RebuildCli(t)'
      BY <1>16, <2>1 DEF UpdateCli, UpdaterGo, InPoll, RebuildCli
    <2>3. \A w \in Updaters \ {u} : upc[w] = "idle"
      BY <1>16 DEF UpdateCli, UpdaterGo, OneRebuild
    <2>4. acked <= cli'
      BY <1>16, ConstantsAssumption DEF UpdateCli, TypeOK, CliInv, SnapshotCli
    <2>5. SnapshotCli'
      BY <1>16, <2>3, <2>4
         DEF UpdateCli, UpdaterGo, TypeOK, CliInv, SnapshotCli
    <2>6. QED
      BY <1>16, <2>2, <2>5
         DEF UpdateCli, UpdaterGo, CliInv, RequestCli, Waiting,
             UpdateReachesReaders
  <1>17. ASSUME NEW u \in Updaters, ExpireSnapshot(u)
         PROVE  CliInv'
    <2>1. SnapshotCli'
      BY <1>17 DEF ExpireSnapshot, UpdaterGo, CliInv, SnapshotCli
    <2>2. QED
      BY <1>17, <2>1
         DEF ExpireSnapshot, UpdaterGo, CliInv, RebuildCli, RequestCli,
             Waiting, UpdateReachesReaders
  <1>18. ASSUME NEW u \in Updaters, RespondUpdate(u)
         PROVE  CliInv'
    <2>1. snap = NoSnapshot /\ acked <= cli /\ acked \in Nat /\ cli \in Nat
      BY <1>18, ConstantsAssumption
         DEF RespondUpdate, UpdaterGo, TypeOK, CliInv, SnapshotCli
    <2>2. SnapshotCli'
      BY <1>18, <2>1 DEF RespondUpdate, UpdaterGo, CliInv, SnapshotCli
    <2>3. \A r \in Readers : RequestCli(r)'
      <3> SUFFICES ASSUME NEW r \in Readers PROVE RequestCli(r)'
        OBVIOUS
      <3>1. floor[r] \in Nat
        BY ConstantsAssumption DEF TypeOK
      <3>2. QED
        BY <1>18, <2>1, <3>1
           DEF RespondUpdate, UpdaterGo, CliInv, RequestCli, Waiting
    <2>4. QED
      BY <1>18, <2>2, <2>3
         DEF RespondUpdate, UpdaterGo, CliInv, RebuildCli,
             UpdateReachesReaders
  <1>19. CASE UNCHANGED vars
    BY <1>19
       DEF vars, CliInv, SnapshotCli, RebuildCli, RequestCli, Waiting,
           UpdateReachesReaders
  <1>20. CASE ListTeams
    BY <1>20
       DEF ListTeams, CliInv, SnapshotCli, RebuildCli, RequestCli, Waiting,
           UpdateReachesReaders
  <1>21. QED
    BY <1>1, <1>2, <1>3, <1>4, <1>5, <1>6, <1>7, <1>8, <1>9, <1>10, <1>11,
       <1>12, <1>13, <1>14, <1>15, <1>16, <1>17, <1>18, <1>19, <1>20
       DEF Next, Poll, Rebuild, Update

\* UpdateReachesReaders: after an acknowledged update nobody who asks is
\* served what an older CLI built, even where SetState and GetConfig misbehave.
THEOREM UpdateReachesReadersSafe == Spec => []UpdateReachesReaders
  <1>1. CliInv => UpdateReachesReaders
    BY DEF CliInv
  <1>2. TypeOK /\ OneRebuild /\ CliInv /\ [Next]_vars => CliInv'
    BY NextCli
  <1>3. QED
    BY <1>1, <1>2, InitCli, TypeCorrect, Mutexes, PTL DEF Spec
=============================================================================
