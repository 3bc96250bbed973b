-------------------------- MODULE SettingsPageProofs --------------------------
(***************************************************************************)
(* Proofs about the settings page, for every number of changes and         *)
(* failures.  PageInv is the inductive invariant: what the page waits for  *)
(* is in flight with the current generation (Awaited, NotOrphaned), only   *)
(* such requests keep the page busy (BusyInv), no two reads are current    *)
(* and the current one began after what is shown and what was acknowledged *)
(* (ReadInv), which needs that no more is applied than was begun           *)
(* (CountInv).                                                             *)
(***************************************************************************)
EXTENDS SettingsPage, TLAPS

Reads(w) == [since : 0..w, current : BOOLEAN]

-----------------------------------------------------------------------------
(* What counting a generation up does to the requests before it. *)

(* Reads of an earlier generation stay reads, and none is current. *)
LEMMA OlderReads ==
    ASSUME NEW S, NEW w \in Nat, S \subseteq Reads(w)
    PROVE  /\ Older(S) \subseteq Reads(w)
           /\ \A r \in Older(S) : ~r.current
  BY DEF Older, Reads

(* A superseded scan or load is not current. *)
LEMMA SupersededStale ==
    ASSUME NEW S
    PROVE  /\ Superseded(S) \subseteq {"current", "stale"}
           /\ "current" \notin Superseded(S)
           /\ Superseded(S) \union {"current"} \subseteq {"current", "stale"}
  BY DEF Superseded

(* A change that is left keeps its step and its number. *)
LEMMA LeftChange ==
    ASSUME NEW c \in Changes
    PROVE  /\ Left(c) \in Changes
           /\ Left(c).at = c.at
           /\ Left(c).number = c.number
           /\ ~Left(c).current
           /\ Open(Left(c)) = Open(c)
  BY DEF Left, Changes, Open

(* A change that is sent has no number yet. *)
LEMMA SentChange ==
    ASSUME NEW s \in Steps
    PROVE  /\ Sent(s) \in Changes
           /\ Sent(s).at = s
           /\ Sent(s).current
           /\ Sent(s).number = 0
           /\ Open(Sent(s)) = IF s \in {"reading", "patching", "posted"} THEN 1 ELSE 0
  BY DEF Sent, Changes, Open

LEMMA NoneChange ==
    /\ None \in Changes
    /\ None.at = "none"
    /\ None.number = 0
    /\ ~None.current
    /\ Open(None) = 0
  BY DEF None, Changes, Steps, Open

(* A change that the server applies gets its number. *)
LEMMA AppliedChange ==
    ASSUME NEW c \in Changes, NEW n \in Nat
    PROVE  LET d == [c EXCEPT !.at = "applied", !.number = n] IN
             /\ d \in Changes
             /\ d.at = "applied"
             /\ d.current = c.current
             /\ d.number = n
             /\ Open(d) = 0
  BY DEF Changes, Steps, Open

(* A change counts until it is applied. *)
LEMMA OpenRange ==
    ASSUME NEW c
    PROVE  /\ Open(c) \in {0, 1}
           /\ Open(c) = 1 <=> c.at \in {"reading", "patching", "posted"}
  BY DEF Open

(* A read that begins reads what is applied now. *)
LEMMA ReadBegins ==
    ASSUME world \in Nat
    PROVE  Read \in Reads(world) /\ Read.current /\ Read.since = world
  BY DEF Read, Reads

-----------------------------------------------------------------------------
(* fetchProviders either leaves all as it is, or leaves one current read that *)
(* begins now.                                                                *)
FetchSkipped(upd) == UNCHANGED usage /\ update' = upd

FetchStarted(upd) ==
    /\ mounted
    /\ pending' = TRUE
    /\ loading' = TRUE
    /\ shown' = shown
    /\ update' = Left(upd)
    /\ reads' \subseteq Reads(world)
    /\ Read \in reads'
    /\ \A r \in reads' : r.current => r = Read

FetchOutcome(restart, inSave, inUpdate, upd) ==
    \/ ~inSave /\ ~inUpdate /\ FetchStarted(upd)
    \/ /\ ~mounted \/ inSave \/ inUpdate \/ (pending /\ ~restart)
       /\ FetchSkipped(upd)

LEMMA Fetched ==
    ASSUME NEW restart \in BOOLEAN, NEW inSave \in BOOLEAN, NEW inUpdate \in BOOLEAN,
           NEW upd \in Changes, world \in Nat, reads \subseteq Reads(world),
           FetchProviders(restart, inSave, inUpdate, upd)
    PROVE  FetchOutcome(restart, inSave, inUpdate, upd)
  <1>1. CASE mounted /\ Free(inSave, inUpdate) /\ Replaces(restart)
    BY <1>1, OlderReads, ReadBegins DEF FetchProviders, Free, FetchStarted, FetchOutcome
  <1>2. CASE ~(mounted /\ Free(inSave, inUpdate) /\ Replaces(restart))
    BY <1>2 DEF FetchProviders, Free, Replaces, FetchSkipped, FetchOutcome
  <1> QED BY <1>1, <1>2

-----------------------------------------------------------------------------
(* A part of PageInv is kept where its variables are left alone. *)
LEMMA ServerKept ==
    ASSUME ServerTypeOK, UNCHANGED <<world, changes, failures, acked>>
    PROVE  ServerTypeOK'
  BY DEF ServerTypeOK

LEMMA UsageKept ==
    ASSUME UsageTypeOK, UNCHANGED <<world, shown, loading, pending, reads>>
    PROVE  UsageTypeOK'
  BY DEF UsageTypeOK

LEMMA LoadsKept ==
    ASSUME LoadsTypeOK, UNCHANGED <<scanning, scans, config, configReads>>
    PROVE  LoadsTypeOK'
  BY DEF LoadsTypeOK

LEMMA ChangesKept ==
    ASSUME ChangesTypeOK, UNCHANGED <<saving, updating, save, update, team>>
    PROVE  ChangesTypeOK'
  BY DEF ChangesTypeOK

LEMMA AwaitedKept ==
    ASSUME Awaited,
           UNCHANGED <<mounted, pending, loading, reads, scanning, scans, config,
                       configReads, updating>>
    PROVE  Awaited'
  BY DEF Awaited

LEMMA NotOrphanedKept ==
    ASSUME NotOrphaned, UNCHANGED <<mounted, saving, updating, save, update>>
    PROVE  NotOrphaned'
  BY DEF NotOrphaned

LEMMA CountKept ==
    ASSUME CountInv, UNCHANGED <<world, changes, save, update, team>>
    PROVE  CountInv'
  BY DEF CountInv, Open

LEMMA ReadKept ==
    ASSUME ReadInv,
           UNCHANGED <<mounted, reads, saving, updating, pending, shown, acked>>
    PROVE  ReadInv'
  BY DEF ReadInv

LEMMA ConfigKept ==
    ASSUME ConfigInv, UNCHANGED <<mounted, config, saving>>
    PROVE  ConfigInv'
  BY DEF ConfigInv

LEMMA BusyKept ==
    ASSUME BusyInv, UNCHANGED <<mounted, save, update, saving, updating>>
    PROVE  BusyInv'
  BY DEF BusyInv, Heard

-----------------------------------------------------------------------------
(* The page as it opens. *)
LEMMA InitPage == Init => PageInv
  <1> SUFFICES ASSUME Init PROVE PageInv
    OBVIOUS
  <1>1. world = 0 /\ Read \in Reads(0) /\ Read.current /\ Read.since = 0
    BY DEF Init, Read, Reads
  <1>2. ServerTypeOK
    BY BoundsAssumption DEF Init, ServerTypeOK
  <1>3. UsageTypeOK
    BY <1>1 DEF Init, UsageTypeOK, Nothing, Reads
  <1>4. LoadsTypeOK
    BY Zenon DEF Init, LoadsTypeOK
  <1>5. ChangesTypeOK
    BY NoneChange DEF Init, ChangesTypeOK
  <1>6. Awaited
    BY <1>1 DEF Init, Awaited
  <1>7. NotOrphaned /\ ConfigInv /\ BusyInv
    BY NoneChange DEF Init, NotOrphaned, ConfigInv, BusyInv, Heard
  <1>8. CountInv
    BY <1>1, NoneChange DEF Init, CountInv
  <1>9. ReadInv
    BY <1>1 DEF Init, ReadInv, Nothing
  <1> QED
    BY <1>2, <1>3, <1>4, <1>5, <1>6, <1>7, <1>8, <1>9 DEF Init, PageInv, TypeOK

-----------------------------------------------------------------------------
(* A heeded answer ends the wait, and shows at least what its read began with. *)
LEMMA AnswerReadKeeps ==
    ASSUME PageInv, NEW r \in reads, AnswerRead(r) PROVE PageInv'
  <1> USE DEF PageInv, TypeOK
  <1>1. r.since \in 0..world
    BY DEF UsageTypeOK
  <1>2. shown' \in Nothing..world
    <2>1. CASE mounted /\ r.current
      <3>1. shown' \in r.since..world
        BY <2>1 DEF AnswerRead, Heeded
      <3> QED BY <1>1, <3>1 DEF Nothing
    <2>2. CASE ~(mounted /\ r.current)
      BY <2>2 DEF AnswerRead, Heeded, UsageTypeOK
    <2> QED BY <2>1, <2>2
  <1>3. (/\ ServerTypeOK /\ LoadsTypeOK /\ ChangesTypeOK /\ NotOrphaned
         /\ CountInv /\ ConfigInv /\ BusyInv)'
    BY ServerKept, LoadsKept, ChangesKept, NotOrphanedKept, CountKept, ConfigKept,
       BusyKept
       DEF AnswerRead, discovery, settings, server
  <1>4. UsageTypeOK'
    BY <1>2 DEF AnswerRead, server, UsageTypeOK
  <1>5. Awaited'
    BY DEF AnswerRead, Heeded, discovery, settings, Awaited, ReadInv
  <1>6. ReadInv'
    BY DEF AnswerRead, Heeded, ReadInv
  <1> QED BY <1>3, <1>4, <1>5, <1>6 DEF AnswerRead

(* A failed read ends the wait and shows nothing. *)
LEMMA FailReadKeeps == ASSUME PageInv, NEW r \in reads, FailRead(r) PROVE PageInv'
  <1> USE DEF PageInv, TypeOK
  <1>1. (/\ LoadsTypeOK /\ ChangesTypeOK /\ NotOrphaned /\ CountInv /\ ConfigInv
         /\ BusyInv)'
    BY LoadsKept, ChangesKept, NotOrphanedKept, CountKept, ConfigKept, BusyKept
       DEF FailRead, Fault, discovery, settings
  <1>2. ServerTypeOK'
    BY BoundsAssumption DEF FailRead, Fault, ServerTypeOK
  <1>3. UsageTypeOK'
    BY DEF FailRead, Fault, UsageTypeOK
  <1>4. Awaited'
    BY DEF FailRead, Heeded, discovery, settings, Awaited, ReadInv
  <1>5. ReadInv'
    BY DEF FailRead, ReadInv
  <1> QED BY <1>1, <1>2, <1>3, <1>4, <1>5 DEF FailRead

(* The interval reads anew only where no read is pending. *)
LEMMA TickKeeps == ASSUME PageInv, Tick PROVE PageInv'
  <1> USE DEF PageInv, TypeOK
  <1>1. /\ update \in Changes /\ reads \subseteq Reads(world) /\ world \in Nat
        /\ saving \in BOOLEAN /\ updating \in BOOLEAN
    BY DEF ChangesTypeOK, UsageTypeOK, ServerTypeOK, Reads
  <1>2. FetchProviders(FALSE, saving, updating, update)
    BY DEF Tick
  <1>3. FetchOutcome(FALSE, saving, updating, update)
    BY <1>1, <1>2, Fetched
  <1>4. /\ Left(update) \in Changes /\ ~Left(update).current
        /\ Left(update).number = update.number /\ Open(Left(update)) = Open(update)
    BY LeftChange DEF ChangesTypeOK
  <1>5. Read.current /\ Read.since = world
    BY ReadBegins DEF ServerTypeOK
  <1>6. (ServerTypeOK /\ LoadsTypeOK /\ ConfigInv)'
    BY ServerKept, LoadsKept, ConfigKept DEF Tick, discovery, settings, server
  <1>7. UsageTypeOK'
    BY <1>3
       DEF Tick, FetchStarted, FetchSkipped, FetchOutcome, usage, server,
           UsageTypeOK, Reads
  <1>8. ChangesTypeOK'
    BY <1>3, <1>4 DEF Tick, FetchStarted, FetchSkipped, FetchOutcome, ChangesTypeOK
  <1>9. Awaited'
    BY <1>3, <1>5
       DEF Tick, FetchStarted, FetchSkipped, FetchOutcome, usage, discovery,
           settings, Awaited
  <1>10. NotOrphaned'
    BY <1>3 DEF Tick, FetchSkipped, FetchOutcome, NotOrphaned
  <1>11. CountInv'
    BY <1>3, <1>4
       DEF Tick, FetchStarted, FetchSkipped, FetchOutcome, server, CountInv
  <1>12. ReadInv'
    BY <1>3, <1>5
       DEF Tick, FetchStarted, FetchSkipped, FetchOutcome, usage, ServerTypeOK,
           UsageTypeOK, ReadInv
  <1>13. BusyInv'
    BY <1>3, <1>4 DEF Tick, FetchStarted, FetchSkipped, FetchOutcome, BusyInv, Heard
  <1> QED BY <1>6, <1>7, <1>8, <1>9, <1>10, <1>11, <1>12, <1>13 DEF Tick

(* A scan supersedes the scan before it. *)
LEMMA RescanKeeps == ASSUME PageInv, Rescan PROVE PageInv'
  <1> USE DEF PageInv, TypeOK
  <1>1. (/\ ServerTypeOK /\ UsageTypeOK /\ ChangesTypeOK /\ NotOrphaned
         /\ CountInv /\ ReadInv /\ ConfigInv /\ BusyInv)'
    BY ServerKept, UsageKept, ChangesKept, NotOrphanedKept, CountKept, ReadKept,
       ConfigKept, BusyKept
       DEF Rescan, usage, settings, server
  <1>2. LoadsTypeOK'
    BY SupersededStale DEF Rescan, LoadDiscovery, settings, LoadsTypeOK
  <1>3. Awaited'
    BY DEF Rescan, LoadDiscovery, usage, settings, Awaited
  <1> QED BY <1>1, <1>2, <1>3 DEF Rescan

(* Only the current scan ends the wait for it. *)
LEMMA EndScanKeeps == ASSUME PageInv, NEW r \in scans, EndScan(r) PROVE PageInv'
  <1> USE DEF PageInv, TypeOK
  <1>1. (/\ ServerTypeOK /\ UsageTypeOK /\ ChangesTypeOK /\ NotOrphaned
         /\ CountInv /\ ReadInv /\ ConfigInv /\ BusyInv)'
    BY ServerKept, UsageKept, ChangesKept, NotOrphanedKept, CountKept, ReadKept,
       ConfigKept, BusyKept
       DEF EndScan, usage, settings, server
  <1>2. LoadsTypeOK'
    BY DEF EndScan, settings, LoadsTypeOK
  <1>3. Awaited'
    BY DEF EndScan, usage, settings, Awaited
  <1> QED BY <1>1, <1>2, <1>3 DEF EndScan

(* Settings are loaded again after an error only, hence never beside a save. *)
LEMMA LoadConfigKeeps == ASSUME PageInv, LoadConfig PROVE PageInv'
  <1> USE DEF PageInv, TypeOK
  <1>1. /\ save' \in Changes /\ save'.at = save.at
        /\ save'.number = save.number /\ ~save'.current /\ Open(save') = Open(save)
    BY LeftChange DEF LoadConfig, ChangesTypeOK
  <1>2. (ServerTypeOK /\ UsageTypeOK /\ ReadInv)'
    BY ServerKept, UsageKept, ReadKept DEF LoadConfig, usage, server
  <1>3. LoadsTypeOK'
    BY SupersededStale DEF LoadConfig, discovery, LoadsTypeOK
  <1>4. ChangesTypeOK'
    BY <1>1 DEF LoadConfig, ChangesTypeOK
  <1>5. Awaited'
    BY DEF LoadConfig, usage, discovery, Awaited
  <1>6. NotOrphaned'
    BY DEF LoadConfig, NotOrphaned, ConfigInv
  <1>7. CountInv'
    BY <1>1 DEF LoadConfig, server, CountInv
  <1>8. ConfigInv'
    BY DEF LoadConfig, ConfigInv
  <1>9. BusyInv'
    BY <1>1 DEF LoadConfig, BusyInv, Heard
  <1> QED BY <1>2, <1>3, <1>4, <1>5, <1>6, <1>7, <1>8, <1>9 DEF LoadConfig

(* The current load ends the wait for it. *)
LEMMA AnswerConfigKeeps ==
    ASSUME PageInv, NEW r \in configReads, AnswerConfig(r) PROVE PageInv'
  <1> USE DEF PageInv, TypeOK
  <1>1. (/\ ServerTypeOK /\ UsageTypeOK /\ ChangesTypeOK /\ NotOrphaned
         /\ CountInv /\ ReadInv /\ BusyInv)'
    BY ServerKept, UsageKept, ChangesKept, NotOrphanedKept, CountKept, ReadKept,
       BusyKept
       DEF AnswerConfig, usage, server
  <1>2. LoadsTypeOK'
    BY DEF AnswerConfig, discovery, LoadsTypeOK
  <1>3. Awaited'
    BY DEF AnswerConfig, usage, discovery, Awaited
  <1>4. ConfigInv'
    BY DEF AnswerConfig, ConfigInv
  <1> QED BY <1>1, <1>2, <1>3, <1>4 DEF AnswerConfig

(* A failed load ends the wait too. *)
LEMMA FailConfigKeeps ==
    ASSUME PageInv, NEW r \in configReads, FailConfig(r) PROVE PageInv'
  <1> USE DEF PageInv, TypeOK
  <1>1. (/\ UsageTypeOK /\ ChangesTypeOK /\ NotOrphaned /\ CountInv /\ ReadInv
         /\ BusyInv)'
    BY UsageKept, ChangesKept, NotOrphanedKept, CountKept, ReadKept, BusyKept
       DEF FailConfig, Fault, usage
  <1>2. ServerTypeOK'
    BY BoundsAssumption DEF FailConfig, Fault, ServerTypeOK
  <1>3. LoadsTypeOK'
    BY DEF FailConfig, discovery, LoadsTypeOK
  <1>4. Awaited'
    BY DEF FailConfig, usage, discovery, Awaited
  <1>5. ConfigInv'
    BY DEF FailConfig, ConfigInv, Awaited
  <1> QED BY <1>1, <1>2, <1>3, <1>4, <1>5 DEF FailConfig

(* A save releases the pending read and makes an idle update's answer stale. *)
LEMMA SaveConfigKeeps == ASSUME PageInv, SaveConfig PROVE PageInv'
  <1> USE DEF PageInv, TypeOK
  <1>1. /\ save' \in Changes /\ save'.at = "reading" /\ save'.current
        /\ save'.number = 0 /\ Open(save') = 1
    BY SentChange DEF SaveConfig, Steps
  <1>2. /\ update' \in Changes /\ update'.at = update.at
        /\ update'.number = update.number /\ ~update'.current /\ Open(update') = Open(update)
    BY LeftChange DEF SaveConfig, ChangesTypeOK
  <1>3. /\ reads' \subseteq Reads(world)
        /\ \A q \in reads' : ~q.current
    BY OlderReads DEF SaveConfig, UsageTypeOK, ServerTypeOK, Reads
  <1>4. ServerTypeOK'
    BY BoundsAssumption DEF SaveConfig, Begin, ServerTypeOK
  <1>5. UsageTypeOK'
    BY <1>3 DEF SaveConfig, Begin, Released, UsageTypeOK, Reads
  <1>6. LoadsTypeOK'
    BY SupersededStale DEF SaveConfig, discovery, LoadsTypeOK
  <1>7. ChangesTypeOK'
    BY <1>1, <1>2 DEF SaveConfig, ChangesTypeOK
  <1>8. Awaited'
    BY <1>3, SupersededStale DEF SaveConfig, Released, discovery, Awaited, ConfigInv
  <1>9. NotOrphaned'
    BY <1>1 DEF SaveConfig, NotOrphaned
  <1>10. CountInv'
    BY <1>1, <1>2, OpenRange DEF SaveConfig, Begin, ServerTypeOK, CountInv
  <1>11. ReadInv'
    BY <1>3 DEF SaveConfig, Released, ReadInv
  <1>12. ConfigInv'
    BY DEF SaveConfig, ConfigInv
  <1>13. BusyInv'
    BY <1>2 DEF SaveConfig, BusyInv, Heard
  <1> QED
    BY <1>4, <1>5, <1>6, <1>7, <1>8, <1>9, <1>10, <1>11, <1>12, <1>13 DEF SaveConfig

(* The save goes on, or ends with the page. *)
LEMMA PatchConfigKeeps == ASSUME PageInv, PatchConfig PROVE PageInv'
  <1> USE DEF PageInv, TypeOK
  <1>1. save \in Changes /\ save.at # "none" /\ Open(save) = 1
    BY DEF PatchConfig, ChangesTypeOK, Open
  <1>2. (/\ ServerTypeOK /\ UsageTypeOK /\ LoadsTypeOK /\ Awaited /\ ReadInv
         /\ ConfigInv)'
    BY ServerKept, UsageKept, LoadsKept, AwaitedKept, ReadKept, ConfigKept
       DEF PatchConfig, usage, discovery, settings, server
  <1>3. CASE mounted /\ save.current
    <2>1. /\ save' \in Changes /\ save'.at = "patching" /\ save'.current
          /\ save'.number = save.number /\ Open(save') = 1
      BY <1>1, <1>3 DEF PatchConfig, Heeded, Changes, Steps, Open
    <2>2. ChangesTypeOK'
      BY <2>1 DEF PatchConfig, ChangesTypeOK
    <2>3. (NotOrphaned /\ BusyInv)'
      BY <1>3, <2>1 DEF PatchConfig, NotOrphaned, BusyInv, Heard
    <2>4. CountInv'
      BY <1>1, <2>1 DEF PatchConfig, CountInv, server
    <2> QED BY <1>2, <2>2, <2>3, <2>4 DEF PatchConfig
  <1>4. CASE ~(mounted /\ save.current)
    <2>1. save' = None
      BY <1>4 DEF PatchConfig, Heeded
    <2>2. ChangesTypeOK'
      BY <2>1, NoneChange DEF PatchConfig, ChangesTypeOK
    <2>3. (NotOrphaned /\ BusyInv)'
      BY <1>4, NoneChange DEF PatchConfig, NotOrphaned, BusyInv, Heard
    <2>4. CountInv'
      BY NoneChange, OpenRange DEF PatchConfig, CountInv, server, ServerTypeOK
    <2> QED BY <1>2, <2>2, <2>3, <2>4 DEF PatchConfig
  <1> QED BY <1>3, <1>4

(* The server applies one change of those begun. *)
LEMMA ApplySaveKeeps == ASSUME PageInv, ApplySave PROVE PageInv'
  <1> USE DEF PageInv, TypeOK
  <1>1. save \in Changes /\ world + 1 \in Nat /\ Open(save) = 1 /\ save.at # "none"
    BY DEF ApplySave, ChangesTypeOK, ServerTypeOK, Open
  <1>2. /\ save' \in Changes /\ save'.at = "applied" /\ save'.current = save.current
        /\ save'.number = world + 1 /\ Open(save') = 0
    BY <1>1, AppliedChange DEF ApplySave
  <1>3. (LoadsTypeOK /\ Awaited /\ ReadInv /\ ConfigInv)'
    BY LoadsKept, AwaitedKept, ReadKept, ConfigKept
       DEF ApplySave, usage, discovery, settings
  <1>4. ServerTypeOK'
    BY OpenRange DEF ApplySave, Apply, ServerTypeOK, CountInv
  <1>5. UsageTypeOK'
    BY DEF ApplySave, Apply, usage, ServerTypeOK, UsageTypeOK
  <1>6. ChangesTypeOK'
    BY <1>2 DEF ApplySave, ChangesTypeOK
  <1>7. NotOrphaned'
    BY DEF ApplySave, NotOrphaned
  <1>8. CountInv'
    BY <1>2, OpenRange
       DEF ApplySave, Apply, ServerTypeOK, CountInv, ChangesTypeOK, Changes
  <1>9. BusyInv'
    BY DEF ApplySave, BusyInv, Heard
  <1> QED BY <1>3, <1>4, <1>5, <1>6, <1>7, <1>8, <1>9 DEF ApplySave

(* An acknowledged save ends, and reads what it changed. *)
LEMMA AckSaveKeeps == ASSUME PageInv, AckSave PROVE PageInv'
  <1> USE DEF PageInv, TypeOK
  <1>1. /\ save \in Changes /\ update \in Changes /\ world \in Nat
        /\ saving \in BOOLEAN /\ updating \in BOOLEAN
        /\ reads \subseteq Reads(world) /\ save.number \in 0..world
    BY DEF ChangesTypeOK, ServerTypeOK, UsageTypeOK, CountInv, Reads, Changes
  <1>2. save.at # "none"
    BY DEF AckSave
  <1>3. CASE mounted /\ save.current
    <2>1. /\ saving
          /\ ~updating
      BY <1>2, <1>3 DEF BusyInv, Heard, NotOrphaned
    <2>2. FetchProviders(TRUE, FALSE, updating, update)
      BY <1>3 DEF AckSave, Heeded
    <2>3. FetchStarted(update)
      BY <1>1, <1>3, <2>1, <2>2, Fetched DEF FetchOutcome
    <2>4. /\ update' \in Changes /\ ~update'.current
          /\ update'.number \in 0..world /\ Open(update') = Open(update)
      BY <1>1, <2>3, LeftChange DEF FetchStarted, CountInv, Changes
    <2>5. Read.current /\ Read.since = world
      BY <1>1, ReadBegins
    <2>6. (ServerTypeOK /\ UsageTypeOK)'
      BY <1>1, <2>3
         DEF AckSave, FetchStarted, ServerTypeOK, UsageTypeOK, Reads, server
    <2>7. LoadsTypeOK'
      <3>1. config' \in [loading : BOOLEAN, data : BOOLEAN, error : BOOLEAN]
        <4>1. config' = [loading |-> FALSE, data |-> TRUE, error |-> FALSE]
          BY <1>3 DEF AckSave, Heeded
        <4> QED BY <4>1, Zenon
      <3> QED
        BY <3>1, SupersededStale DEF AckSave, LoadDiscovery, LoadsTypeOK, discovery
    <2>8. ChangesTypeOK'
      BY <2>4, NoneChange DEF AckSave, ChangesTypeOK
    <2>9. Awaited'
      BY <1>3, <2>1, <2>3, <2>5
         DEF AckSave, LoadDiscovery, Heeded, FetchStarted, Awaited, ConfigInv
    <2>10. (NotOrphaned /\ BusyInv)'
      BY <1>3, <2>1, <2>4, NoneChange
         DEF AckSave, Heeded, NotOrphaned, BusyInv, Heard
    <2>11. CountInv'
      BY <2>4, NoneChange, OpenRange DEF AckSave, CountInv, ServerTypeOK, server
    <2>12. ReadInv'
      BY <1>1, <1>3, <2>1, <2>3, <2>5
         DEF AckSave, Heeded, FetchStarted, ReadInv, UsageTypeOK
    <2>13. ConfigInv'
      BY <1>3 DEF AckSave, Heeded, ConfigInv
    <2> QED
      BY <2>6, <2>7, <2>8, <2>9, <2>10, <2>11, <2>12, <2>13 DEF AckSave
  <1>4. CASE ~(mounted /\ save.current)
    <2>1. /\ save' = None
          /\ UNCHANGED <<mounted, server, usage, discovery, config, configReads, saving,
                         updating, update, team, acked>>
      BY <1>4 DEF AckSave, Heeded
    <2>2. (/\ ServerTypeOK /\ UsageTypeOK /\ LoadsTypeOK /\ Awaited /\ ReadInv
           /\ ConfigInv)'
      BY <2>1, ServerKept, UsageKept, LoadsKept, AwaitedKept, ReadKept, ConfigKept
         DEF server, usage, discovery
    <2>3. ChangesTypeOK'
      BY <2>1, NoneChange DEF ChangesTypeOK
    <2>4. (NotOrphaned /\ BusyInv)'
      BY <1>4, <2>1, NoneChange DEF NotOrphaned, BusyInv, Heard
    <2>5. CountInv'
      BY <2>1, NoneChange, OpenRange DEF CountInv, ServerTypeOK, server
    <2> QED BY <2>1, <2>2, <2>3, <2>4, <2>5
  <1> QED BY <1>3, <1>4

(* A failed save ends. *)
LEMMA FailSaveKeeps == ASSUME PageInv, FailSave PROVE PageInv'
  <1> USE DEF PageInv, TypeOK
  <1>1. /\ save' \in Changes /\ save'.at = "none" /\ ~save'.current
        /\ save'.number = 0 /\ Open(save') = 0
    BY NoneChange DEF FailSave
  <1>2. (UsageTypeOK)'
    BY UsageKept DEF FailSave, Fault, usage
  <1>3. ServerTypeOK'
    BY BoundsAssumption DEF FailSave, Fault, ServerTypeOK
  <1>4. LoadsTypeOK'
    BY DEF FailSave, Unsaved, discovery, LoadsTypeOK
  <1>5. ChangesTypeOK'
    BY <1>1 DEF FailSave, ChangesTypeOK
  <1>6. Awaited'
    BY DEF FailSave, Unsaved, usage, discovery, Awaited
  <1>7. NotOrphaned'
    BY DEF FailSave, Heeded, NotOrphaned
  <1>8. CountInv'
    BY <1>1, OpenRange DEF FailSave, Fault, ServerTypeOK, CountInv
  <1>9. ReadInv'
    BY DEF FailSave, usage, ReadInv
  <1>10. ConfigInv'
    BY DEF FailSave, Unsaved, ConfigInv
  <1>11. BusyInv'
    BY <1>1 DEF FailSave, BusyInv, Heard
  <1> QED
    BY <1>2, <1>3, <1>4, <1>5, <1>6, <1>7, <1>8, <1>9, <1>10, <1>11 DEF FailSave

(* An update releases the pending read. *)
LEMMA UpdateCodexbarKeeps == ASSUME PageInv, UpdateCodexbar PROVE PageInv'
  <1> USE DEF PageInv, TypeOK
  <1>1. /\ update' \in Changes /\ update'.at = "posted" /\ update'.current
        /\ update'.number = 0 /\ Open(update') = 1
    BY SentChange DEF UpdateCodexbar, Steps
  <1>2. /\ reads' \subseteq Reads(world)
        /\ \A q \in reads' : ~q.current
    BY OlderReads DEF UpdateCodexbar, UsageTypeOK, ServerTypeOK, Reads
  <1>3. (LoadsTypeOK /\ ConfigInv)'
    BY LoadsKept, ConfigKept DEF UpdateCodexbar, discovery, settings
  <1>4. ServerTypeOK'
    BY BoundsAssumption DEF UpdateCodexbar, Begin, ServerTypeOK
  <1>5. UsageTypeOK'
    BY <1>2 DEF UpdateCodexbar, Begin, Released, UsageTypeOK, Reads
  <1>6. ChangesTypeOK'
    BY <1>1 DEF UpdateCodexbar, ChangesTypeOK
  <1>7. Awaited'
    BY <1>2 DEF UpdateCodexbar, Released, discovery, settings, Awaited
  <1>8. NotOrphaned'
    BY <1>1 DEF UpdateCodexbar, NotOrphaned
  <1>9. CountInv'
    BY <1>1, OpenRange DEF UpdateCodexbar, Begin, ServerTypeOK, CountInv
  <1>10. ReadInv'
    BY <1>2 DEF UpdateCodexbar, Released, ReadInv
  <1>11. BusyInv'
    BY DEF UpdateCodexbar, BusyInv
  <1> QED
    BY <1>3, <1>4, <1>5, <1>6, <1>7, <1>8, <1>9, <1>10, <1>11 DEF UpdateCodexbar

(* The server applies one change of those begun. *)
LEMMA ApplyUpdateKeeps == ASSUME PageInv, ApplyUpdate PROVE PageInv'
  <1> USE DEF PageInv, TypeOK
  <1>1. update \in Changes /\ world + 1 \in Nat /\ Open(update) = 1 /\ update.at # "none"
    BY DEF ApplyUpdate, ChangesTypeOK, ServerTypeOK, Open
  <1>2. /\ update' \in Changes /\ update'.at = "applied" /\ update'.current = update.current
        /\ update'.number = world + 1 /\ Open(update') = 0
    BY <1>1, AppliedChange DEF ApplyUpdate
  <1>3. (LoadsTypeOK /\ Awaited /\ ReadInv /\ ConfigInv)'
    BY LoadsKept, AwaitedKept, ReadKept, ConfigKept
       DEF ApplyUpdate, usage, discovery, settings
  <1>4. ServerTypeOK'
    BY OpenRange DEF ApplyUpdate, Apply, ServerTypeOK, CountInv
  <1>5. UsageTypeOK'
    BY DEF ApplyUpdate, Apply, usage, ServerTypeOK, UsageTypeOK
  <1>6. ChangesTypeOK'
    BY <1>2 DEF ApplyUpdate, ChangesTypeOK
  <1>7. NotOrphaned'
    BY DEF ApplyUpdate, NotOrphaned
  <1>8. CountInv'
    BY <1>2, OpenRange
       DEF ApplyUpdate, Apply, ServerTypeOK, CountInv, ChangesTypeOK, Changes
  <1>9. BusyInv'
    BY DEF ApplyUpdate, BusyInv, Heard
  <1> QED BY <1>3, <1>4, <1>5, <1>6, <1>7, <1>8, <1>9 DEF ApplyUpdate

(* An acknowledged update ends; no read is pending, so one begins. *)
LEMMA AckUpdateKeeps == ASSUME PageInv, AckUpdate PROVE PageInv'
  <1> USE DEF PageInv, TypeOK
  <1>1. /\ save \in Changes /\ update \in Changes /\ world \in Nat
        /\ saving \in BOOLEAN /\ updating \in BOOLEAN
        /\ reads \subseteq Reads(world) /\ update.number \in 0..world
    BY DEF ChangesTypeOK, ServerTypeOK, UsageTypeOK, CountInv, Reads, Changes
  <1>2. update.at # "none"
    BY DEF AckUpdate
  <1>3. CASE mounted /\ update.current
    <2>1. /\ updating
          /\ ~saving
      BY <1>2, <1>3 DEF BusyInv, Heard, NotOrphaned
    <2>2. FetchProviders(FALSE, saving, FALSE, None)
      BY <1>3 DEF AckUpdate, Heeded
    <2>3. FetchStarted(None)
      BY <1>1, <1>3, <2>1, <2>2, Fetched, NoneChange DEF ReadInv, FetchOutcome
    <2>4. /\ update' \in Changes /\ ~update'.current
          /\ update'.number \in 0..world /\ Open(update') = 0
      BY <1>1, <2>3, LeftChange, NoneChange DEF FetchStarted
    <2>5. Read.current /\ Read.since = world
      BY <1>1, ReadBegins
    <2>6. (ServerTypeOK /\ UsageTypeOK)'
      BY <1>1, <2>3
         DEF AckUpdate, FetchStarted, ServerTypeOK, UsageTypeOK, Reads, server
    <2>7. LoadsTypeOK'
      BY LoadsKept DEF AckUpdate, discovery, settings
    <2>8. ChangesTypeOK'
      BY <2>4 DEF AckUpdate, ChangesTypeOK
    <2>9. Awaited'
      BY <2>3, <2>5 DEF AckUpdate, FetchStarted, Awaited, discovery, settings
    <2>10. (NotOrphaned /\ BusyInv)'
      BY <2>4 DEF AckUpdate, Heeded, NotOrphaned, BusyInv, Heard
    <2>11. CountInv'
      BY <2>4, OpenRange DEF AckUpdate, CountInv, server
    <2>12. ReadInv'
      BY <1>1, <1>3, <2>1, <2>3, <2>5
         DEF AckUpdate, Heeded, FetchStarted, ReadInv, UsageTypeOK
    <2>13. ConfigInv'
      BY DEF AckUpdate, ConfigInv, settings
    <2> QED
      BY <2>6, <2>7, <2>8, <2>9, <2>10, <2>11, <2>12, <2>13 DEF AckUpdate
  <1>4. CASE ~(mounted /\ update.current)
    <2>1. /\ update' = None
          /\ UNCHANGED <<mounted, server, usage, discovery, config, configReads, saving,
                         updating, save, team, acked>>
      BY <1>4 DEF AckUpdate, Heeded, settings
    <2>2. (/\ ServerTypeOK /\ UsageTypeOK /\ LoadsTypeOK /\ Awaited /\ ReadInv
           /\ ConfigInv)'
      BY <2>1, ServerKept, UsageKept, LoadsKept, AwaitedKept, ReadKept, ConfigKept
         DEF server, usage, discovery
    <2>3. ChangesTypeOK'
      BY <2>1, NoneChange DEF ChangesTypeOK
    <2>4. (NotOrphaned /\ BusyInv)'
      BY <1>4, <2>1, NoneChange DEF NotOrphaned, BusyInv, Heard
    <2>5. CountInv'
      BY <2>1, NoneChange, OpenRange DEF CountInv, ServerTypeOK, server
    <2> QED BY <2>1, <2>2, <2>3, <2>4, <2>5
  <1> QED BY <1>3, <1>4

(* A failed update ends. *)
LEMMA FailUpdateKeeps == ASSUME PageInv, FailUpdate PROVE PageInv'
  <1> USE DEF PageInv, TypeOK
  <1>1. /\ update' \in Changes /\ update'.at = "none" /\ ~update'.current
        /\ update'.number = 0 /\ Open(update') = 0
    BY NoneChange DEF FailUpdate
  <1>2. (LoadsTypeOK /\ ConfigInv)'
    BY LoadsKept, ConfigKept DEF FailUpdate, discovery, settings
  <1>3. ServerTypeOK'
    BY BoundsAssumption DEF FailUpdate, Fault, ServerTypeOK
  <1>4. UsageTypeOK'
    BY DEF FailUpdate, Fault, UsageTypeOK
  <1>5. ChangesTypeOK'
    BY <1>1 DEF FailUpdate, ChangesTypeOK
  <1>6. Awaited'
    BY DEF FailUpdate, discovery, settings, Awaited
  <1>7. NotOrphaned'
    BY DEF FailUpdate, Heeded, NotOrphaned
  <1>8. CountInv'
    BY <1>1, OpenRange DEF FailUpdate, Fault, ServerTypeOK, CountInv
  <1>9. ReadInv'
    BY DEF FailUpdate, ReadInv
  <1>10. BusyInv'
    BY <1>1 DEF FailUpdate, BusyInv, Heard
  <1> QED BY <1>2, <1>3, <1>4, <1>5, <1>6, <1>7, <1>8, <1>9, <1>10 DEF FailUpdate

(* The team's requests touch nothing else of the page until one is acknowledged. *)
LEMMA MountTeamKeeps == ASSUME PageInv, MountTeam PROVE PageInv'
  <1> USE DEF PageInv, TypeOK
  <1>1. /\ team' \in Changes /\ team'.at = "loading" /\ team'.current
        /\ team'.number = 0 /\ Open(team') = 0
    BY SentChange DEF MountTeam, Steps
  <1>2. (/\ ServerTypeOK /\ UsageTypeOK /\ LoadsTypeOK /\ Awaited /\ NotOrphaned
         /\ ReadInv /\ ConfigInv /\ BusyInv)'
    BY ServerKept, UsageKept, LoadsKept, AwaitedKept, NotOrphanedKept, ReadKept,
       ConfigKept, BusyKept
       DEF MountTeam, OnlyTeam, usage, discovery, settings, server
  <1>3. ChangesTypeOK'
    BY <1>1 DEF MountTeam, OnlyTeam, ChangesTypeOK
  <1>4. CountInv'
    BY <1>1, OpenRange DEF MountTeam, OnlyTeam, server, ServerTypeOK, CountInv
  <1> QED BY <1>2, <1>3, <1>4 DEF MountTeam, OnlyTeam

LEMMA EndTeamLoadKeeps == ASSUME PageInv, EndTeamLoad PROVE PageInv'
  <1> USE DEF PageInv, TypeOK
  <1>1. /\ team' \in Changes /\ team'.at = "idle" /\ team'.current
        /\ team'.number = 0 /\ Open(team') = 0
    BY SentChange DEF EndTeamLoad, Steps
  <1>2. (/\ ServerTypeOK /\ UsageTypeOK /\ LoadsTypeOK /\ Awaited /\ NotOrphaned
         /\ ReadInv /\ ConfigInv /\ BusyInv)'
    BY ServerKept, UsageKept, LoadsKept, AwaitedKept, NotOrphanedKept, ReadKept,
       ConfigKept, BusyKept
       DEF EndTeamLoad, OnlyTeam, usage, discovery, settings, server
  <1>3. ChangesTypeOK'
    BY <1>1 DEF EndTeamLoad, OnlyTeam, ChangesTypeOK
  <1>4. CountInv'
    BY <1>1, OpenRange DEF EndTeamLoad, OnlyTeam, server, ServerTypeOK, CountInv
  <1> QED BY <1>2, <1>3, <1>4 DEF EndTeamLoad, OnlyTeam

LEMMA ReloadTeamsKeeps == ASSUME PageInv, ReloadTeams PROVE PageInv'
  <1> USE DEF PageInv, TypeOK
  <1>1. /\ team' \in Changes /\ team'.at = "loading" /\ team'.current
        /\ team'.number = 0 /\ Open(team') = 0
    BY SentChange DEF ReloadTeams, Steps
  <1>2. (/\ ServerTypeOK /\ UsageTypeOK /\ LoadsTypeOK /\ Awaited /\ NotOrphaned
         /\ ReadInv /\ ConfigInv /\ BusyInv)'
    BY ServerKept, UsageKept, LoadsKept, AwaitedKept, NotOrphanedKept, ReadKept,
       ConfigKept, BusyKept
       DEF ReloadTeams, OnlyTeam, usage, discovery, settings, server
  <1>3. ChangesTypeOK'
    BY <1>1 DEF ReloadTeams, OnlyTeam, ChangesTypeOK
  <1>4. CountInv'
    BY <1>1, OpenRange DEF ReloadTeams, OnlyTeam, server, ServerTypeOK, CountInv
  <1> QED BY <1>2, <1>3, <1>4 DEF ReloadTeams, OnlyTeam

LEMMA SaveTeamKeeps == ASSUME PageInv, SaveTeam PROVE PageInv'
  <1> USE DEF PageInv, TypeOK
  <1>1. /\ team' \in Changes /\ team'.at = "posted" /\ team'.current
        /\ team'.number = 0 /\ Open(team') = 1
    BY SentChange DEF SaveTeam, Steps
  <1>2. (/\ UsageTypeOK /\ LoadsTypeOK /\ Awaited /\ NotOrphaned /\ ReadInv
         /\ ConfigInv /\ BusyInv)'
    BY UsageKept, LoadsKept, AwaitedKept, NotOrphanedKept, ReadKept, ConfigKept,
       BusyKept
       DEF SaveTeam, OnlyTeam, Begin, usage, discovery, settings
  <1>3. ServerTypeOK'
    BY BoundsAssumption DEF SaveTeam, OnlyTeam, Begin, ServerTypeOK
  <1>4. ChangesTypeOK'
    BY <1>1 DEF SaveTeam, OnlyTeam, ChangesTypeOK
  <1>5. CountInv'
    BY <1>1, OpenRange DEF SaveTeam, OnlyTeam, Begin, ServerTypeOK, CountInv
  <1> QED BY <1>2, <1>3, <1>4, <1>5 DEF SaveTeam, OnlyTeam

LEMMA ApplyTeamKeeps == ASSUME PageInv, ApplyTeam PROVE PageInv'
  <1> USE DEF PageInv, TypeOK
  <1>1. team \in Changes /\ world + 1 \in Nat /\ Open(team) = 1 /\ team.at # "none"
    BY DEF ApplyTeam, ChangesTypeOK, ServerTypeOK, Open
  <1>2. /\ team' \in Changes /\ team'.at = "applied" /\ team'.current = team.current
        /\ team'.number = world + 1 /\ Open(team') = 0
    BY <1>1, AppliedChange DEF ApplyTeam
  <1>3. (LoadsTypeOK /\ Awaited /\ NotOrphaned /\ ReadInv /\ ConfigInv /\ BusyInv)'
    BY LoadsKept, AwaitedKept, NotOrphanedKept, ReadKept, ConfigKept, BusyKept
       DEF ApplyTeam, OnlyTeam, usage, discovery, settings
  <1>4. ServerTypeOK'
    BY OpenRange DEF ApplyTeam, OnlyTeam, Apply, ServerTypeOK, CountInv
  <1>5. UsageTypeOK'
    BY DEF ApplyTeam, OnlyTeam, Apply, usage, ServerTypeOK, UsageTypeOK
  <1>6. ChangesTypeOK'
    BY <1>2 DEF ApplyTeam, OnlyTeam, ChangesTypeOK
  <1>7. CountInv'
    BY <1>2, OpenRange
       DEF ApplyTeam, OnlyTeam, Apply, ServerTypeOK, CountInv, ChangesTypeOK,
           Changes
  <1> QED BY <1>3, <1>4, <1>5, <1>6, <1>7 DEF ApplyTeam, OnlyTeam

(* An acknowledged team replaces the pending read. *)
LEMMA AckTeamKeeps == ASSUME PageInv, AckTeam PROVE PageInv'
  <1> USE DEF PageInv, TypeOK
  <1>1. /\ team' \in Changes /\ team'.at = "idle" /\ team'.current
        /\ team'.number = 0 /\ Open(team') = 0
    BY SentChange DEF AckTeam, Steps
  <1>2. /\ update \in Changes /\ reads \subseteq Reads(world) /\ world \in Nat
        /\ saving \in BOOLEAN /\ updating \in BOOLEAN
    BY DEF ChangesTypeOK, UsageTypeOK, ServerTypeOK, Reads
  <1>3. FetchProviders(TRUE, saving, updating, update)
    BY DEF AckTeam
  <1>4. FetchOutcome(TRUE, saving, updating, update)
    BY <1>2, <1>3, Fetched
  <1>5. /\ Left(update) \in Changes /\ ~Left(update).current
        /\ Left(update).number = update.number /\ Open(Left(update)) = Open(update)
    BY LeftChange DEF ChangesTypeOK
  <1>6. Read.current /\ Read.since = world
    BY ReadBegins DEF ServerTypeOK
  <1>7. (LoadsTypeOK /\ ConfigInv)'
    BY LoadsKept, ConfigKept DEF AckTeam, discovery, settings
  <1>8. ServerTypeOK'
    BY DEF AckTeam, server, ServerTypeOK, CountInv, ChangesTypeOK, Changes
  <1>9. UsageTypeOK'
    BY <1>4
       DEF AckTeam, FetchStarted, FetchSkipped, FetchOutcome, usage, server,
           UsageTypeOK, Reads
  <1>10. ChangesTypeOK'
    BY <1>1, <1>4, <1>5
       DEF AckTeam, FetchStarted, FetchSkipped, FetchOutcome, ChangesTypeOK
  <1>11. Awaited'
    BY <1>4, <1>6
       DEF AckTeam, FetchStarted, FetchSkipped, FetchOutcome, usage, discovery,
           settings, Awaited
  <1>12. NotOrphaned'
    BY <1>4 DEF AckTeam, FetchSkipped, FetchOutcome, NotOrphaned
  <1>13. CountInv'
    BY <1>1, <1>4, <1>5, OpenRange
       DEF AckTeam, FetchStarted, FetchSkipped, FetchOutcome, server, ServerTypeOK,
           CountInv
  <1>14. ReadInv'
    BY <1>4, <1>6
       DEF AckTeam, FetchStarted, FetchSkipped, FetchOutcome, usage, UsageTypeOK,
           ReadInv, CountInv, Awaited
  <1>15. BusyInv'
    BY <1>4, <1>5
       DEF AckTeam, FetchStarted, FetchSkipped, FetchOutcome, BusyInv, Heard
  <1> QED BY <1>7, <1>8, <1>9, <1>10, <1>11, <1>12, <1>13, <1>14, <1>15 DEF AckTeam

LEMMA FailTeamKeeps == ASSUME PageInv, FailTeam PROVE PageInv'
  <1> USE DEF PageInv, TypeOK
  <1>1. /\ team' \in Changes /\ team'.at = "idle" /\ team'.current
        /\ team'.number = 0 /\ Open(team') = 0
    BY SentChange DEF FailTeam, Steps
  <1>2. (/\ UsageTypeOK /\ LoadsTypeOK /\ Awaited /\ NotOrphaned /\ ReadInv
         /\ ConfigInv /\ BusyInv)'
    BY UsageKept, LoadsKept, AwaitedKept, NotOrphanedKept, ReadKept, ConfigKept,
       BusyKept
       DEF FailTeam, OnlyTeam, Fault, usage, discovery, settings
  <1>3. ServerTypeOK'
    BY BoundsAssumption DEF FailTeam, OnlyTeam, Fault, ServerTypeOK
  <1>4. ChangesTypeOK'
    BY <1>1 DEF FailTeam, OnlyTeam, ChangesTypeOK
  <1>5. CountInv'
    BY <1>1, OpenRange DEF FailTeam, OnlyTeam, Fault, ServerTypeOK, CountInv
  <1> QED BY <1>2, <1>3, <1>4, <1>5 DEF FailTeam, OnlyTeam

LEMMA UnmountTeamKeeps == ASSUME PageInv, UnmountTeam PROVE PageInv'
  <1> USE DEF PageInv, TypeOK
  <1>1. /\ team' \in Changes /\ team'.at = "none" /\ ~team'.current
        /\ team'.number = 0 /\ Open(team') = 0
    BY NoneChange DEF UnmountTeam
  <1>2. (/\ ServerTypeOK /\ UsageTypeOK /\ LoadsTypeOK /\ Awaited /\ NotOrphaned
         /\ ReadInv /\ ConfigInv /\ BusyInv)'
    BY ServerKept, UsageKept, LoadsKept, AwaitedKept, NotOrphanedKept, ReadKept,
       ConfigKept, BusyKept
       DEF UnmountTeam, OnlyTeam, usage, discovery, settings, server
  <1>3. ChangesTypeOK'
    BY <1>1 DEF UnmountTeam, OnlyTeam, ChangesTypeOK
  <1>4. CountInv'
    BY <1>1, OpenRange DEF UnmountTeam, OnlyTeam, server, ServerTypeOK, CountInv
  <1> QED BY <1>2, <1>3, <1>4 DEF UnmountTeam, OnlyTeam

(* A page that is left waits for nothing. *)
LEMMA UnmountKeeps == ASSUME PageInv, Unmount PROVE PageInv'
  <1> USE DEF PageInv, TypeOK
  <1>1. /\ save' \in Changes /\ save'.at = save.at
        /\ save'.number = save.number /\ ~save'.current /\ Open(save') = Open(save)
    BY LeftChange DEF Unmount, ChangesTypeOK
  <1>2. /\ update' \in Changes /\ update'.at = update.at
        /\ update'.number = update.number /\ ~update'.current /\ Open(update') = Open(update)
    BY LeftChange DEF Unmount, ChangesTypeOK
  <1>3. /\ team' \in Changes /\ team'.at = "none" /\ ~team'.current
        /\ team'.number = 0 /\ Open(team') = 0
    BY NoneChange DEF Unmount
  <1>4. /\ reads' \subseteq Reads(world)
        /\ \A q \in reads' : ~q.current
    BY OlderReads DEF Unmount, UsageTypeOK, ServerTypeOK, Reads
  <1>5. (ServerTypeOK)'
    BY ServerKept DEF Unmount, server
  <1>6. UsageTypeOK'
    BY <1>4 DEF Unmount, server, UsageTypeOK, Reads
  <1>7. LoadsTypeOK'
    BY SupersededStale DEF Unmount, LoadsTypeOK
  <1>8. ChangesTypeOK'
    BY <1>1, <1>2, <1>3 DEF Unmount, ChangesTypeOK
  <1>9. Awaited'
    BY DEF Unmount, Awaited
  <1>10. NotOrphaned'
    BY DEF Unmount, NotOrphaned
  <1>11. CountInv'
    BY <1>1, <1>2, <1>3, OpenRange DEF Unmount, server, ServerTypeOK, CountInv
  <1>12. ReadInv'
    BY DEF Unmount, ReadInv
  <1>13. ConfigInv'
    BY DEF Unmount, ConfigInv
  <1>14. BusyInv'
    BY DEF Unmount, BusyInv
  <1> QED
    BY <1>5, <1>6, <1>7, <1>8, <1>9, <1>10, <1>11, <1>12, <1>13, <1>14 DEF Unmount

(* A change of somebody else's is applied as it begins. *)
LEMMA OtherChangeKeeps == ASSUME PageInv, OtherChange PROVE PageInv'
  <1> USE DEF PageInv, TypeOK
  <1>1. (/\ LoadsTypeOK /\ ChangesTypeOK /\ Awaited /\ NotOrphaned /\ ReadInv
         /\ ConfigInv /\ BusyInv)'
    BY LoadsKept, ChangesKept, AwaitedKept, NotOrphanedKept, ReadKept, ConfigKept,
       BusyKept
       DEF OtherChange, usage, discovery, settings
  <1>2. ServerTypeOK'
    BY BoundsAssumption DEF OtherChange, ServerTypeOK
  <1>3. UsageTypeOK'
    BY DEF OtherChange, usage, ServerTypeOK, UsageTypeOK
  <1>4. CountInv'
    BY OpenRange DEF OtherChange, ServerTypeOK, CountInv, ChangesTypeOK, Changes
  <1> QED BY <1>1, <1>2, <1>3, <1>4 DEF OtherChange

-----------------------------------------------------------------------------
(* Nothing that the page waits for changes in a step that leaves it alone. *)
LEMMA StutterKeeps == ASSUME PageInv, UNCHANGED vars PROVE PageInv'
  <1>1. /\ UNCHANGED <<mounted, world, changes, failures, shown, loading, pending, reads>>
        /\ UNCHANGED <<scanning, scans, config, configReads>>
        /\ UNCHANGED <<saving, save, updating, update, team, acked>>
    BY DEF vars, usage, discovery, settings, server
  <1> QED
    BY <1>1, ServerKept, UsageKept, LoadsKept, ChangesKept, AwaitedKept,
       NotOrphanedKept, CountKept, ReadKept, ConfigKept, BusyKept
       DEF PageInv, TypeOK

(* Every step of the page preserves the invariant. *)
LEMMA StepPage == PageInv /\ [Next]_vars => PageInv'
  <1> SUFFICES ASSUME PageInv, [Next]_vars PROVE PageInv'
    OBVIOUS
  <1>1. CASE Usage
    BY <1>1, TickKeeps, AnswerReadKeeps, FailReadKeeps DEF Usage
  <1>2. CASE Loads
    BY <1>2, RescanKeeps, EndScanKeeps, LoadConfigKeeps, AnswerConfigKeeps,
       FailConfigKeeps DEF Loads
  <1>3. CASE Save
    BY <1>3, SaveConfigKeeps, PatchConfigKeeps, ApplySaveKeeps, AckSaveKeeps,
       FailSaveKeeps DEF Save
  <1>4. CASE Update
    BY <1>4, UpdateCodexbarKeeps, ApplyUpdateKeeps, AckUpdateKeeps,
       FailUpdateKeeps DEF Update
  <1>5. CASE Team
    BY <1>5, MountTeamKeeps, EndTeamLoadKeeps, ReloadTeamsKeeps, SaveTeamKeeps,
       ApplyTeamKeeps, AckTeamKeeps, FailTeamKeeps, UnmountTeamKeeps DEF Team
  <1>6. CASE Unmount
    BY <1>6, UnmountKeeps
  <1>7. CASE OtherChange
    BY <1>7, OtherChangeKeeps
  <1>8. CASE UNCHANGED vars
    BY <1>8, StutterKeeps
  <1> QED BY <1>1, <1>2, <1>3, <1>4, <1>5, <1>6, <1>7, <1>8 DEF Next

(* Only an answer that is heeded changes what is shown. *)
LEMMA ShownChanges ==
    ASSUME [Next]_vars, shown' # shown
    PROVE  \E r \in reads : AnswerRead(r) /\ Heeded(r)
  <1>1. CASE Usage
    <2>1. CASE Tick
      BY <2>1 DEF Tick, FetchProviders, usage
    <2>2. CASE \E r \in reads : AnswerRead(r)
      BY <2>2 DEF AnswerRead
    <2>3. CASE \E r \in reads : FailRead(r)
      BY <2>3 DEF FailRead
    <2> QED BY <1>1, <2>1, <2>2, <2>3 DEF Usage
  <1>2. CASE Loads
    BY <1>2 DEF Loads, Rescan, EndScan, LoadConfig, AnswerConfig, FailConfig, usage
  <1>3. CASE Save
    <2>1. CASE AckSave
      BY <2>1 DEF AckSave, FetchProviders, usage
    <2>2. CASE SaveConfig \/ PatchConfig \/ ApplySave \/ FailSave
      BY <2>2 DEF SaveConfig, PatchConfig, ApplySave, FailSave, usage
    <2> QED BY <1>3, <2>1, <2>2 DEF Save
  <1>4. CASE Update
    <2>1. CASE AckUpdate
      BY <2>1 DEF AckUpdate, FetchProviders, usage
    <2>2. CASE UpdateCodexbar \/ ApplyUpdate \/ FailUpdate
      BY <2>2 DEF UpdateCodexbar, ApplyUpdate, FailUpdate, usage
    <2> QED BY <1>4, <2>1, <2>2 DEF Update
  <1>5. CASE Team
    <2>1. CASE AckTeam
      BY <2>1 DEF AckTeam, FetchProviders, usage
    <2>2. CASE OnlyTeam
      BY <2>2 DEF OnlyTeam, usage
    <2> QED
      BY <1>5, <2>1, <2>2
         DEF Team, MountTeam, EndTeamLoad, ReloadTeams, SaveTeam, ApplyTeam,
             FailTeam, UnmountTeam
  <1>6. CASE Unmount \/ OtherChange \/ UNCHANGED vars
    BY <1>6 DEF Unmount, OtherChange, vars, usage
  <1> QED BY <1>1, <1>2, <1>3, <1>4, <1>5, <1>6 DEF Next

(* What is shown goes forward, past every acknowledged change. *)
LEMMA ShownForward ==
    ASSUME PageInv, [Next]_vars, shown' # shown
    PROVE  shown' > shown /\ shown' >= acked /\ mounted
  <1>1. PICK r \in reads : AnswerRead(r) /\ Heeded(r)
    BY ShownChanges
  <1>2. shown' \in r.since..world /\ mounted /\ r.current
    BY <1>1 DEF AnswerRead, Heeded
  <1>3. shown <= r.since /\ acked <= r.since
    BY <1>2 DEF PageInv, ReadInv
  <1>4. shown \in Int /\ acked \in Int /\ world \in Int /\ r.since \in Int
    BY DEF PageInv, TypeOK, UsageTypeOK, ServerTypeOK, Nothing
  <1> QED BY <1>2, <1>3, <1>4

-----------------------------------------------------------------------------
(* The invariant holds however requests interleave, fail and outlive the page. *)
THEOREM PageCorrect == Spec => []PageInv
  BY InitPage, StepPage, PTL DEF Spec

(* No more is applied, acknowledged or shown than was begun. *)
THEOREM TypeCorrect == Spec => []TypeOK
  <1>1. PageInv => TypeOK
    BY DEF PageInv
  <1> QED BY PageCorrect, <1>1, PTL

(* fetchProviders, loadDiscovery, loadConfig: what the page waits for is in *)
(* flight and will be heeded.                                               *)
THEOREM AwaitedHolds == Spec => []Awaited
  <1>1. PageInv => Awaited
    BY DEF PageInv
  <1> QED BY PageCorrect, <1>1, PTL

(* saveConfig, updateCodexbar: a busy page has its request in flight. *)
THEOREM NotOrphanedHolds == Spec => []NotOrphaned
  <1>1. PageInv => NotOrphaned
    BY DEF PageInv
  <1> QED BY PageCorrect, <1>1, PTL

(* fetchProviders: the usage never goes back. *)
THEOREM NeverBackHolds == Spec => NeverBack
  <1>1. PageInv /\ [Next]_vars =>
          [shown' # shown => shown' > shown /\ shown' >= acked /\ mounted]_vars
    BY ShownForward
  <1> QED BY PageCorrect, <1>1, PTL DEF Spec, NeverBack

=============================================================================
