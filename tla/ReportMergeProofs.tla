--------------------------- MODULE ReportMergeProofs ---------------------------
(***************************************************************************)
(* Proofs about ReportMerge, for any providers and any configuration.      *)
(***************************************************************************)
EXTENDS ReportMerge, TLAPS

LEMMA EmptyFields ==
    /\ EmptyConfig.paused = {}
    /\ EmptyConfig.allow = {}
    /\ EmptyConfig.credentials = {}
  BY DEF EmptyConfig, Config

LEMMA ConfigFields ==
  ASSUME NEW c \in Configs \union {EmptyConfig}
  PROVE  /\ c.paused \subseteq Ids
         /\ c.credentials \subseteq {Augment}
         /\ c.allow \in (SUBSET Ids) \union {{All}}
  <1>1. CASE c \in Configs
    BY <1>1, ProvidersAssumption DEF AllConfigs
  <1>2. CASE c = EmptyConfig
    BY <1>2, EmptyFields
  <1> QED BY <1>1, <1>2

LEMMA CursorAugment ==
    /\ Cursor \in Ids /\ Augment \in Ids /\ Augment # Cursor
    /\ All \notin Ids
    /\ Defaults \subseteq Ids /\ Defaults # {}
  BY ProvidersAssumption DEF Ids

\* The list that CodexBar is asked for: providers, or the sweep.
LEMMA ListOfTyped ==
  ASSUME NEW c \in Configs \union {EmptyConfig}
  PROVE  /\ ListOf(c) \ {Augment} \in (SUBSET Ids) \union {{All}}
         /\ ListOf(c) \ {Augment} = {All} <=> c.allow = {All}
  <1>1. c.allow \in (SUBSET Ids) \union {{All}}
    BY ConfigFields
  <1> QED BY <1>1, CursorAugment DEF ListOf

LEMMA ReadsTyped ==
  ASSUME TypeOK
  PROVE  /\ Reads \subseteq Configs \union {EmptyConfig}
         /\ Reads \subseteq {config, EmptyConfig}
  BY DEF TypeOK, Reads

LEMMA ReadsSteady ==
  ASSUME "host" \notin Faults
  PROVE  Reads = IF ctx = "over" THEN {EmptyConfig} ELSE {config}
  BY DEF Reads

-----------------------------------------------------------------------------
(* Type correctness. *)

LEMMA QueryTyped ==
  ASSUME TypeOK, QueryProviders
  PROVE  new' \subseteq Ids /\ failed' \subseteq Ids \union {All}
         /\ silent' \subseteq Ids
  <1>1. CASE asked = {All} /\ Answers(Ids)
    BY <1>1 DEF Answers
  <1>2. CASE failed' = {All} /\ UNCHANGED <<new, silent>>
    BY <1>2 DEF TypeOK
  <1>3. ASSUME asked # {All}, NEW c \in Reads, Answers(asked \ c.paused)
        PROVE  new' \subseteq Ids /\ failed' \subseteq Ids /\ silent' \subseteq Ids
    <2>1. asked \subseteq Ids
      BY <1>3 DEF TypeOK
    <2> QED BY <1>3, <2>1 DEF Answers
  <1> QED BY <1>1, <1>2, <1>3 DEF QueryProviders

LEMMA PublishTyped ==
  ASSUME TypeOK, Publish
  PROVE  shown' \subseteq Ids /\ marks' \subseteq Ids \union {All}
  <1>1. CASE UNCHANGED snapshot
    BY <1>1 DEF TypeOK, snapshot
  <1>2. ASSUME NEW c \in Reads, shown' = Listed(new) \union Retained(c),
               marks' = Failures(c)
        PROVE  shown' \subseteq Ids /\ marks' \subseteq Ids \union {All}
    <2>1. Expanded(c) \subseteq Ids
      BY DEF TypeOK, Expanded
    <2>2. Failures(c) \subseteq Ids \union {All}
      BY <2>1 DEF TypeOK, Failures, Listed
    <2>3. Retained(c) \subseteq Ids /\ Listed(new) \subseteq Ids
      BY DEF TypeOK, Retained, Retainable, Listed
    <2> QED BY <1>2, <2>2, <2>3
  <1> QED BY <1>1, <1>2 DEF Publish

LEMMA TypeStep == TypeOK /\ [Next]_vars => TypeOK'
  <1> SUFFICES ASSUME TypeOK, [Next]_vars PROVE TypeOK'
    OBVIOUS
  <1> USE DEF place, report, snapshot
  <1>1. CASE Begin
    BY <1>1 DEF TypeOK, Begin
  <1>2. CASE Expire
    BY <1>2 DEF TypeOK, Expire
  <1>3. CASE StartReport
    BY <1>3, ReadsTyped DEF TypeOK, StartReport
  <1>4. CASE Probe
    BY <1>4 DEF TypeOK, Probe
  <1>5. CASE ReadAllowlist
    <2>1. asked' \in (SUBSET Ids) \union {{All}}
      BY <1>5, ListOfTyped, ReadsTyped DEF ReadAllowlist
    <2> QED BY <1>5, <2>1 DEF TypeOK, ReadAllowlist
  <1>6. CASE QueryProviders
    BY <1>6, QueryTyped DEF TypeOK, QueryProviders
  <1>7. CASE CheckCursor
    BY <1>7 DEF TypeOK, CheckCursor
  <1>8. CASE FetchCursor
    BY <1>8, CursorAugment
       DEF TypeOK, FetchCursor, CursorUsage, CursorUnverified, CursorFailed
  <1>9. CASE AppendAugment
    BY <1>9, CursorAugment DEF TypeOK, AppendAugment
  <1>10. CASE Publish
    <2>1. pc' \in {"idle", "config"}
      BY <1>10 DEF Publish
    <2> QED BY <1>10, <2>1, PublishTyped DEF TypeOK, Publish
  <1>11. CASE DropSnapshot
    BY <1>11 DEF TypeOK, DropSnapshot
  <1>12. CASE UNCHANGED vars
    BY <1>12 DEF TypeOK, vars
  <1> QED
    BY <1>1, <1>2, <1>3, <1>4, <1>5, <1>6, <1>7, <1>8, <1>9, <1>10, <1>11,
       <1>12 DEF Next, Collect

\* Every variable keeps its type, for any providers, configurations and faults.
THEOREM TypeCorrect == Spec => []TypeOK
  <1>1. Init => TypeOK
    BY DEF Init, TypeOK
  <1> QED BY <1>1, TypeStep, PTL DEF Spec

-----------------------------------------------------------------------------
(* The filter: nothing paused is shown. *)

LEMMA FilterStep ==
  ASSUME "host" \notin Faults
  PROVE  TypeOK /\ FilterInv /\ [Next]_vars => FilterInv'
  <1> SUFFICES ASSUME TypeOK, FilterInv, [Next]_vars PROVE FilterInv'
    OBVIOUS
  <1> USE DEF place, report, snapshot, FilterInv, PausedStaysOut, Collecting
  <1>1. CASE Begin
    BY <1>1 DEF Begin
  <1>2. CASE Expire
    BY <1>2 DEF Expire
  <1>3. CASE StartReport
    BY <1>3, ReadsSteady DEF TypeOK, StartReport
  <1>4. CASE Probe
    BY <1>4 DEF TypeOK, Probe
  <1>5. CASE ReadAllowlist
    BY <1>5 DEF ReadAllowlist
  <1>6. CASE QueryProviders
    BY <1>6 DEF QueryProviders
  <1>7. CASE CheckCursor
    BY <1>7 DEF CheckCursor
  <1>8. CASE FetchCursor
    BY <1>8
       DEF TypeOK, FetchCursor, CursorUsage, CursorUnverified, CursorFailed
  <1>9. CASE AppendAugment
    <2>1. Reads = {EmptyConfig} \/ ctx = "live"
      BY ReadsSteady DEF TypeOK
    <2> QED BY <1>9, <2>1, EmptyFields DEF AppendAugment
  <1>10. CASE Publish
    <2>1. pc' \in {"idle", "config"} /\ config' = config
      BY <1>10 DEF Publish
    <2>2. Listed(new) \intersect config.paused = {}
      BY <1>10 DEF Publish, Listed
    <2>3. ASSUME NEW c PROVE Retained(c) \subseteq shown
      BY DEF Retained, Retainable
    <2> QED BY <1>10, <2>1, <2>2, <2>3 DEF Publish
  <1>11. CASE DropSnapshot
    BY <1>11 DEF DropSnapshot
  <1>12. CASE UNCHANGED vars
    BY <1>12 DEF vars
  <1> QED
    BY <1>1, <1>2, <1>3, <1>4, <1>5, <1>6, <1>7, <1>8, <1>9, <1>10, <1>11,
       <1>12 DEF Next, Collect

\* disabled_providers: while the host answers GetConfig, no rebuild puts usage
\* of a paused provider into the snapshot, wherever its deadline passes.
THEOREM PausedStaysOutSafe ==
  ASSUME "host" \notin Faults
  PROVE  Spec => []PausedStaysOut
  <1>1. Init => FilterInv
    BY DEF Init, FilterInv, PausedStaysOut, Collecting
  <1>2. FilterInv => PausedStaysOut
    BY DEF FilterInv
  <1> QED BY <1>1, <1>2, FilterStep, TypeCorrect, PTL DEF Spec

-----------------------------------------------------------------------------
(* Verification: an unverified Cursor is not shown. *)

LEMMA VerifyStep == TypeOK /\ VerifyInv /\ [Next]_vars => VerifyInv'
  <1> SUFFICES ASSUME TypeOK, VerifyInv, [Next]_vars PROVE VerifyInv'
    OBVIOUS
  <1> USE DEF place, report, snapshot, VerifyInv, Collecting
  <1>1. CASE Begin
    BY <1>1 DEF Begin
  <1>2. CASE Expire
    BY <1>2 DEF Expire
  <1>3. CASE StartReport
    BY <1>3 DEF StartReport
  <1>4. CASE Probe
    BY <1>4 DEF TypeOK, Probe
  <1>5. CASE ReadAllowlist
    BY <1>5 DEF ReadAllowlist
  <1>6. CASE QueryProviders
    BY <1>6 DEF QueryProviders
  <1>7. CASE CheckCursor
    BY <1>7 DEF CheckCursor
  <1>8. CASE FetchCursor
    BY <1>8 DEF FetchCursor, CursorUsage, CursorUnverified, CursorFailed
  <1>9. CASE AppendAugment
    BY <1>9, CursorAugment DEF AppendAugment
  <1>10. CASE Publish
    BY <1>10 DEF Publish
  <1>11. CASE DropSnapshot
    BY <1>11 DEF DropSnapshot
  <1>12. CASE UNCHANGED vars
    BY <1>12 DEF vars
  <1> QED
    BY <1>1, <1>2, <1>3, <1>4, <1>5, <1>6, <1>7, <1>8, <1>9, <1>10, <1>11,
       <1>12 DEF Next, Collect

\* A failed team lookup never shows CodexBar's unscoped quota, nor a retained
\* value, with any fault anywhere.
THEOREM UnverifiedCursorOutSafe == Spec => UnverifiedCursorOut
  <1>1. Init => VerifyInv
    BY DEF Init, VerifyInv, Collecting
  <1>2. ASSUME TypeOK, VerifyInv, Publishes, barred = {Cursor}
        PROVE  Cursor \notin shown'
    <2>1. Cursor \notin Listed(new)
      BY <1>2 DEF VerifyInv, Publishes, Publish, Listed
    <2>2. ASSUME NEW c PROVE Cursor \notin Retained(c)
      BY <1>2 DEF Retained, Retainable
    <2> QED BY <1>2, <2>1, <2>2 DEF Publishes, Publish
  <1>3. TypeOK /\ VerifyInv =>
          [Publishes /\ barred = {Cursor} => Cursor \notin shown']_vars
    BY <1>2
  <1> QED
    BY <1>1, <1>3, VerifyStep, TypeCorrect, PTL DEF Spec, UnverifiedCursorOut

-----------------------------------------------------------------------------
(* Retention: what merely failed is lost in two cases at most. *)

\* Where usage may come from when CodexBar is asked for the operator's list.
LEMMA PolledAsked ==
  ASSUME TypeOK
  PROVE  /\ config.allow = {All} => Polled = Ids
         /\ ListOf(config) \ {Augment} = {All} => Polled = Ids
         /\ ListOf(config) \ {Augment} # {All}
              => Polled = ListOf(config) \ {Augment}
         /\ Polled \subseteq Ids
         /\ config.credentials \subseteq {Augment}
         /\ Sources \subseteq Ids
  <1>1. config \in Configs
    BY DEF TypeOK
  <1> QED BY <1>1, ListOfTyped, ConfigFields, CursorAugment DEF Polled, Sources

\* Cursor and the sweep: Cursor is asked for by enrichCursor only when the
\* operator's list has it.
LEMMA CursorPolled ==
  ASSUME TypeOK, {Cursor, All} \intersect ListOf(config) # {}
  PROVE  Cursor \in Polled
  <1>1. config \in Configs
    BY DEF TypeOK
  <1>2. config.allow \in (SUBSET Ids) \union {{All}}
    BY <1>1, ConfigFields
  <1> QED BY <1>2, CursorAugment DEF Polled, ListOf

LEMMA QuerySources ==
  ASSUME "host" \notin Faults, TypeOK, FilterInv, SourceInv, QueryProviders
  PROVE  new' \subseteq Sources
  <1>1. CASE asked = {All} /\ ctx = "live" /\ Answers(Ids)
    <2>1. asked = ListOf(config) \ {Augment}
      BY <1>1 DEF SourceInv, QueryProviders
    <2>2. Polled = Ids
      BY <1>1, <2>1, PolledAsked
    <2> QED BY <1>1, <2>2 DEF Answers, Sources
  <1>2. CASE UNCHANGED <<new, silent>>
    BY <1>2 DEF SourceInv, QueryProviders
  <1>3. ASSUME asked # {All}, NEW c \in Reads, Answers(asked \ c.paused)
        PROVE  new' \subseteq Sources
    <2>1. CASE ctx = "over"
      BY <1>3, <2>1 DEF Answers
    <2>2. CASE ctx = "live"
      <3>1. asked = Polled
        BY <1>3, <2>2, PolledAsked DEF SourceInv, QueryProviders
      <3> QED BY <1>3, <3>1 DEF Answers, Sources
    <2> QED BY <2>1, <2>2 DEF TypeOK
  <1> QED BY <1>1, <1>2, <1>3 DEF QueryProviders

LEMMA FetchSources ==
  ASSUME "host" \notin Faults, TypeOK, SourceInv, FetchCursor
  PROVE  new' \subseteq Sources
  <1>1. new \subseteq Sources
    BY DEF SourceInv, FetchCursor
  <1>2. CASE CursorUsage
    <2>1. Reads = {config}
      BY <1>2, ReadsSteady DEF CursorUsage
    <2>2. Cursor \in new \/ {Cursor, All} \intersect ListOf(config) # {}
      <3>1. new' = new \union {Cursor}
        BY <1>2 DEF CursorUsage
      <3> QED BY <2>1, <3>1 DEF FetchCursor
    <2>3. Cursor \in Sources
      BY <1>1, <2>2, CursorPolled DEF Sources
    <2> QED BY <1>1, <1>2, <2>3 DEF CursorUsage
  <1>3. CASE CursorUnverified
    BY <1>1, <1>3 DEF CursorUnverified
  <1>4. CASE CursorFailed
    BY <1>1, <1>4 DEF CursorFailed
  <1>5. CASE UNCHANGED <<new, failed, barred>>
    BY <1>1, <1>5
  <1>6. \/ CursorUsage \/ CursorUnverified \/ CursorFailed
        \/ UNCHANGED <<new, failed, barred>>
    BY DEF FetchCursor
  <1> QED BY <1>2, <1>3, <1>4, <1>5, <1>6

LEMMA AugmentSources ==
  ASSUME "host" \notin Faults, TypeOK, SourceInv, AppendAugment
  PROVE  new' \subseteq Sources
  <1>1. new \subseteq Sources
    BY DEF SourceInv, AppendAugment
  <1>2. CASE ctx = "over"
    BY <1>1, <1>2, ReadsSteady, EmptyFields DEF AppendAugment
  <1>3. CASE ctx = "live"
    <2>1. config.credentials \subseteq {Augment} /\ Reads = {config}
      BY <1>3, PolledAsked, ReadsSteady
    <2> QED BY <1>1, <2>1 DEF AppendAugment, Sources
  <1> QED BY <1>2, <1>3 DEF TypeOK

LEMMA SourceStep ==
  ASSUME "host" \notin Faults
  PROVE  TypeOK /\ FilterInv /\ SourceInv /\ [Next]_vars => SourceInv'
  <1> SUFFICES ASSUME TypeOK, FilterInv, SourceInv, [Next]_vars
               PROVE  SourceInv'
    OBVIOUS
  <1> USE DEF place, report, snapshot
  <1>0. config' = config => Sources' = Sources
    BY DEF Sources, Polled, ListOf
  <1>1. CASE Begin
    BY <1>0, <1>1 DEF SourceInv, Begin
  <1>2. CASE Expire
    BY <1>0, <1>2 DEF SourceInv, Expire
  <1>3. CASE StartReport
    BY <1>0, <1>3 DEF SourceInv, StartReport
  <1>4. CASE Probe
    BY <1>0, <1>4 DEF SourceInv, Probe
  <1>5. CASE ReadAllowlist
    <2>1. UNCHANGED <<config, ctx, new, shown>> /\ pc = "allow" /\ pc' = "query"
      BY <1>5 DEF ReadAllowlist
    <2>2. PICK c \in Reads : asked' = ListOf(c) \ {Augment}
      BY <1>5 DEF ReadAllowlist
    <2>3. c = EmptyConfig => asked' = Defaults
      BY <2>2, EmptyFields, ProvidersAssumption DEF ListOf
    <2>4. c = config \/ (ctx = "over" /\ c = EmptyConfig)
      BY ReadsSteady
    <2>5. ListOf(config)' = ListOf(config)
      BY <2>1 DEF ListOf
    <2> QED BY <1>0, <2>1, <2>2, <2>3, <2>4, <2>5 DEF SourceInv
  <1>6. CASE QueryProviders
    BY <1>0, <1>6, QuerySources DEF SourceInv, QueryProviders
  <1>7. CASE CheckCursor
    BY <1>0, <1>7 DEF SourceInv, CheckCursor
  <1>8. CASE FetchCursor
    BY <1>0, <1>8, FetchSources DEF SourceInv, FetchCursor
  <1>9. CASE AppendAugment
    BY <1>0, <1>9, AugmentSources DEF SourceInv, AppendAugment
  <1>10. CASE Publish
    <2>1. Listed(new) \subseteq Sources
      BY <1>10 DEF SourceInv, Publish, Listed
    <2>2. ASSUME NEW c PROVE Retained(c) \subseteq Sources
      BY DEF SourceInv, Retained, Retainable
    <2>3. shown' \subseteq Sources
      BY <1>10, <2>1, <2>2 DEF SourceInv, Publish
    <2> QED BY <1>0, <1>10, <2>3 DEF SourceInv, Publish
  <1>11. CASE DropSnapshot
    BY <1>0, <1>11 DEF SourceInv, DropSnapshot
  <1>12. CASE UNCHANGED vars
    BY <1>0, <1>12 DEF SourceInv, vars, ListOf
  <1> QED
    BY <1>1, <1>2, <1>3, <1>4, <1>5, <1>6, <1>7, <1>8, <1>9, <1>10, <1>11,
       <1>12 DEF Next, Collect

\* CodexBar's answers, or its one failure, account for the operator's list; a
\* list read in vain accounts for the default providers.
LEMMA QueryCovers ==
  ASSUME "host" \notin Faults, TypeOK, SourceInv, QueryProviders,
         All \notin failed',
         NEW id \in Polled \ config.paused, ctx = "live" \/ id \in Defaults
  PROVE  id \in new' \union failed' \union silent'
  <1>1. CASE asked = {All} /\ Answers(Ids)
    BY <1>1, PolledAsked DEF Answers
  <1>2. CASE failed' = {All}
    BY <1>2
  <1>3. ASSUME asked # {All}, NEW c \in Reads, Answers(asked \ c.paused)
        PROVE  id \in new' \union failed' \union silent'
    <2>1. id \in asked
      BY <1>3, PolledAsked DEF SourceInv, QueryProviders, TypeOK
    <2>2. id \notin c.paused
      BY ReadsSteady, EmptyFields
    <2> QED BY <1>3, <2>1, <2>2 DEF Answers
  <1> QED BY <1>1, <1>2, <1>3 DEF QueryProviders

LEMMA FetchCovers ==
  ASSUME TypeOK, FetchCursor
  PROVE  /\ new \union failed \subseteq new' \union failed'
         /\ barred \subseteq barred'
         /\ All \in failed <=> All \in failed'
  <1>1. All # Cursor /\ barred \subseteq {Cursor}
    BY CursorAugment DEF TypeOK
  <1> QED
    BY <1>1 DEF FetchCursor, CursorUsage, CursorUnverified, CursorFailed

LEMMA AugmentCovers ==
  ASSUME "host" \notin Faults, TypeOK, AppendAugment
  PROVE  /\ new \subseteq new' /\ failed \subseteq failed'
         /\ All \in failed <=> All \in failed'
         /\ ctx = "live" =>
              config.credentials \ config.paused \subseteq new' \union failed'
  <1>1. ctx = "live" => Reads = {config}
    BY ReadsSteady
  <1>2. config.credentials \subseteq {Augment}
    BY PolledAsked
  <1> QED BY <1>1, <1>2, CursorAugment DEF AppendAugment

LEMMA CoverStep ==
  ASSUME "host" \notin Faults
  PROVE  TypeOK /\ SourceInv /\ CoverInv /\ [Next]_vars => CoverInv'
  <1> SUFFICES ASSUME TypeOK, SourceInv, CoverInv, [Next]_vars
               PROVE  CoverInv'
    OBVIOUS
  <1> USE DEF place, report, snapshot
  <1>0. config' = config => Polled' = Polled
    BY DEF Polled, ListOf
  <1>1. CASE Begin
    BY <1>1 DEF CoverInv, Begin
  <1>2. CASE Expire
    BY <1>0, <1>2 DEF CoverInv, Accounted, Expire
  <1>3. CASE StartReport
    BY <1>3 DEF CoverInv, StartReport
  <1>4. CASE Probe
    BY <1>4 DEF CoverInv, Probe
  <1>5. CASE ReadAllowlist
    BY <1>5 DEF CoverInv, ReadAllowlist
  <1>6. CASE QueryProviders
    <2>1. augmentAt' = "check" /\ config' = config /\ ctx' = ctx
      BY <1>6 DEF QueryProviders
    <2>2. pc' = "extras" /\ config' = config
      BY <1>6 DEF QueryProviders
    <2>3. All \notin failed' => Accounted'
      BY <1>0, <1>6, <2>1, QueryCovers DEF Accounted
    <2> QED BY <2>1, <2>2, <2>3 DEF CoverInv
  <1>7. CASE CheckCursor
    BY <1>0, <1>7 DEF CoverInv, Accounted, CheckCursor
  <1>8. CASE FetchCursor
    <2>1. UNCHANGED <<config, ctx, pc, augmentAt, cli, silent>>
      BY <1>8 DEF FetchCursor
    <2> QED BY <1>0, <1>8, <2>1, FetchCovers DEF CoverInv, Accounted, FetchCursor
  <1>9. CASE AppendAugment
    <2>1. UNCHANGED <<config, ctx, pc, cli, silent, barred>>
      BY <1>9 DEF AppendAugment
    <2> QED
      BY <1>0, <1>9, <2>1, AugmentCovers DEF CoverInv, Accounted, AppendAugment
  <1>10. CASE Publish
    BY <1>10 DEF CoverInv, Publish
  <1>11. CASE DropSnapshot
    BY <1>0, <1>11 DEF CoverInv, Accounted, DropSnapshot
  <1>12. CASE UNCHANGED vars
    BY <1>0, <1>12 DEF CoverInv, Accounted, vars
  <1> QED
    BY <1>1, <1>2, <1>3, <1>4, <1>5, <1>6, <1>7, <1>8, <1>9, <1>10, <1>11,
       <1>12 DEF Next, Collect

LEMMA MissedStep == TypeOK /\ MissedInv /\ [Next]_vars => MissedInv'
  <1> SUFFICES ASSUME TypeOK, MissedInv, [Next]_vars PROVE MissedInv'
    OBVIOUS
  <1> USE DEF place, report, snapshot, MissedInv
  <1>1. CASE Begin
    BY <1>1 DEF Begin
  <1>2. CASE Expire
    BY <1>2 DEF Expire
  <1>3. CASE StartReport
    BY <1>3 DEF StartReport
  <1>4. CASE Probe
    BY <1>4 DEF Probe
  <1>5. CASE ReadAllowlist
    BY <1>5 DEF ReadAllowlist
  <1>6. CASE QueryProviders
    BY <1>6 DEF QueryProviders
  <1>7. CASE CheckCursor
    BY <1>7 DEF CheckCursor
  <1>8. CASE FetchCursor
    BY <1>8, CursorAugment
       DEF FetchCursor, CursorUsage, CursorUnverified, CursorFailed
  <1>9. CASE AppendAugment
    BY <1>9 DEF AppendAugment
  <1>10. CASE Publish
    BY <1>10 DEF Publish
  <1>11. CASE DropSnapshot
    BY <1>11 DEF DropSnapshot
  <1>12. CASE UNCHANGED vars
    BY <1>12 DEF vars
  <1> QED
    BY <1>1, <1>2, <1>3, <1>4, <1>5, <1>6, <1>7, <1>8, <1>9, <1>10, <1>11,
       <1>12 DEF Next, Collect

\* A failure that is listed, or one of all providers, retains an earlier value.
LEMMA FailureRetains ==
  ASSUME TypeOK, NEW c, NEW id \in shown, id \notin barred, id \notin new,
         id \notin cfg.paused,
         \/ id \in failed
         \/ /\ GlobalFailure
            /\ id \notin c.paused
            /\ id = Augment => c.credentials # {}
  PROVE  id \in Retained(c)
  <1>1. Retainable(id) /\ id \notin Listed(new) /\ id # All
    BY CursorAugment DEF Retainable, Listed, TypeOK
  <1>2. CASE id \in failed
    BY <1>1, <1>2 DEF Retained, Failures, Listed
  <1>3. CASE id \notin failed
    <2>1. id \in Expanded(c)
      BY <1>1, <1>3 DEF Expanded, Listed
    <2> QED BY <1>1, <2>1 DEF Retained, Failures
  <1> QED BY <1>2, <1>3

\* A failed provider probe must not evict a still-useful value: while the host
\* answers GetConfig, a rebuild drops what its provider answered without usage
\* or could not be verified, and of what failed only a Cursor that CodexBar was
\* silent about and, after the context's end, what is not asked by default.
THEOREM FailureEvictsAtMostHolds ==
  ASSUME "host" \notin Faults
  PROVE  Spec => FailureEvictsAtMost
  <1>1. Init => FilterInv /\ SourceInv /\ CoverInv /\ MissedInv
    BY DEF Init, FilterInv, PausedStaysOut, Collecting, SourceInv, CoverInv,
           MissedInv
  <1>2. ASSUME TypeOK, FilterInv, SourceInv, CoverInv, MissedInv, Publishes,
               NEW id \in shown, id \notin shown'
        PROVE  id \in Evictable \union Discarded \union Forgotten
    <2> SUFFICES ASSUME id \notin Evictable \union Discarded \union Forgotten
                 PROVE  FALSE
      OBVIOUS
    <2>1. PICK c \in Reads : shown' = Listed(new) \union Retained(c)
      BY <1>2 DEF Publishes, Publish
    <2>2. /\ c \in {config, EmptyConfig} /\ cfg \in {config, EmptyConfig}
          /\ ctx = "live" => c = config
          /\ ctx \in {"live", "over"} /\ cli \in {"installed", "degraded"}
          /\ id \in Ids /\ missed \subseteq {Cursor, Augment}
      BY <1>2, <2>1, ReadsSteady DEF TypeOK
    <2>3. id \notin config.paused /\ id \notin c.paused /\ id \notin cfg.paused
      BY <1>2, <2>2, EmptyFields DEF FilterInv, PausedStaysOut
    <2>4. id \notin new /\ id \notin Retained(c)
      BY <1>2, <2>1, <2>3 DEF Listed
    <2>5. /\ id \notin barred
          /\ ctx = "over" => id \in Defaults
      BY <2>2 DEF Evictable, Forgotten
    <2>6. id \notin failed
      BY <1>2, <2>3, <2>4, <2>5, FailureRetains
    <2>7. id \notin silent
      <3>1. CASE id \in missed
        <4>1. id # Augment
          BY <1>2, <2>6, <3>1 DEF MissedInv, Publishes, Publish
        <4> QED BY <2>2, <3>1, <4>1 DEF Discarded
      <3>2. CASE id \notin missed
        BY <3>2 DEF Evictable
      <3> QED BY <3>1, <3>2
    <2>8. CASE GlobalFailure
      <3>1. id = Augment /\ c.credentials = {}
        BY <1>2, <2>3, <2>4, <2>5, <2>8, FailureRetains
      <3>2. ctx = "live"
        BY <2>2, <2>5, <3>1, ProvidersAssumption
      <3> QED BY <2>2, <2>8, <3>1, <3>2 DEF Evictable
    <2>9. CASE ~GlobalFailure
      <3>1. pc = "extras" /\ augmentAt = "done"
        BY <1>2 DEF Publishes, Publish
      <3>2. Accounted
        BY <1>2, <2>2, <2>9, <3>1 DEF CoverInv, GlobalFailure
      <3>3. id \in Polled \/ id \in config.credentials
        BY <1>2 DEF SourceInv, Sources
      <3>4. CASE id \in Polled
        BY <2>2, <2>3, <2>4, <2>5, <2>6, <2>7, <3>2, <3>4 DEF Accounted
      <3>5. CASE id \in config.credentials
        <4>1. id = Augment
          BY <1>2, <3>5, PolledAsked
        <4>2. ctx = "live"
          BY <2>2, <2>5, <4>1, ProvidersAssumption
        <4> QED BY <2>3, <2>4, <2>6, <3>1, <3>2, <3>5, <4>2 DEF Accounted
      <3> QED BY <3>3, <3>4, <3>5
    <2> QED BY <2>8, <2>9
  <1>3. TypeOK /\ FilterInv /\ SourceInv /\ CoverInv /\ MissedInv =>
          [Publishes =>
             shown \ shown' \subseteq Evictable \union Discarded \union Forgotten]_vars
    BY <1>2
  <1>4. TypeOK /\ FilterInv /\ [Next]_vars => FilterInv'
    BY FilterStep
  <1>5. TypeOK /\ FilterInv /\ SourceInv /\ [Next]_vars => SourceInv'
    BY SourceStep
  <1>6. TypeOK /\ SourceInv /\ CoverInv /\ [Next]_vars => CoverInv'
    BY CoverStep
  <1> QED
    BY <1>1, <1>3, <1>4, <1>5, <1>6, MissedStep, TypeCorrect, PTL
       DEF Spec, FailureEvictsAtMost

================================================================================
