------------------------ MODULE UpdatePipelineProofs ------------------------
(***************************************************************************)
(* Proofs about the update pipeline: its type invariant for every          *)
(* instance, and the safety of its production instances.                   *)
(***************************************************************************)
EXTENDS UpdateInvariant, TLAPS

-----------------------------------------------------------------------------
(* Type correctness.                                                       *)

\* A step that leaves the variables of a component alone leaves its type
\* invariant alone.
LEMMA StutteringTypes ==
    /\ UNCHANGED stateVars /\ StateTypeOK(Snapshots) => StateTypeOK(Snapshots)'
    /\ UNCHANGED fileVars /\ FileTypeOK(Snapshots) => FileTypeOK(Snapshots)'
    /\ UNCHANGED <<sheetVars, sourceVars, localVars>> /\ SourceTypeOK
       => SourceTypeOK'
    /\ UNCHANGED controlVars /\ PipelineTypeOK => PipelineTypeOK'
<1>1. UNCHANGED stateVars /\ StateTypeOK(Snapshots) => StateTypeOK(Snapshots)'
  BY DEF stateVars, mappingVars, errorVars, StateTypeOK
<1>2. UNCHANGED fileVars /\ FileTypeOK(Snapshots) => FileTypeOK(Snapshots)'
  BY DEF fileVars, FileTypeOK
<1>3. UNCHANGED <<sheetVars, sourceVars, localVars>> /\ SourceTypeOK
      => SourceTypeOK'
  BY DEF sheetVars, sourceVars, localVars, SourceTypeOK
<1>4. UNCHANGED controlVars /\ PipelineTypeOK => PipelineTypeOK'
  BY DEF controlVars, processVars, PipelineTypeOK
<1> QED  BY <1>1, <1>2, <1>3, <1>4

\* Moving an updater keeps the types of the control variables.
LEMMA GotoTypes ==
    ASSUME PipelineTypeOK, NEW p \in Updaters, NEW from, NEW to \in Steps,
           Goto(p, from, to), outcome' \in [Updaters -> Errors]
    PROVE  PipelineTypeOK'
BY DEF PipelineTypeOK, Goto

LEMMA ReturnTypes ==
    ASSUME PipelineTypeOK, NEW p \in Updaters, NEW from, NEW err \in Errors,
           Return(p, from, err)
    PROVE  PipelineTypeOK'
<1>1. outcome' \in [Updaters -> Errors]
  BY DEF PipelineTypeOK, Return
<1> QED  BY <1>1, GotoTypes DEF Return, Steps

\* Publishing a mapping and receiving one keep the types of the channel.
LEMMA SendMappingTypes ==
    ASSUME StateTypeOK(Snapshots), NEW m \in Snapshots, SendMapping(m)
    PROVE  StateTypeOK(Snapshots)'
BY ChannelCapacityAssumption DEF StateTypeOK, SendMapping, errorVars

LEMMA SendErrorTypes ==
    ASSUME StateTypeOK(Snapshots), NEW e \in Errors, SendError(e)
    PROVE  StateTypeOK(Snapshots)'
BY ChannelCapacityAssumption DEF StateTypeOK, SendError, mappingVars

LEMMA ListenerTypes ==
    ASSUME StateTypeOK(Snapshots), updateListener \/ errorListener
    PROVE  StateTypeOK(Snapshots)'
<1>1. CASE ReceiveMapping
  BY <1>1, ChannelCapacityAssumption DEF StateTypeOK, ReceiveMapping, errorVars
<1>2. CASE UpdateMapping
  BY <1>2 DEF StateTypeOK, UpdateMapping, errorVars
<1>3. CASE ReceiveError
  BY <1>3, ChannelCapacityAssumption DEF StateTypeOK, ReceiveError, mappingVars
<1>4. CASE UpdateLastError
  BY <1>4 DEF StateTypeOK, UpdateLastError, mappingVars
<1> QED  BY <1>1, <1>2, <1>3, <1>4 DEF updateListener, errorListener

LEMMA InitTypes == Init => TypeOK
<1> SUFFICES ASSUME Init PROVE TypeOK
  OBVIOUS
<1> USE DEF Init, Snapshots, Versions
<1>1. StateTypeOK(Snapshots)
  BY ChannelCapacityAssumption
  DEF NewState, StateTypeOK, Errors
<1>2. FileTypeOK(Snapshots)
  BY FallbackFileAssumption, PipelineAssumption, SheetsSourceAssumption
  DEF FileInit, FileTypeOK, Absent, Snapshot, NoVersion
<1>3. SourceTypeOK
  BY SheetsSourceAssumption
  DEF SourceInit, SourceTypeOK, NoTimes, NothingFetched
<1>4. PipelineTypeOK
  <2>1. pc \in [Updaters -> Steps]
    BY DEF AtStart, Steps
  <2>2. outcome \in [Updaters -> Errors]
    BY DEF NoOutcome, Errors
  <2>3. answer \in [ApiCallers -> {"none", "ok", "error", "timeout"}]
    BY DEF NoAnswer
  <2>4. calls \in 0..MaxCalls /\ crashes \in 0..MaxCrashes
    BY PipelineAssumption
  <2>5. serving \in BOOLEAN
    OBVIOUS
  <2>6. served \in Snapshots \cup {EmptyMapping}
    OBVIOUS
  <2> QED  BY <2>1, <2>2, <2>3, <2>4, <2>5, <2>6 DEF PipelineTypeOK
<1> QED  BY <1>1, <1>2, <1>3, <1>4 DEF TypeOK

\* The steps of NeedsUpdate keep the types.
LEMMA NeedsUpdateTypes ==
    ASSUME TypeOK, NeedsUpdate
    PROVE  TypeOK'
<1> USE StutteringTypes, PipelineAssumption DEF TypeOK
<1>1. Loop \in Updaters
  OBVIOUS
<1>2. outcome \in [Updaters -> Errors]
  BY DEF PipelineTypeOK
<1>3. CASE CheckIsZero
  <2>1. PipelineTypeOK'
    BY <1>1, <1>2, <1>3, GotoTypes DEF CheckIsZero, Steps
  <2> QED  BY <2>1, <1>3 DEF CheckIsZero
<1>4. CASE QueryModified
  <2>1. PipelineTypeOK'
    BY <1>1, <1>2, <1>4, GotoTypes DEF QueryModified, Steps
  <2>2. SourceTypeOK'
    BY <1>4 DEF QueryModified, AskDrive, SourceTypeOK, sheetVars, sourceVars
  <2> QED  BY <2>1, <2>2, <1>4 DEF QueryModified
<1>5. CASE QueryFails
  <2>1. PipelineTypeOK'
    BY <1>1, <1>2, <1>5, GotoTypes DEF QueryFails, Steps
  <2>2. SourceTypeOK'
    BY <1>5, SheetsSourceAssumption
    DEF QueryFails, CallFails, SourceTypeOK, sourceVars, localVars
  <2> QED  BY <2>1, <2>2, <1>5 DEF QueryFails
<1>6. CASE CompareTimes
  <2>1. PipelineTypeOK'
    BY <1>1, <1>2, <1>6, GotoTypes DEF CompareTimes, Steps
  <2> QED  BY <2>1, <1>6 DEF CompareTimes
<1>7. CASE RetryAfterError
  <2>1. PipelineTypeOK'
    BY <1>1, <1>2, <1>7, GotoTypes DEF RetryAfterError, Steps
  <2> QED  BY <2>1, <1>7 DEF RetryAfterError
<1>8. CASE SkipUpdate
  <2>1. PipelineTypeOK'
    BY <1>1, <1>8, ReturnTypes DEF SkipUpdate, Errors
  <2> QED  BY <2>1, <1>8 DEF SkipUpdate
<1>9. CASE KeepModified
  <2>1. PipelineTypeOK'
    BY <1>1, <1>2, <1>9, GotoTypes DEF KeepModified, Steps
  <2>2. SourceTypeOK'
    BY <1>1, <1>9 DEF KeepModified, StoreLastModified, SourceTypeOK, sheetVars, localVars
  <2> QED  BY <2>1, <2>2, <1>9 DEF KeepModified
<1> QED  BY <1>3, <1>4, <1>5, <1>6, <1>7, <1>8, <1>9 DEF NeedsUpdate

\* The file keeps its type when it is truncated and written.
LEMMA FileTypes ==
    ASSUME FileTypeOK(Snapshots)
    PROVE  /\ Truncate => FileTypeOK(Snapshots)'
           /\ \A v \in Snapshots : Overwrite(v) => FileTypeOK(Snapshots)'
           /\ DiskFails => FileTypeOK(Snapshots)'
<1>1. Truncate => FileTypeOK(Snapshots)'
  BY DEF FileTypeOK, Truncate
<1>2. ASSUME NEW v \in Snapshots, Overwrite(v)
      PROVE  FileTypeOK(Snapshots)'
  <2>1. SnapshotSize[v] \in Nat
    BY FallbackFileAssumption, PipelineAssumption
  <2> QED  BY <1>2, <2>1 DEF FileTypeOK, Overwrite
<1>3. DiskFails => FileTypeOK(Snapshots)'
  BY FallbackFileAssumption DEF FileTypeOK, DiskFails
<1> QED  BY <1>1, <1>2, <1>3

\* So do the steps of UpdateRedirectMapping, as long as an updater that is about
\* to publish holds a version.
LEMMA UpdateTypes ==
    ASSUME TypeOK, Holding, NEW p \in Updaters, UpdateRedirectMapping(p)
    PROVE  TypeOK'
<1> USE StutteringTypes DEF TypeOK
<1>1. outcome \in [Updaters -> Errors]
  BY DEF PipelineTypeOK
<1>2. CASE StartFetch(p)
  <2>1. PipelineTypeOK'
    BY <1>1, <1>2, GotoTypes DEF StartFetch, Steps
  <2>2. Clock \subseteq Readings
    BY DEF Clock, Readings, SourceTypeOK
  <2>3. SourceTypeOK'
    BY <1>2, <2>2 DEF StartFetch, StampFetch, SourceTypeOK, sheetVars, sourceVars
  <2> QED  BY <2>1, <2>3, <1>2 DEF StartFetch
<1>3. CASE RequestArrives(p)
  <2>1. PipelineTypeOK'
    BY <1>1, <1>3, GotoTypes DEF RequestArrives, Steps
  <2>2. edits \in Snapshots
    BY SheetsSourceAssumption DEF SourceTypeOK, Versions, Snapshots
  <2>3. SourceTypeOK'
    BY <1>3, <2>2
    DEF RequestArrives, ServerReads, SourceTypeOK, sheetVars, sourceVars
  <2> QED  BY <2>1, <2>3, <1>3 DEF RequestArrives
<1>4. CASE FetchReturns(p)
  <2>1. PipelineTypeOK'
    BY <1>1, <1>4, GotoTypes DEF FetchReturns, Steps
  <2>2. Clock \subseteq Readings
    BY DEF Clock, Readings, SourceTypeOK
  <2>3. lastUpdate' \in Readings \cup {NoTime}
    BY <1>4, <2>2 DEF FetchReturns, updateLastUpdate, SourceTypeOK
  <2>4. SourceTypeOK'
    BY <1>4, <2>3 DEF FetchReturns, updateLastUpdate, SourceTypeOK, sheetVars
  <2> QED  BY <2>1, <2>4, <1>4 DEF FetchReturns
<1>5. CASE FetchFails(p)
  <2>1. PipelineTypeOK'
    <3>1. PICK from : IF UseFallbackFile
                      THEN Goto(p, from, "readFallback") /\ UNCHANGED outcome
                      ELSE Return(p, from, "error")
      BY <1>5 DEF FetchFails
    <3>2. CASE UseFallbackFile
      BY <1>1, <3>1, <3>2, GotoTypes DEF Steps
    <3>3. CASE ~UseFallbackFile
      BY <3>1, <3>3, ReturnTypes DEF Errors
    <3> QED  BY <3>2, <3>3
  <2>2. SourceTypeOK'
    BY <1>5, SheetsSourceAssumption
    DEF FetchFails, CallFails, SourceTypeOK, sourceVars, localVars
  <2> QED  BY <2>1, <2>2, <1>5 DEF FetchFails
<1>6. CASE ReadFallback(p)
  <2>1. PipelineTypeOK'
    BY <1>1, <1>6, GotoTypes DEF ReadFallback, Steps
  <2>2. file.version \in Snapshots
    BY <1>6 DEF ReadFallback, Readable, FileTypeOK
  <2>3. SourceTypeOK'
    BY <1>6, <2>2 DEF ReadFallback, SourceTypeOK, sheetVars, sourceVars
  <2> QED  BY <2>1, <2>3, <1>6 DEF ReadFallback
<1>7. CASE ReadFallbackFails(p)
  <2>1. PipelineTypeOK'
    BY <1>7, ReturnTypes DEF ReadFallbackFails, Errors
  <2> QED  BY <2>1, <1>7 DEF ReadFallbackFails
<1>8. CASE TruncateFallback(p)
  <2>1. PipelineTypeOK'
    BY <1>1, <1>8, GotoTypes DEF TruncateFallback, Steps
  <2> QED  BY <2>1, <1>8, FileTypes DEF TruncateFallback
<1>9. CASE WriteFallback(p)
  <2>1. PipelineTypeOK'
    BY <1>1, <1>9, GotoTypes DEF WriteFallback, Steps
  <2>2. fetched[p] \in Snapshots
    BY <1>9 DEF WriteFallback, Goto, Holding, Publishing
  <2> QED  BY <2>1, <2>2, <1>9, FileTypes DEF WriteFallback
<1>10. CASE WriteFails(p)
  <2>1. PipelineTypeOK'
    BY <1>1, <1>10, GotoTypes DEF WriteFails, Steps
  <2> QED  BY <2>1, <1>10, FileTypes DEF WriteFails
<1>11. CASE Publish(p)
  <2>1. PipelineTypeOK'
    BY <1>11, ReturnTypes DEF Publish, Errors
  <2>2. fetched[p] \in Snapshots
    BY <1>11 DEF Publish, Return, Goto, Holding, Publishing
  <2> QED  BY <2>1, <2>2, <1>11, SendMappingTypes DEF Publish
<1> QED
  BY <1>2, <1>3, <1>4, <1>5, <1>6, <1>7, <1>8, <1>9, <1>10, <1>11
  DEF UpdateRedirectMapping

\* The locals an updater drops have the types of fresh ones.
LEMMA DropLocalsTypes ==
    ASSUME SourceTypeOK, NEW p \in Updaters, DropLocals(p),
           UNCHANGED <<sheetVars, sourceVars>>
    PROVE  SourceTypeOK'
BY DEF SourceTypeOK, DropLocals, sheetVars, sourceVars

\* Every step keeps the types.
LEMMA NextTypes ==
    ASSUME TypeOK, Holding, [Next]_vars
    PROVE  TypeOK'
<1> USE StutteringTypes, PipelineAssumption DEF TypeOK
<1>1. CASE Wake
  <2>1. PipelineTypeOK'
    BY <1>1, GotoTypes DEF Wake, Steps, PipelineTypeOK
  <2> QED  BY <2>1, <1>1 DEF Wake
<1>2. CASE NeedsUpdate
  BY <1>2, NeedsUpdateTypes
<1>3. ASSUME NEW p \in Updaters, UpdateRedirectMapping(p)
      PROVE  TypeOK'
  BY <1>3, UpdateTypes
<1>4. CASE FinishSetup
  <2>1. PipelineTypeOK'
    BY <1>4 DEF FinishSetup, PipelineTypeOK, Steps, Errors
  <2>2. SourceTypeOK'
    BY <1>4, DropLocalsTypes DEF FinishSetup
  <2> QED  BY <2>1, <2>2, <1>4 DEF FinishSetup
<1>5. CASE ReportOutcome
  <2>1. PipelineTypeOK'
    BY <1>5, GotoTypes DEF ReportOutcome, Steps, PipelineTypeOK, Errors
  <2>2. SourceTypeOK'
    BY <1>5, DropLocalsTypes DEF ReportOutcome
  <2>3. outcome[Loop] \in Errors
    BY DEF PipelineTypeOK
  <2>4. StateTypeOK(Snapshots)'
    BY <1>5, <2>3, SendErrorTypes DEF ReportOutcome
  <2> QED  BY <2>1, <2>2, <2>4, <1>5 DEF ReportOutcome
<1>6. ASSUME NEW c \in ApiCallers, Call(c)
      PROVE  TypeOK'
  <2>1. PipelineTypeOK'
    BY <1>6 DEF Call, PipelineTypeOK, Steps
  <2>2. SourceTypeOK'
    BY <1>6, DropLocalsTypes DEF Call
  <2> QED  BY <2>1, <2>2, <1>6 DEF Call
<1>7. ASSUME NEW c \in ApiCallers, Respond(c)
      PROVE  TypeOK'
  <2>1. PipelineTypeOK'
    BY <1>7 DEF Respond, PipelineTypeOK, Steps, Errors
  <2> QED  BY <2>1, <1>7 DEF Respond
<1>8. ASSUME NEW c \in ApiCallers, TimeoutCall(c)
      PROVE  TypeOK'
  <2>1. PipelineTypeOK'
    BY <1>8 DEF TimeoutCall, PipelineTypeOK
  <2> QED  BY <2>1, <1>8 DEF TimeoutCall
<1>9. CASE ListenForUpdates \/ ListenForUpdateErrors
  <2>1. StateTypeOK(Snapshots)'
    BY <1>9, ListenerTypes DEF ListenForUpdates, ListenForUpdateErrors
  <2>2. PipelineTypeOK'
    BY <1>9, <2>1
    DEF ListenForUpdates, ListenForUpdateErrors, PipelineTypeOK, StateTypeOK,
        processVars, controlVars
  <2> QED  BY <2>1, <2>2, <1>9 DEF ListenForUpdates, ListenForUpdateErrors
<1>10. CASE EditSheet
  <2>1. SourceTypeOK'
    BY <1>10, SheetsSourceAssumption
    DEF EditSheet, Edit, SourceTypeOK, Versions, sourceVars, localVars
  <2> QED  BY <2>1, <1>10 DEF EditSheet
<1>11. CASE Crash
  <2>1. PipelineTypeOK'
    <3>1. pc' \in [Updaters -> Steps]
      BY <1>11 DEF Crash, AtStart, Steps
    <3>2. outcome' \in [Updaters -> Errors]
      BY <1>11 DEF Crash, NoOutcome, Errors
    <3>3. answer' \in [ApiCallers -> {"none", "ok", "error", "timeout"}]
      BY <1>11 DEF Crash, NoAnswer
    <3>4. calls' \in 0..MaxCalls /\ crashes' \in 0..MaxCrashes
      BY <1>11 DEF Crash, PipelineTypeOK
    <3>5. serving' \in BOOLEAN
      BY <1>11 DEF Crash
    <3>6. served' \in Snapshots \cup {EmptyMapping}
      BY <1>11 DEF Crash, PipelineTypeOK
    <3> QED  BY <3>1, <3>2, <3>3, <3>4, <3>5, <3>6 DEF PipelineTypeOK
  <2>2. SourceTypeOK'
    BY <1>11
    DEF Crash, ForgetSource, SourceTypeOK, NoTimes, NothingFetched, sheetVars
  <2>3. StateTypeOK(Snapshots)'
    BY <1>11, ChannelCapacityAssumption
    DEF Crash, ForgetState, StateTypeOK, Errors
  <2> QED  BY <2>1, <2>2, <2>3, <1>11 DEF Crash
<1>12. CASE UNCHANGED vars
  BY <1>12 DEF vars
<1>13. ASSUME NEW c \in ApiCallers, CompareTorn(c)
       PROVE  TypeOK'
  <2>1. PipelineTypeOK'
    BY <1>13 DEF CompareTorn, PipelineTypeOK, Steps
  <2>2. Clock \subseteq Readings
    BY DEF Clock, Readings, SourceTypeOK
  <2>3. lastUpdate' \in Readings \cup {NoTime}
    BY <1>13, <2>2 DEF CompareTorn, updateLastUpdate, SourceTypeOK
  <2>4. SourceTypeOK'
    BY <1>13, <2>3 DEF CompareTorn, updateLastUpdate, SourceTypeOK, sheetVars
  <2> QED  BY <2>1, <2>4, <1>13 DEF CompareTorn
<1> QED
  BY <1>1, <1>2, <1>3, <1>4, <1>5, <1>6, <1>7, <1>8, <1>9, <1>10, <1>11, <1>12,
     <1>13
  DEF Next, Background, Handler

LEMMA InitHolding == Init => Holding
BY DEF Init, Holding, AtStart, Publishing

\* An updater only gets to where it publishes by fetching or reading a version.
LEMMA NextHolding ==
    ASSUME TypeOK, Holding, [Next]_vars
    PROVE  Holding'
<1> USE PipelineAssumption DEF Publishing, TypeOK, PipelineTypeOK
<1> SUFFICES ASSUME NEW q \in Updaters,
                    pc'[q] \in Publishing \cup {"response"}
             PROVE  fetched'[q] \in Snapshots
  BY DEF Holding
<1>1. CASE Wake
  BY <1>1 DEF Wake, Goto, localVars, Holding
<1>2. CASE NeedsUpdate
  BY <1>2
  DEF NeedsUpdate, CheckIsZero, QueryModified, QueryFails, KeepModified,
      CompareTimes, RetryAfterError, SkipUpdate, Return, Goto, AskDrive,
      StoreLastModified, localVars, Holding
<1>3. ASSUME NEW p \in Updaters, UpdateRedirectMapping(p)
      PROVE  fetched'[q] \in Snapshots
  <2>1. CASE StartFetch(p)
    BY <2>1 DEF StartFetch, StampFetch, Goto, Holding
  <2>2. CASE RequestArrives(p)
    <3>1. edits \in Snapshots
      BY SheetsSourceAssumption DEF SourceTypeOK, Versions, Snapshots
    <3> QED
      BY <2>2, <3>1 DEF RequestArrives, ServerReads, Goto, Holding, SourceTypeOK
  <2>3. CASE FetchReturns(p)
    BY <2>3 DEF FetchReturns, updateLastUpdate, Goto, Holding
  <2>4. CASE FetchFails(p)
    BY <2>4 DEF FetchFails, Return, Goto, localVars, Holding
  <2>5. CASE ReadFallback(p)
    <3>1. file.version \in Snapshots
      BY <2>5 DEF ReadFallback, Readable, FileTypeOK
    <3> QED
      BY <2>5, <3>1 DEF ReadFallback, Goto, Holding, SourceTypeOK
  <2>6. CASE ReadFallbackFails(p)
    BY <2>6 DEF ReadFallbackFails, Return, Goto, localVars, Holding
  <2>7. CASE TruncateFallback(p)
    BY <2>7 DEF TruncateFallback, Goto, localVars, Holding
  <2>8. CASE WriteFallback(p)
    BY <2>8 DEF WriteFallback, Goto, localVars, Holding
  <2>9. CASE WriteFails(p)
    BY <2>9 DEF WriteFails, Goto, localVars, Holding
  <2>10. CASE Publish(p)
    BY <2>10 DEF Publish, Return, Goto, localVars, Holding
  <2> QED
    BY <1>3, <2>1, <2>2, <2>3, <2>4, <2>5, <2>6, <2>7, <2>8, <2>9, <2>10
    DEF UpdateRedirectMapping
<1>4. CASE FinishSetup
  BY <1>4 DEF FinishSetup, DropLocals, Holding, SourceTypeOK
<1>5. CASE ReportOutcome
  BY <1>5 DEF ReportOutcome, Goto, DropLocals, Holding, SourceTypeOK
<1>6. ASSUME NEW c \in ApiCallers, Call(c)
      PROVE  fetched'[q] \in Snapshots
  BY <1>6 DEF Call, DropLocals, Holding, SourceTypeOK
<1>7. ASSUME NEW c \in ApiCallers, Respond(c) \/ TimeoutCall(c)
      PROVE  fetched'[q] \in Snapshots
  BY <1>7 DEF Respond, TimeoutCall, localVars, Holding
<1>8. CASE ListenForUpdates \/ ListenForUpdateErrors
  BY <1>8 DEF ListenForUpdates, ListenForUpdateErrors, localVars, processVars,
              controlVars, Holding
<1>9. CASE EditSheet
  BY <1>9 DEF EditSheet, Edit, localVars, controlVars, processVars, Holding
<1>10. CASE Crash
  BY <1>10 DEF Crash, AtStart
<1>11. CASE UNCHANGED vars
  BY <1>11 DEF vars, localVars, controlVars, processVars, Holding
<1>12. ASSUME NEW c \in ApiCallers, CompareTorn(c)
       PROVE  fetched'[q] \in Snapshots
  BY <1>12 DEF CompareTorn, updateLastUpdate, Holding
<1> QED
  BY <1>1, <1>2, <1>3, <1>4, <1>5, <1>6, <1>7, <1>8, <1>9, <1>10, <1>11, <1>12
  DEF Next, Background, Handler

\* In every instance, with any number of updaters, every variable keeps its
\* type; in particular no channel ever holds more than its capacity, and nothing
\* but a state of the sheet is published or written to the file.
THEOREM TypeCorrect == Spec => []TypeOK
<1>1. Init => TypeOK /\ Holding
  BY InitTypes, InitHolding
<1>2. TypeOK /\ Holding /\ [Next]_vars => (TypeOK /\ Holding)'
  BY NextTypes, NextHolding
<1> QED  BY <1>1, <1>2, PTL DEF Spec

=============================================================================
