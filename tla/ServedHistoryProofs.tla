------------------------ MODULE ServedHistoryProofs ------------------------
(***************************************************************************)
(* An orderly instance of the update pipeline implements the safety of     *)
(* MirroredMapping: over failing calls, through the fallback file and      *)
(* across restarts, the live mapping only moves forward.                   *)
(***************************************************************************)
EXTENDS ServedHistory, UpdateSafetyProofs

\* Nothing that may still go live is older than what was live already.
NothingOlder ==
    /\ served \in Int
    /\ mapping =< served /\ served =< edits
    /\ mappingInHand # NoMapping => served =< mappingInHand
    /\ \A i \in 1..Len(mappingChannel) : served =< mappingChannel[i]
    /\ pc[Loop] \in Publishing \cup {"response"} => served =< fetched[Loop]
    /\ UseFallbackFile /\ Readable => served =< file.version

HInv == OrderInv /\ NothingOlder

LEMMA InitHInv == Init => HInv
<1> SUFFICES ASSUME Init PROVE HInv
  OBVIOUS
<1>1. OrderInv
  BY InitIInv DEF Init, IInv
<1>2. /\ mapping = 0 /\ mappingInHand = NoMapping /\ mappingChannel = << >>
      /\ served = 0 /\ pc[Loop] = "isZero"
  BY PipelineAssumption
  DEF Init, Init, NewState, AtStart, EmptyMapping
<1>3. edits \in Nat
  BY SheetsSourceAssumption DEF Init, Init, SourceInit
<1>4. Readable => file.version \in Nat
  BY <1>1 DEF OrderInv, TypeOK, FileTypeOK, Readable, Snapshots
<1>5. NothingOlder
  BY <1>2, <1>3, <1>4 DEF NothingOlder, Publishing
<1> QED  BY <1>1, <1>5 DEF HInv

\* Only an editor changes the sheet.
LEMMA SheetUnchanged ==
    ASSUME ApiCallers = {}, [Next]_vars
    PROVE  UNCHANGED edits \/ EditSheet
<1>1. CASE Background \/ ListenForUpdateErrors \/ ListenForUpdates \/ Crash
  BY <1>1
  DEF Background, Wake, NeedsUpdate, CheckIsZero, QueryModified, QueryFails,
      KeepModified, CompareTimes, RetryAfterError, SkipUpdate, UpdateRedirectMapping,
      AskDrive, StoreLastModified, CallFails, StampFetch, ServerReads, updateLastUpdate,
      StartFetch, RequestArrives, FetchReturns, FetchFails, ReadFallback,
      ReadFallbackFails, TruncateFallback, WriteFallback, WriteFails,
      Publish, FinishSetup, ReportOutcome, ListenForUpdateErrors,
      ListenForUpdates, Crash, ForgetSource, sheetVars
<1>2. CASE UNCHANGED vars
  BY <1>2 DEF vars, sheetVars
<1> QED  BY <1>1, <1>2 DEF Next

\* A step of the listener makes something live that is not older.
LEMMA ServedAfterUpdate ==
    ASSUME HInv, UpdateMapping, ListenForUpdates
    PROVE  /\ served' = mappingInHand /\ mapping' = mappingInHand
           /\ mapping =< mappingInHand /\ served =< mappingInHand
           /\ mappingInHand =< edits /\ edits' = edits
           /\ NothingOlder'
<1> USE IntegerTypes DEF HInv, OrderInv
<1>1. /\ mapping' = mappingInHand /\ mappingInHand' = NoMapping
      /\ mappingChannel' = mappingChannel
      /\ mapping =< mappingInHand /\ served =< mappingInHand
      /\ UNCHANGED <<edits, pc, fetched, file>>
  BY DEF UpdateMapping, ListenForUpdates, InOrder, NothingOlder, fileVars,
         sheetVars, localVars, controlVars, processVars
<1>2. served' = mappingInHand
  BY <1>1 DEF ListenForUpdates, NothingOlder
<1>3. /\ mappingInHand =< edits
      /\ \A i \in 1..Len(mappingChannel) : mappingInHand =< mappingChannel[i]
      /\ pc[Loop] \in Publishing \cup {"response"}
         => mappingInHand =< fetched[Loop]
      /\ UseFallbackFile /\ Readable => mappingInHand =< file.version
  BY DEF InOrder, HeldInOrder, FileInOrder, Covers
<1>4. NothingOlder'
  BY <1>1, <1>2, <1>3 DEF NothingOlder, Readable
<1> QED  BY <1>1, <1>2, <1>3, <1>4

\* Only a new mapping makes history.
LEMMA ServedUnchanged ==
    ASSUME HInv, ApiCallers = {}, [Next]_vars, mapping' = mapping \/ mapping' = 0
    PROVE  served' = served /\ mapping' =< served'
<1>1. /\ mapping \in Int /\ 0 =< mapping
      /\ served \in Int /\ mapping =< served
  BY SheetsSourceAssumption
  DEF HInv, OrderInv, TypeOK, StateTypeOK, Snapshots, EmptyMapping, NothingOlder
<1>2. CASE ListenForUpdates
  BY <1>1, <1>2 DEF ListenForUpdates
<1>3. CASE Background \/ ListenForUpdateErrors \/ EditSheet \/ Crash
  BY <1>1, <1>3
  DEF Background, Wake, NeedsUpdate, CheckIsZero, QueryModified, QueryFails,
      KeepModified, CompareTimes, RetryAfterError, SkipUpdate, UpdateRedirectMapping,
      StartFetch, RequestArrives, FetchReturns, FetchFails, ReadFallback,
      ReadFallbackFails, TruncateFallback, WriteFallback, WriteFails,
      Publish, FinishSetup, ReportOutcome, Return, Goto, ListenForUpdateErrors,
      EditSheet, Crash, controlVars
<1>4. CASE UNCHANGED vars
  BY <1>1, <1>4 DEF vars, controlVars
<1> QED  BY <1>2, <1>3, <1>4 DEF Next

\* The steps of the updater keep the order.
LEMMA BackgroundKeeps ==
    ASSUME Orderly, HInv, Background
    PROVE  NothingOlder'
<1> USE PipelineAssumption, IntegerTypes DEF HInv, OrderInv
<1>0. /\ pc \in [Updaters -> Steps] /\ Loop \in Updaters
      /\ fetched \in [Updaters -> Snapshots \cup {0}]
  BY DEF TypeOK, PipelineTypeOK, SourceTypeOK
<1>1. mapping' = mapping /\ served' = served
  <2>1. mapping' = mapping
    BY DEF Background, Wake, NeedsUpdate, CheckIsZero, QueryModified, QueryFails,
      KeepModified, CompareTimes, RetryAfterError, SkipUpdate, UpdateRedirectMapping,
      StartFetch, RequestArrives, FetchReturns, FetchFails, ReadFallback,
      ReadFallbackFails, TruncateFallback, WriteFallback, WriteFails,
      Publish, SendMapping, FinishSetup, ReportOutcome, SendError,
      stateVars, mappingVars
  <2> QED  BY <2>1, ServedUnchanged DEF Orderly, Next
<1>2. CASE Quiet
  BY <1>1, <1>2 DEF NothingOlder, Quiet, Readable, mappingVars
<1>3. CASE StartFetch(Loop)
  BY <1>0, <1>1, <1>3
  DEF StartFetch, Goto, StampFetch, NothingOlder, Readable, Publishing,
      stateVars, mappingVars, fileVars, sheetVars
<1>4. CASE RequestArrives(Loop)
  BY <1>0, <1>1, <1>4
  DEF RequestArrives, Goto, ServerReads, NothingOlder, Readable,
      stateVars, mappingVars, fileVars, sheetVars
<1>5. CASE FetchReturns(Loop)
  BY <1>0, <1>1, <1>5
  DEF FetchReturns, Goto, updateLastUpdate, NothingOlder, Readable,
      stateVars, mappingVars, fileVars, sheetVars
<1>6. CASE FetchFails(Loop)
  BY <1>0, <1>1, <1>6
  DEF FetchFails, Goto, Return, CallFails, NothingOlder, Readable, Publishing,
      stateVars, mappingVars, fileVars, localVars
<1>7. CASE ReadFallback(Loop)
  <2>1. UseFallbackFile
    BY <1>7 DEF ReadFallback, Goto, FileInOrder
  <2> QED
    BY <1>0, <1>1, <1>7, <2>1
    DEF ReadFallback, Goto, NothingOlder, Readable, stateVars, mappingVars,
        fileVars, sheetVars
<1>8. CASE TruncateFallback(Loop)
  <2>1. ~Readable'
    BY <1>8, FallbackFileAssumption
    DEF TruncateFallback, Truncate, Readable, TypeOK, FileTypeOK
  <2> QED
    BY <1>0, <1>1, <1>8, <2>1
    DEF TruncateFallback, Goto, NothingOlder, Publishing, stateVars, mappingVars,
        sheetVars, localVars
<1>9. CASE WriteFallback(Loop)
  <2>1. file'.version = fetched[Loop]
    BY <1>9 DEF WriteFallback, Overwrite
  <2> QED
    BY <1>0, <1>1, <1>9, <2>1
    DEF WriteFallback, Goto, NothingOlder, Publishing, stateVars, mappingVars,
        sheetVars, localVars
<1>10. CASE Publish(Loop)
  <2>1. /\ pc[Loop] = "send" /\ pc'[Loop] = "returned"
        /\ mappingChannel' = Append(mappingChannel, fetched[Loop])
        /\ UNCHANGED <<mappingInHand, file, edits, fetched>>
    BY <1>0, <1>10
    DEF Publish, Return, Goto, SendMapping, sheetVars, localVars, fileVars
  <2>2. \A i \in 1..Len(mappingChannel') :
           \/ mappingChannel'[i] = fetched[Loop]
           \/ i \in 1..Len(mappingChannel)
              /\ mappingChannel'[i] = mappingChannel[i]
    <3>1. mappingChannel \in Seq(Snapshots)
      BY DEF TypeOK, StateTypeOK
    <3>2. fetched[Loop] \in Snapshots
      BY <2>1 DEF Holding, Publishing
    <3> QED  BY <2>1, <3>1, <3>2
  <2> QED
    BY <1>1, <2>1, <2>2 DEF NothingOlder, Readable, Publishing
<1>11. ~ WriteFails(Loop)
  BY DEF WriteFails, DiskFails, Orderly, FileInOrder, Goto, TypeOK, FileTypeOK
<1> QED
  BY <1>2, <1>3, <1>4, <1>5, <1>6, <1>7, <1>8, <1>9, <1>10, <1>11, QuietSteps
  DEF Background, UpdateRedirectMapping

LEMMA NextHInv ==
    ASSUME Orderly, HInv, [Next]_vars
    PROVE  HInv'
<1> USE PipelineAssumption, IntegerTypes DEF HInv
<1>1. OrderInv'
  BY NextOrderInv DEF OrderInv
<1>2. /\ ApiCallers = {}
      /\ mapping' = mapping \/ mapping' = 0 => served' = served /\ mapping' =< served'
  BY ServedUnchanged DEF Orderly
<1>3. CASE Next
  <2>1. CASE Background
    BY <1>1, <2>1, BackgroundKeeps
  <2>2. CASE ListenForUpdates
    <3>1. CASE UpdateMapping
      BY <1>1, <2>2, <3>1, ServedAfterUpdate
    <3>2. CASE ReceiveMapping
      <4>1. /\ mapping' = mapping /\ mappingInHand' = mappingChannel[1]
            /\ 1 \in 1..Len(mappingChannel)
            /\ \A i \in 1..Len(mappingChannel') :
                  /\ i + 1 \in 1..Len(mappingChannel)
                  /\ mappingChannel'[i] = mappingChannel[i + 1]
            /\ UNCHANGED <<edits, pc, fetched, file>>
        <5>1. mappingChannel \in Seq(Snapshots)
          BY DEF OrderInv, TypeOK, StateTypeOK
        <5> QED
          BY <2>2, <3>2, <5>1
          DEF ListenForUpdates, ReceiveMapping, fileVars, sheetVars, localVars,
              controlVars, processVars
      <4>2. served' = served
        BY <1>2, <4>1
      <4>3. NothingOlder'
        BY <4>1, <4>2 DEF NothingOlder, Readable
      <4> QED  BY <1>1, <4>3
    <3> QED  BY <2>2, <3>1, <3>2 DEF ListenForUpdates, updateListener
  <2>3. CASE ListenForUpdateErrors
    <3>1. UNCHANGED <<mappingVars, edits, pc, fetched, file>>
      BY <2>3
      DEF ListenForUpdateErrors, errorListener, ReceiveError, UpdateLastError,
          fileVars, sheetVars, localVars, controlVars, processVars
    <3>2. served' = served
      BY <1>2, <3>1 DEF mappingVars
    <3> QED  BY <1>1, <3>1, <3>2 DEF NothingOlder, Readable, mappingVars
  <2>4. CASE EditSheet
    <3>1. /\ edits' = edits + 1
          /\ UNCHANGED <<mappingVars, pc, fetched, file>>
      BY <2>4
      DEF EditSheet, Edit, fileVars, stateVars, localVars, controlVars, processVars
    <3>2. served' = served
      BY <1>2, <3>1 DEF mappingVars
    <3> QED
      BY <1>1, <3>1, <3>2 DEF NothingOlder, Readable, mappingVars, OrderInv
  <2>5. CASE Crash
    <3>1. /\ mapping' = 0 /\ mappingInHand' = NoMapping
          /\ mappingChannel' = << >> /\ pc'[Loop] = "isZero"
          /\ UNCHANGED <<edits, file>>
      BY <2>5
      DEF Crash, ForgetState, ForgetSource, AtStart, EmptyMapping, fileVars,
          sheetVars
    <3>2. served' = served /\ mapping' =< served'
      BY <1>2, <3>1
    <3> QED
      BY <1>1, <3>1, <3>2 DEF NothingOlder, Readable, Publishing
  <2> QED
    BY <1>2, <1>3, <2>1, <2>2, <2>3, <2>4, <2>5 DEF Next
<1>4. CASE UNCHANGED vars
  BY <1>1, <1>4
  DEF NothingOlder, Readable, vars, stateVars, mappingVars,
      fileVars, sheetVars, localVars, controlVars, processVars
<1> QED  BY <1>3, <1>4

\* The refinement: the pipeline, seen as the sheet, the live mapping and the
\* newest mapping ever live, is a behaviour of MirroredMapping.
THEOREM ImplementsMirror ==
    ASSUME Orderly
    PROVE  Spec => KeepsOrder
<1>1. Init => Mirror!MirrorInit
  BY DEF Init, NewState, SourceInit, EmptyMapping,
         Mirror!MirrorInit
<1>2. ASSUME HInv, [Next]_vars
      PROVE  [Mirror!MirrorNext]_(Mirror!mirrorVars)
  <2> USE DEF Mirror!MirrorNext, Mirror!mirrorVars
  <2>1. CASE UNCHANGED vars
    BY <2>1 DEF vars, stateVars, mappingVars, sheetVars, controlVars
  <2>2. CASE Next
    <3>1. /\ ApiCallers = {}
          /\ mapping' = mapping \/ mapping' = 0 => served' = served
      BY <1>2, ServedUnchanged DEF Orderly
    <3>2. CASE ListenForUpdates /\ UpdateMapping
      BY <1>2, <3>2, ServedAfterUpdate, IntegerTypes
      DEF Mirror!Refresh, HInv, OrderInv, NothingOlder
    <3>3. CASE Crash
      <4>1. mapping' = 0 /\ edits' = edits
        BY <3>3 DEF Crash, ForgetState, EmptyMapping, ForgetSource, sheetVars
      <4>2. served' = served
        BY <3>1, <4>1
      <4> QED  BY <4>1, <4>2 DEF Mirror!Restart
    <3>4. CASE EditSheet
      <4>1. edits' = edits + 1 /\ mapping' = mapping
        BY <3>4 DEF EditSheet, Edit, stateVars, mappingVars
      <4>2. served' = served
        BY <3>1, <4>1
      <4> QED  BY <4>1, <4>2 DEF Mirror!Edited
    <3>5. CASE mapping' = mapping /\ edits' = edits
      <4>1. served' = served
        BY <3>1, <3>5
      <4> QED  BY <3>5, <4>1
    <3> QED
      BY <1>2, <3>1, <3>2, <3>3, <3>4, <3>5, LiveUnchanged, SheetUnchanged
  <2> QED  BY <1>2, <2>1, <2>2
<1>3. HInv /\ [Next]_vars => HInv'
  BY NextHInv
<1> QED
  BY <1>1, <1>2, <1>3, InitHInv, PTL DEF Spec, KeepsOrder, Mirror!MirrorSafety
=============================================================================
