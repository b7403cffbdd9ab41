---------------------------- MODULE StatusProofs ----------------------------
(***************************************************************************)
(* What the status endpoints answer beside the update pipeline: in every   *)
(* instance an answer that shows links is dated, and in an orderly         *)
(* instance no answer goes back behind an earlier one.                     *)
(***************************************************************************)
EXTENDS StatusApi, UpdateSafetyProofs

\* Everything keeps its type.
StatusTypes == TypeOK /\ Holding /\ StatusTypeOK

LEMMA StatusInitTypes == StatusInit => StatusTypes
<1> SUFFICES ASSUME StatusInit PROVE StatusTypes
  OBVIOUS
<1>1. TypeOK /\ Holding
  BY InitTypes, InitHolding DEF StatusInit
<1>2. StatusTypeOK
  BY DEF StatusInit, StatusTypeOK, Fields, NoReport
<1> QED  BY <1>1, <1>2 DEF StatusTypes

\* A status request changes nothing of the pipeline but the modification time, and
\* the number of calls to Google that may still fail.
LEMMA HandlerLeaves ==
    ASSUME StatusTypes, Poll \/ StatusHandler
    PROVE  /\ UNCHANGED <<stateVars, fileVars, edits, lastUpdate, localVars,
                          controlVars>>
           /\ TypeOK' /\ Holding'
<1> USE DEF StatusTypes
<1>1. CASE AskFails
  <2>1. UNCHANGED <<stateVars, fileVars, edits, sourceVars, localVars, controlVars>>
        /\ faults' \in 0..MaxFaults
    BY <1>1, SheetsSourceAssumption DEF AskFails, CallFails, TypeOK, SourceTypeOK
  <2>2. SourceTypeOK'
    BY <2>1 DEF TypeOK, SourceTypeOK, sourceVars, localVars
  <2> QED
    BY <2>1, <2>2, StutteringTypes
    DEF TypeOK, sourceVars, Holding, localVars, controlVars, processVars
<1>2. CASE StoreModified
  <2>1. UNCHANGED <<stateVars, fileVars, sheetVars, lastUpdate, localVars, controlVars>>
        /\ lastModified' \in Versions \cup {NoTime}
    BY <1>2 DEF StoreModified, StatusTypeOK
  <2>2. SourceTypeOK'
    BY <2>1 DEF TypeOK, SourceTypeOK, sheetVars, localVars
  <2> QED
    BY <2>1, <2>2, StutteringTypes
    DEF TypeOK, sheetVars, Holding, localVars, controlVars, processVars
<1>3. CASE UNCHANGED vars
  BY <1>3, StutteringTypes
  DEF vars, TypeOK, Holding, sheetVars, sourceVars, localVars, controlVars, processVars
<1> QED
  BY <1>1, <1>2, <1>3
  DEF Poll, StatusHandler, ReadMapping, ReadLastUpdate, LockModified, LookAtModified,
      ReadModified, AskModified

\* A step is one of the pipeline or one of the client's request.
LEMMA StatusSteps ==
    ASSUME [StatusNext]_<<vars, statusVars>>
    PROVE  \/ [Next]_vars /\ UNCHANGED statusVars
           \/ Poll \/ StatusHandler
BY DEF StatusNext, Updating, statusVars

\* What the handler reads has its type.
LEMMA HandlerTypes ==
    ASSUME StatusTypes, Poll \/ StatusHandler
    PROVE  StatusTypeOK'
<1> USE DEF StatusTypes, StatusTypeOK, Fields, Read, Report, NoReport
<1>1. /\ mapping \in Snapshots \cup {EmptyMapping}
      /\ lastUpdate \in Readings \cup {NoTime}
      /\ edits \in Versions
  BY DEF TypeOK, StateTypeOK, SourceTypeOK
<1>2. CASE Poll
  BY <1>2 DEF Poll
<1>3. CASE ReadMapping
  BY <1>1, <1>3 DEF ReadMapping
<1>4. CASE ReadLastUpdate
  <2> DEFINE r == [report EXCEPT !.update = lastUpdate]
  <2>1. /\ r.info = report.info /\ r.mapping = report.mapping /\ r.update = lastUpdate
        /\ r \in [info : BOOLEAN, mapping : Snapshots \cup {EmptyMapping},
                  update : Readings \cup {NoTime}]
    BY <1>1
  <2>2. CASE report.info
    BY <1>4, <2>1, <2>2 DEF ReadLastUpdate
  <2>3. CASE ~report.info
    <3>1. /\ field = "update" /\ field' = "none"
          /\ reported' = [mapping |-> r.mapping, update |-> r.update]
          /\ report' = NoReport
          /\ UNCHANGED <<readLocked, askedModified>>
      BY <1>4, <2>3 DEF ReadLastUpdate
    <3>2. reported' \in [mapping : Snapshots \cup {EmptyMapping},
                         update : Readings \cup {NoTime}]
      BY <2>1, <3>1
    <3>3. readLocked' \in BOOLEAN /\ (readLocked' <=> field' \in {"zero", "unlock"})
      BY <3>1
    <3> QED  BY <3>1, <3>2, <3>3
  <2> QED  BY <2>2, <2>3
<1>5. CASE LockModified
  BY <1>5 DEF LockModified
<1>6. CASE LookAtModified
  <2>1. CASE lastModified = NoTime
    BY <1>6, <2>1 DEF LookAtModified
  <2>2. CASE lastModified # NoTime
    BY <1>6, <2>2 DEF LookAtModified
  <2> QED  BY <2>1, <2>2
<1>7. CASE ReadModified
  BY <1>7 DEF ReadModified
<1>8. CASE AskModified
  BY <1>1, <1>8 DEF AskModified
<1>9. CASE AskFails
  BY <1>9 DEF AskFails
<1>10. CASE StoreModified
  BY <1>10 DEF StoreModified
<1> QED
  BY <1>2, <1>3, <1>4, <1>5, <1>6, <1>7, <1>8, <1>9, <1>10 DEF StatusHandler

LEMMA StatusTypesStep ==
    ASSUME StatusTypes, [StatusNext]_<<vars, statusVars>>
    PROVE  StatusTypes'
<1>1. CASE [Next]_vars /\ UNCHANGED statusVars
  BY <1>1, NextTypes, NextHolding DEF StatusTypes, StatusTypeOK, statusVars
<1>2. CASE Poll \/ StatusHandler
  BY <1>2, HandlerLeaves, HandlerTypes DEF StatusTypes
<1> QED  BY <1>1, <1>2, StatusSteps

\* The lock is held exactly where the handler looks at the modification time, and
\* what is read and answered is a mapping and a time (api.go:123-153,
\* google-sheets.go:321-332).
THEOREM StatusTypeCorrect == StatusSpec => []StatusTypeOK
<1>1. StatusTypes => StatusTypeOK
  BY DEF StatusTypes
<1> QED  BY <1>1, StatusInitTypes, StatusTypesStep, PTL DEF StatusSpec
-----------------------------------------------------------------------------
(* Dated answers.                                                          *)

\* Without a fallback file every mapping comes from Google, and lastUpdate is
\* stored before it is published.
PipelineDated ==
    /\ \A p \in Updaters :
          /\ pc[p] # "readFallback"
          /\ pc[p] \in {"request", "response"} => updateTime[p] # NoTime
          /\ pc[p] \in Publishing => lastUpdate # NoTime
    /\ \/ mapping # EmptyMapping
       \/ mappingInHand # NoMapping
       \/ mappingChannel # << >>
       => lastUpdate # NoTime

\* The handler reads the mapping first, and the time after it.
AnswerDated ==
    /\ report.mapping # EmptyMapping =>
          /\ lastUpdate # NoTime
          /\ field \notin {"none", "mapping", "update"} => report.update # NoTime
    /\ reported.mapping # EmptyMapping => reported.update # NoTime

Dated == UseFallbackFile \/ (PipelineDated /\ AnswerDated)

LEMMA InitDated == StatusInit => Dated
BY DEF StatusInit, Init, NewState, AtStart, Dated, PipelineDated, AnswerDated,
       NoReport, Publishing

\* No clock reading is the zero time.
LEMMA ReadingsAreTimes ==
    ASSUME NEW now \in Readings
    PROVE  now # NoTime
<1>1. PICK v \in Versions, s \in Skews : now = v + s
  BY DEF Readings
<1>2. v \in Int /\ s \in Int /\ FirstVersion \in Int
      /\ v >= FirstVersion /\ FirstVersion + s >= 0
  BY SheetsSourceAssumption DEF Versions
<1> QED  BY <1>1, <1>2 DEF NoTime

\* A step of a process that lives on keeps the pipeline dated.
LEMMA NextPipelineDated ==
    ASSUME TypeOK, Holding, ~UseFallbackFile, PipelineDated, MaxCrashes = 0, [Next]_vars
    PROVE  PipelineDated' /\ (lastUpdate # NoTime => lastUpdate' # NoTime)
<1> USE PipelineAssumption
    DEF Publishing, TypeOK, PipelineTypeOK, PipelineDated
<1>0. Clock \subseteq Readings
  BY DEF Clock, Readings, SourceTypeOK
<1>1. CASE Wake
  BY <1>1 DEF Wake, Goto, stateVars, mappingVars, sourceVars, localVars
<1>2. CASE NeedsUpdate
  BY <1>2
  DEF NeedsUpdate, CheckIsZero, QueryModified, QueryFails, KeepModified,
      CompareTimes, RetryAfterError, SkipUpdate, Return, Goto, AskDrive,
      StoreLastModified, stateVars,
      mappingVars, sourceVars, localVars
<1>3. ASSUME NEW p \in Updaters, UpdateRedirectMapping(p)
      PROVE  PipelineDated' /\ (lastUpdate # NoTime => lastUpdate' # NoTime)
  <2>1. CASE StartFetch(p)
    <3>1. PICK now \in Clock : updateTime' = [updateTime EXCEPT ![p] = now]
      BY <2>1 DEF StartFetch, StampFetch
    <3>2. now # NoTime
      BY <1>0, ReadingsAreTimes
    <3> QED
      BY <2>1, <3>1, <3>2
      DEF StartFetch, StampFetch, Goto, SourceTypeOK, stateVars, mappingVars, sourceVars
  <2>2. CASE RequestArrives(p)
    BY <2>2
    DEF RequestArrives, ServerReads, Goto, stateVars, mappingVars, sourceVars
  <2>3. CASE FetchReturns(p)
    <3>1. \A now \in Clock : now # NoTime
      BY <1>0, ReadingsAreTimes
    <3>2. lastUpdate' # NoTime
      BY <2>3, <3>1 DEF FetchReturns, updateLastUpdate, Goto
    <3>3. /\ pc[p] = "response" /\ pc' = [pc EXCEPT ![p] = "send"]
          /\ updateTime' = [updateTime EXCEPT ![p] = NoTime]
      BY <2>3 DEF FetchReturns, updateLastUpdate, Goto
    <3> QED
      BY <3>2, <3>3 DEF SourceTypeOK
  <2>4. CASE FetchFails(p)
    BY <2>4 DEF FetchFails, Return, Goto, stateVars, mappingVars, sourceVars, localVars
  <2>5. CASE ReadFallback(p) \/ ReadFallbackFails(p)
    BY <2>5 DEF ReadFallback, ReadFallbackFails, Return, Goto
  <2>6. CASE TruncateFallback(p) \/ WriteFallback(p) \/ WriteFails(p)
    BY <2>6
    DEF TruncateFallback, WriteFallback, WriteFails, Goto, stateVars, mappingVars,
        sourceVars, localVars
  <2>7. CASE Publish(p)
    BY <2>7 DEF Publish, Return, Goto, sourceVars, localVars
  <2> QED
    BY <1>3, <2>1, <2>2, <2>3, <2>4, <2>5, <2>6, <2>7 DEF UpdateRedirectMapping
<1>4. CASE FinishSetup
  BY <1>4 DEF FinishSetup, DropLocals, SourceTypeOK, stateVars, mappingVars, sourceVars
<1>5. CASE ReportOutcome
  BY <1>5 DEF ReportOutcome, SendError, Goto, DropLocals, SourceTypeOK, mappingVars,
              sourceVars
<1>6. ASSUME NEW c \in ApiCallers, Call(c)
      PROVE  PipelineDated' /\ (lastUpdate # NoTime => lastUpdate' # NoTime)
  BY <1>6 DEF Call, DropLocals, SourceTypeOK, stateVars, mappingVars, sourceVars
<1>7. ASSUME NEW c \in ApiCallers, Respond(c) \/ TimeoutCall(c)
      PROVE  PipelineDated' /\ (lastUpdate # NoTime => lastUpdate' # NoTime)
  BY <1>7 DEF Respond, TimeoutCall, stateVars, mappingVars, sourceVars, localVars
<1>8. CASE ListenForUpdates
  <2>1. CASE ReceiveMapping
    BY <1>8, <2>1
    DEF ListenForUpdates, ReceiveMapping, sourceVars, localVars, controlVars, processVars
  <2>2. CASE UpdateMapping
    BY <1>8, <2>2
    DEF ListenForUpdates, UpdateMapping, sourceVars, localVars, controlVars, processVars
  <2> QED  BY <1>8, <2>1, <2>2 DEF ListenForUpdates, updateListener
<1>9. CASE ListenForUpdateErrors
  BY <1>9
  DEF ListenForUpdateErrors, errorListener, ReceiveError, UpdateLastError,
      mappingVars, sourceVars, localVars, controlVars, processVars
<1>10. CASE EditSheet
  BY <1>10
  DEF EditSheet, Edit, stateVars, mappingVars, sourceVars, localVars,
      controlVars, processVars
<1>11. CASE Crash
  BY <1>11 DEF Crash
<1>12. CASE UNCHANGED vars
  BY <1>12
  DEF vars, stateVars, mappingVars, sourceVars, localVars, controlVars,
      processVars
<1>13. ASSUME NEW c \in ApiCallers, CompareTorn(c)
       PROVE  PipelineDated' /\ (lastUpdate # NoTime => lastUpdate' # NoTime)
  <2>1. \A now \in Clock : now # NoTime
    BY <1>0, ReadingsAreTimes
  <2>2. lastUpdate' # NoTime
    BY <1>13, <2>1 DEF CompareTorn, updateLastUpdate
  <2>3. PICK found \in {"fetch", "lastError"} :
           pc' = [pc EXCEPT ![Loop] = found, ![c] = "send"]
    BY <1>13 DEF CompareTorn
  <2>4. updateTime' = [updateTime EXCEPT ![c] = NoTime]
    BY <1>13 DEF CompareTorn, updateLastUpdate
  <2> QED
    BY <2>2, <2>3, <2>4 DEF SourceTypeOK
<1> QED
  BY <1>1, <1>2, <1>3, <1>4, <1>5, <1>6, <1>7, <1>8, <1>9, <1>10, <1>11, <1>12,
     <1>13
  DEF Next, Background, Handler

\* The handler dates what it answers.
LEMMA HandlerDated ==
    ASSUME StatusTypes, ~UseFallbackFile, PipelineDated, AnswerDated,
           Poll \/ StatusHandler
    PROVE  PipelineDated' /\ AnswerDated'
<1> USE DEF StatusTypes, StatusTypeOK, Read, Report, NoReport, AnswerDated
<1>1. UNCHANGED <<stateVars, lastUpdate, localVars, controlVars>>
  BY HandlerLeaves
<1>2. PipelineDated'
  BY <1>1 DEF PipelineDated, stateVars, mappingVars, localVars, controlVars, processVars
<1> SUFFICES AnswerDated'
  BY <1>2
<1>3. UNCHANGED lastUpdate
  BY <1>1
<1>4. mapping # EmptyMapping => lastUpdate # NoTime
  BY DEF PipelineDated
<1>5. CASE Poll
  BY <1>3, <1>5 DEF Poll
<1>6. CASE ReadMapping
  BY <1>3, <1>4, <1>6 DEF ReadMapping
<1>7. CASE ReadLastUpdate
  <2> DEFINE r == [report EXCEPT !.update = lastUpdate]
  <2>1. r.mapping = report.mapping /\ r.update = lastUpdate
    OBVIOUS
  <2>2. CASE report.info
    <3>1. report' = r /\ UNCHANGED reported
      BY <1>7, <2>2 DEF ReadLastUpdate
    <3> QED  BY <1>3, <2>1, <3>1
  <2>3. CASE ~report.info
    <3>1. reported' = [mapping |-> r.mapping, update |-> r.update]
          /\ report' = NoReport
      BY <1>7, <2>3 DEF ReadLastUpdate
    <3> QED  BY <1>3, <2>1, <3>1
  <2> QED  BY <2>2, <2>3
<1>8. CASE LockModified \/ LookAtModified \/ AskModified
  BY <1>3, <1>8 DEF LockModified, LookAtModified, AskModified
<1>9. CASE ReadModified \/ AskFails \/ StoreModified
  BY <1>3, <1>9 DEF ReadModified, AskFails, StoreModified
<1> QED
  BY <1>5, <1>6, <1>7, <1>8, <1>9 DEF StatusHandler

LEMMA DatedStep ==
    ASSUME StatusTypes, Dated, [StatusNext]_<<vars, statusVars>>
    PROVE  Dated'
<1>1. CASE UseFallbackFile
  BY <1>1 DEF Dated
<1>2. CASE ~UseFallbackFile
  <2>1. PipelineDated /\ AnswerDated
    BY <1>2 DEF Dated
  <2>2. CASE [Next]_vars /\ UNCHANGED statusVars
    <3>1. PipelineDated' /\ (lastUpdate # NoTime => lastUpdate' # NoTime)
      BY <1>2, <2>1, <2>2, NextPipelineDated, OneLife DEF StatusTypes
    <3>2. AnswerDated'
      BY <2>1, <2>2, <3>1 DEF AnswerDated, statusVars
    <3> QED  BY <3>1, <3>2 DEF Dated
  <2>3. CASE Poll \/ StatusHandler
    BY <1>2, <2>1, <2>3, HandlerDated DEF Dated
  <2> QED  BY <2>2, <2>3, StatusSteps
<1> QED  BY <1>1, <1>2

\* In every instance, however many updaters there are and whenever they come in
\* between its two reads, an answer that shows links says when they were updated,
\* unless they may come from a file (api.go:131-136, 146-152).
THEOREM ReportsDated == StatusSpec => []ReportDated
<1>1. Dated => ReportDated
  BY DEF Dated, AnswerDated, ReportDated
<1>2. StatusTypes /\ Dated /\ [StatusNext]_<<vars, statusVars>>
      => StatusTypes' /\ Dated'
  BY StatusTypesStep, DatedStep
<1> QED  BY <1>1, <1>2, StatusInitTypes, InitDated, PTL DEF StatusSpec
-----------------------------------------------------------------------------
(* Answers that advance.                                                   *)

\* The local clock keeps its distance to Google's.
SteadyClock == \A s, t \in Skews : s = t

\* lastUpdate is a reading that lies in the past, and so is the one the updater
\* is about to store.
ClockInOrder ==
    \A s \in Skews :
        /\ lastUpdate =< edits + s
        /\ pc[Loop] \in {"request", "response"} =>
              lastUpdate =< updateTime[Loop] /\ updateTime[Loop] =< edits + s

\* What the handler has read lies between the last answer and what there is now.
AnswerInOrder ==
    /\ reported.mapping =< mapping
    /\ reported.update =< lastUpdate
    /\ field \notin {"none", "mapping"} =>
          reported.mapping =< report.mapping /\ report.mapping =< mapping
    /\ field \notin {"none", "mapping", "update"} =>
          reported.update =< report.update /\ report.update =< lastUpdate

Advancing == OrderInv /\ StatusTypeOK /\ ClockInOrder /\ AnswerInOrder

LEMMA InitAdvancing == StatusInit => Advancing
<1> SUFFICES ASSUME StatusInit PROVE Advancing
  OBVIOUS
<1> USE DEF StatusInit
<1>1. OrderInv /\ StatusTypeOK
  BY InitIInv, StatusInitTypes DEF StatusTypes, IInv
<1>2. ClockInOrder
  BY SheetsSourceAssumption, PipelineAssumption
  DEF ClockInOrder, Init, SourceInit, AtStart, NoTime
<1>3. AnswerInOrder
  BY DEF AnswerInOrder, NoReport, Init, NewState, SourceInit, NoTime, EmptyMapping
<1> QED  BY <1>1, <1>2, <1>3 DEF Advancing

\* The clock that the updater stores goes forward.
LEMMA NextClockInOrder ==
    ASSUME Orderly, SteadyClock, OrderInv, ClockInOrder, MaxCrashes = 0, [Next]_vars
    PROVE  ClockInOrder' /\ lastUpdate' >= lastUpdate
<1> USE PipelineAssumption, SheetsSourceAssumption DEF Orderly, ClockInOrder
<1>0. /\ lastUpdate \in Int /\ edits \in Int /\ updateTime[Loop] \in Int
      /\ updateTime \in [Updaters -> Readings \cup {NoTime}]
      /\ pc \in [Updaters -> Steps] /\ Loop \in Updaters
      /\ Skews \subseteq Int
  BY IntegerTypes DEF OrderInv, TypeOK, PipelineTypeOK, SourceTypeOK
<1> HIDE PipelineAssumption, SheetsSourceAssumption
<1>1. CASE Wake
  BY <1>0, <1>1 DEF Wake, Goto, sheetVars, sourceVars, localVars
<1>2. CASE NeedsUpdate
  BY <1>0, <1>2
  DEF NeedsUpdate, CheckIsZero, QueryModified, QueryFails, KeepModified,
      CompareTimes, RetryAfterError, SkipUpdate, Return, Goto, AskDrive,
      StoreLastModified, CallFails,
      sheetVars, sourceVars, localVars
<1>3. ASSUME NEW p \in Updaters, UpdateRedirectMapping(p)
      PROVE  ClockInOrder' /\ lastUpdate' >= lastUpdate
  <2>0. p = Loop
    BY PipelineAssumption
  <2>1. CASE StartFetch(p)
    <3>1. PICK s \in Skews : updateTime' = [updateTime EXCEPT ![p] = edits + s]
      BY <2>1 DEF StartFetch, StampFetch, Clock
    <3>2. updateTime'[Loop] = edits + s
      BY <1>0, <2>0, <3>1
    <3>3. \A t \in Skews : edits + s = edits + t
      BY DEF SteadyClock
    <3>4. UNCHANGED <<edits, lastUpdate>>
      BY <2>1 DEF StartFetch, StampFetch, sheetVars, sourceVars
    <3> QED  BY <1>0, <3>2, <3>3, <3>4
  <2>2. CASE RequestArrives(p)
    BY <1>0, <2>0, <2>2 DEF RequestArrives, ServerReads, Goto, sheetVars, sourceVars
  <2>3. CASE FetchReturns(p)
    <3>1. /\ pc[Loop] = "response" /\ pc'[Loop] \in {"truncate", "send"}
          /\ lastUpdate' = updateTime[Loop] \/ lastUpdate' \in Clock
          /\ UNCHANGED edits
      BY <1>0, <2>0, <2>3 DEF FetchReturns, updateLastUpdate, Goto, sheetVars
    <3>2. PICK s \in Skews : TRUE
      BY SheetsSourceAssumption
    <3>3. CASE lastUpdate' = updateTime[Loop]
      <4>1. lastUpdate' >= lastUpdate
        BY <1>0, <3>1, <3>2, <3>3
      <4> QED  BY <1>0, <3>1, <3>3, <4>1
    <3>4. CASE lastUpdate' \in Clock
      <4>1. \A t \in Skews : lastUpdate' = edits + t
        BY <3>4 DEF Clock, SteadyClock
      <4>2. lastUpdate' >= lastUpdate
        BY <1>0, <3>2, <4>1
      <4> QED  BY <1>0, <3>1, <4>1, <4>2
    <3> QED  BY <3>1, <3>3, <3>4
  <2>4. CASE FetchFails(p)
    BY <1>0, <2>0, <2>4
    DEF FetchFails, Return, Goto, CallFails, sourceVars, localVars
  <2>5. CASE ReadFallback(p) \/ ReadFallbackFails(p)
    BY <1>0, <2>0, <2>5
    DEF ReadFallback, ReadFallbackFails, Return, Goto, sheetVars, sourceVars, localVars
  <2>6. CASE TruncateFallback(p) \/ WriteFallback(p) \/ WriteFails(p)
    BY <1>0, <2>0, <2>6
    DEF TruncateFallback, WriteFallback, WriteFails, Goto, sheetVars, sourceVars,
        localVars
  <2>7. CASE Publish(p)
    BY <1>0, <2>0, <2>7 DEF Publish, Return, Goto, sheetVars, sourceVars, localVars
  <2> QED
    BY <1>3, <2>1, <2>2, <2>3, <2>4, <2>5, <2>6, <2>7 DEF UpdateRedirectMapping
<1>4. CASE FinishSetup \/ ReportOutcome
  BY <1>0, <1>4
  DEF FinishSetup, ReportOutcome, Goto, sheetVars, sourceVars
<1>5. CASE \E c \in ApiCallers :
             Call(c) \/ Handler(c) \/ TimeoutCall(c) \/ CompareTorn(c)
  BY <1>5
<1>6. CASE ListenForUpdates \/ ListenForUpdateErrors
  BY <1>0, <1>6
  DEF ListenForUpdates, ListenForUpdateErrors, sheetVars, sourceVars, localVars,
      controlVars, processVars
<1>7. CASE EditSheet
  BY <1>0, <1>7 DEF EditSheet, Edit, sourceVars, localVars, controlVars, processVars
<1>8. CASE Crash
  BY <1>8 DEF Crash, OrderInv, TypeOK, PipelineTypeOK
<1>9. CASE UNCHANGED vars
  BY <1>0, <1>9 DEF vars, sheetVars, sourceVars, localVars, controlVars, processVars
<1> QED
  BY <1>0, <1>1, <1>2, <1>3, <1>4, <1>5, <1>6, <1>7, <1>8, <1>9 DEF Next, Background

\* The handler answers with what it has read, and reads what there is.
LEMMA HandlerAdvances ==
    ASSUME Advancing, Poll \/ StatusHandler
    PROVE  /\ Advancing'
           /\ reported'.mapping >= reported.mapping
           /\ reported'.update >= reported.update
<1> DEFINE Later == /\ reported'.mapping >= reported.mapping
                    /\ reported'.update >= reported.update
<1>1. StatusTypes
  BY DEF Advancing, OrderInv, StatusTypes
<1>2. /\ UNCHANGED <<stateVars, fileVars, edits, lastUpdate, localVars, controlVars>>
      /\ TypeOK' /\ Holding' /\ StatusTypeOK'
  BY <1>1, HandlerLeaves, HandlerTypes
<1>3. OrderInv'
  BY <1>2, UnrelatedStep
  DEF Advancing, OrderInv, Kept, stateVars, fileVars, localVars, controlVars, processVars
<1>4. ClockInOrder'
  BY <1>2 DEF Advancing, ClockInOrder, localVars, controlVars, processVars
<1>5. /\ mapping \in Int /\ lastUpdate \in Int
      /\ reported.mapping \in Int /\ reported.update \in Int
      /\ report.mapping \in Int /\ report.update \in Int
  <2>1. Snapshots \subseteq Int /\ Readings \subseteq Int
        /\ EmptyMapping \in Int /\ NoTime \in Int
    BY SheetsSourceAssumption DEF Snapshots, Readings, Versions, EmptyMapping, NoTime
  <2> QED  BY <1>1, <2>1, IntegerTypes DEF StatusTypes, StatusTypeOK
<1>6. UNCHANGED <<mapping, lastUpdate>>
  BY <1>2 DEF stateVars, mappingVars
<1>7. AnswerInOrder
  BY DEF Advancing
<1>8. AnswerInOrder' /\ Later
  <2> USE <1>5, <1>6, <1>7 DEF AnswerInOrder, Read, Report, NoReport
  <2>1. CASE Poll
    BY <2>1 DEF Poll
  <2>2. CASE ReadMapping
    <3>1. /\ report'.mapping = mapping /\ UNCHANGED reported
          /\ field' = "update"
      BY <1>1, <2>2 DEF ReadMapping, StatusTypes, StatusTypeOK
    <3> QED  BY <3>1
  <2>3. CASE ReadLastUpdate
    <3> DEFINE r == [report EXCEPT !.update = lastUpdate]
    <3>1. r.mapping = report.mapping /\ r.update = lastUpdate
      BY <1>1 DEF StatusTypes, StatusTypeOK
    <3>2. field = "update"
      BY <2>3 DEF ReadLastUpdate
    <3>3. CASE report.info
      <4>1. report' = r /\ UNCHANGED reported
        BY <2>3, <3>3 DEF ReadLastUpdate
      <4> QED  BY <3>1, <3>2, <4>1
    <3>4. CASE ~report.info
      <4>1. /\ field' = "none"
            /\ reported' = [mapping |-> r.mapping, update |-> r.update]
        BY <2>3, <3>4 DEF ReadLastUpdate
      <4> QED  BY <3>1, <3>2, <4>1
    <3> QED  BY <3>3, <3>4
  <2>4. CASE LockModified \/ LookAtModified \/ AskModified
    BY <2>4 DEF LockModified, LookAtModified, AskModified
  <2>5. CASE ReadModified \/ AskFails \/ StoreModified
    BY <2>5 DEF ReadModified, AskFails, StoreModified
  <2> QED
    BY <2>1, <2>2, <2>3, <2>4, <2>5 DEF StatusHandler
<1> QED  BY <1>2, <1>3, <1>4, <1>8 DEF Advancing

LEMMA AdvancingStep ==
    ASSUME Orderly, SteadyClock, Advancing, [StatusNext]_<<vars, statusVars>>
    PROVE  /\ Advancing'
           /\ [/\ reported'.mapping >= reported.mapping
               /\ reported'.update >= reported.update]_reported
<1>1. CASE [Next]_vars /\ UNCHANGED statusVars
  <2>1. OrderInv' /\ ClockInOrder' /\ lastUpdate' >= lastUpdate
    BY <1>1, NextOrderInv, NextClockInOrder, OneLife DEF Advancing
  <2>2. mapping' >= mapping
    <3>1. crashes' = crashes
      BY <2>1, OneLife DEF Advancing, OrderInv, TypeOK, PipelineTypeOK
    <3>2. CASE Next
      BY <3>1, <3>2, LiveMovesForward DEF Advancing
    <3>3. CASE UNCHANGED vars
      BY <3>3, IntegerTypes DEF Advancing, OrderInv, vars, stateVars, mappingVars
    <3> QED  BY <1>1, <3>2, <3>3
  <2>3. UNCHANGED <<field, report, reported, readLocked, askedModified>>
    BY <1>1 DEF statusVars
  <2>4. StatusTypeOK'
    BY <2>3 DEF Advancing, StatusTypeOK
  <2>5. /\ mapping \in Int /\ lastUpdate \in Int
        /\ mapping' \in Int /\ lastUpdate' \in Int
        /\ reported.mapping \in Int /\ reported.update \in Int
        /\ report.mapping \in Int /\ report.update \in Int
    <3>1. Snapshots \subseteq Int /\ Readings \subseteq Int
          /\ EmptyMapping \in Int /\ NoTime \in Int
      BY SheetsSourceAssumption
      DEF Snapshots, Readings, Versions, EmptyMapping, NoTime
    <3>2. TypeOK /\ TypeOK'
      BY <2>1 DEF Advancing, OrderInv
    <3>3. /\ mapping' \in Snapshots \cup {EmptyMapping}
          /\ lastUpdate' \in Readings \cup {NoTime}
      BY <3>2 DEF TypeOK, StateTypeOK, SourceTypeOK
    <3> QED  BY <3>1, <3>2, <3>3, IntegerTypes DEF Advancing, StatusTypeOK
  <2>6. AnswerInOrder'
    BY <2>1, <2>2, <2>3, <2>5 DEF Advancing, AnswerInOrder
  <2> QED  BY <2>1, <2>3, <2>4, <2>6 DEF Advancing
<1>2. CASE Poll \/ StatusHandler
  BY <1>2, HandlerAdvances
<1> QED  BY <1>1, <1>2, StatusSteps

\* With one updater, a disk that works and a clock that keeps its distance to
\* Google's, no answer goes back behind an earlier one, in its links or in its time,
\* with or without a fallback file and whatever calls fail (api.go:123-153).
THEOREM AnswersAdvance ==
    ASSUME Orderly, SteadyClock
    PROVE  StatusSpec => ReportsAdvance
<1>1. Advancing /\ [StatusNext]_<<vars, statusVars>>
      => /\ Advancing'
         /\ [/\ reported'.mapping >= reported.mapping
             /\ reported'.update >= reported.update]_reported
  BY AdvancingStep
<1> QED  BY <1>1, InitAdvancing, PTL DEF StatusSpec, ReportsAdvance
=============================================================================
