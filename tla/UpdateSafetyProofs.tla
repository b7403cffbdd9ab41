------------------------ MODULE UpdateSafetyProofs ------------------------
(***************************************************************************)
(* The safety of production instances of the update pipeline: IInv is an   *)
(* inductive invariant, and the safety properties follow from it.          *)
(***************************************************************************)
EXTENDS UpdatePipelineProofs

\* The clock's lead is a number, and never negative.
LEMMA LeadsAreNatural == \A lead \in Leads : lead \in Nat
<1> SUFFICES ASSUME NEW lead \in Leads PROVE lead \in Nat
  OBVIOUS
<1>1. lead \in Int
  BY SheetsSourceAssumption DEF Leads
<1>2. 0 \in Skews \cup {0}
  OBVIOUS
<1>3. 0 =< lead
  BY <1>2 DEF Leads
<1> QED  BY <1>1, <1>3

\* Versions and clock readings are integers.
LEMMA IntegerTypes ==
    ASSUME TypeOK
    PROVE  /\ mapping \in Int /\ mappingInHand \in Int
           /\ \A i \in 1..Len(mappingChannel) : mappingChannel[i] \in Int
           /\ edits \in Int /\ lastUpdate \in Int
           /\ updateTime[Loop] \in Int /\ fetched[Loop] \in Int
           /\ file.version \in Int
<1> USE SheetsSourceAssumption, PipelineAssumption DEF TypeOK
<1>1. Snapshots \subseteq Int /\ Versions \subseteq Int /\ Readings \subseteq Int
  BY DEF Snapshots, Versions, Readings
<1>0. NoTime \in Int /\ NoVersion \in Int
  BY DEF NoTime, NoVersion
<1>2. mapping \in Int /\ mappingInHand \in Int
  BY <1>1 DEF StateTypeOK, EmptyMapping, NoMapping
<1>3. \A i \in 1..Len(mappingChannel) : mappingChannel[i] \in Int
  <2>1. \A i \in 1..Len(mappingChannel) : mappingChannel[i] \in Snapshots
    BY DEF StateTypeOK
  <2> QED  BY <1>1, <2>1
<1>4. edits \in Int /\ lastUpdate \in Int
  BY <1>1 DEF SourceTypeOK, NoTime
<1>5. updateTime[Loop] \in Int /\ fetched[Loop] \in Int
  <2>1. /\ updateTime[Loop] \in Readings \cup {NoTime}
        /\ fetched[Loop] \in Snapshots \cup {0}
    BY DEF SourceTypeOK
  <2>2. updateTime[Loop] \in Int
    BY <1>0, <1>1, <2>1
  <2>3. fetched[Loop] \in Int
    <3>1. 0 \in Int
      OBVIOUS
    <3> QED  BY <1>1, <2>1, <3>1, Zenon
  <2> QED  BY <2>2, <2>3
<1>6. file.version \in Int
  <2>1. file.version \in Snapshots \cup {NoVersion}
    BY DEF FileTypeOK
  <2> QED  BY <1>0, <1>1, <2>1
<1> QED  BY <1>2, <1>3, <1>4, <1>5, <1>6

LEMMA NewestInteger ==
    ASSUME TypeOK
    PROVE  /\ NewestPublished \in Int
           /\ \A n \in Int : Covers(n) => NewestPublished =< n
<1>1. mappingChannel # << >> => Len(mappingChannel) \in 1..Len(mappingChannel)
  BY DEF TypeOK, StateTypeOK
<1> QED  BY <1>1, IntegerTypes DEF NewestPublished, Covers, EmptyMapping

LEMMA InitIInv == Init => IInv
<1> SUFFICES ASSUME Init PROVE IInv
  OBVIOUS
<1> USE DEF Init, NewState, EmptyMapping, NoMapping
<1>1. TypeOK /\ Holding
  BY InitTypes, InitHolding
<1>2. pc[Loop] = "isZero" /\ fetched[Loop] = 0
  BY PipelineAssumption DEF AtStart, SourceInit, NothingFetched
<1>3. \A n \in Nat : Covers(n)
  BY DEF Covers
<1>4. edits \in Nat
  BY SheetsSourceAssumption DEF SourceInit
<1>5. InOrder
  BY DEF InOrder
<1>6. HeldInOrder
  BY <1>2, <1>3, <1>4 DEF HeldInOrder, Publishing
<1>7. FileInOrder
  <2>1. Readable => /\ file.version \in Nat
                    /\ file.version =< edits
    BY PipelineAssumption, SheetsSourceAssumption
    DEF FileInit, Readable, Absent, Snapshot, SourceInit
  <2> QED  BY <1>2, <1>3, <2>1 DEF FileInOrder
<1>8. Honest
  <2>1. lastUpdate = -1 /\ NewestPublished = 0
    <3>1. NewestPublished = mapping
      BY Zenon DEF NewestPublished
    <3> QED  BY <3>1 DEF SourceInit, NoTime
  <2>2. Readable => file.version \in Nat
    BY PipelineAssumption, SheetsSourceAssumption
    DEF FileInit, Readable, Absent, Snapshot
  <2> QED  BY <1>2, <2>1, <2>2, LeadsAreNatural DEF Honest, Publishing
<1> QED  BY <1>1, <1>5, <1>6, <1>7, <1>8 DEF OrderInv, IInv

\* The order survives a step, and so does the honesty of the stored time.
Kept == /\ InOrder' /\ HeldInOrder' /\ FileInOrder'
        /\ EmptyVersions = {} /\ Honest => Honest'

\* A step that publishes nothing, and moves the updater between places where it
\* neither fetches nor publishes, keeps everything in order.
Quiet ==
    /\ UNCHANGED <<mappingVars, file, edits, lastUpdate>>
    /\ fetched'[Loop] \in {fetched[Loop], 0}
    /\ pc[Loop] \notin Publishing
    /\ pc'[Loop] \notin Publishing \cup {"request", "response", "readFallback"}

LEMMA QuietStep ==
    ASSUME OrderInv, Quiet
    PROVE  Kept
<1> USE DEF Kept, OrderInv, Quiet, mappingVars
<1>1. InOrder'
  BY DEF InOrder
<1>2. Covers(edits)' /\ 0 =< edits
  BY SheetsSourceAssumption
  DEF HeldInOrder, Covers, TypeOK, SourceTypeOK, Versions
<1>3. HeldInOrder'
  BY <1>2, IntegerTypes DEF HeldInOrder
<1>4. EmptyVersions = {} /\ Honest => Honest'
  BY DEF Honest, NewestPublished, Readable, Publishing
<1>5. FileInOrder'
  BY DEF FileInOrder, Readable, Covers, Publishing
<1> QED  BY <1>1, <1>3, <1>4, <1>5

\* The steps of the updater that fetch.
LEMMA FetchSteps ==
    ASSUME Orderly, OrderInv,
           StartFetch(Loop) \/ RequestArrives(Loop) \/ FetchReturns(Loop)
           \/ FetchFails(Loop)
    PROVE  Kept
<1> USE PipelineAssumption, IntegerTypes, LeadsAreNatural DEF Kept, OrderInv
<1>0. pc \in [Updaters -> Steps] /\ Loop \in Updaters
  BY DEF TypeOK, PipelineTypeOK
<1>1. CASE StartFetch(Loop)
  <2>1. /\ pc[Loop] = "fetch" /\ pc'[Loop] = "request"
        /\ UNCHANGED <<mappingVars, fileVars, edits, lastUpdate, fetched>>
    BY <1>0, <1>1
    DEF StartFetch, Goto, StampFetch, stateVars, sheetVars, sourceVars
  <2>2. \A lead \in Leads : updateTime'[Loop] =< edits + lead
    <3>1. PICK now \in Clock : updateTime' = [updateTime EXCEPT ![Loop] = now]
      BY <1>1 DEF StartFetch, StampFetch
    <3>2. updateTime'[Loop] = now
      BY <1>0, <3>1 DEF TypeOK, SourceTypeOK
    <3>3. \A lead \in Leads : now =< edits + lead
      BY SheetsSourceAssumption DEF Clock, Leads
    <3> QED  BY <3>2, <3>3
  <2>3. InOrder' /\ HeldInOrder'
    BY <2>1 DEF InOrder, HeldInOrder, Covers, mappingVars, Publishing
  <2>4. EmptyVersions = {} /\ Honest => Honest'
    BY <2>1, <2>2
    DEF Honest, NewestPublished, Readable, mappingVars, fileVars, Publishing
  <2>5. FileInOrder'
    BY <2>1 DEF FileInOrder, Readable, Covers, mappingVars, fileVars
  <2> QED  BY <2>3, <2>4, <2>5
<1>2. CASE RequestArrives(Loop)
  <2>1. /\ pc[Loop] = "request" /\ pc'[Loop] = "response"
        /\ fetched'[Loop] = edits
        /\ UNCHANGED <<mappingVars, fileVars, edits, lastUpdate, updateTime>>
    BY <1>0, <1>2
    DEF RequestArrives, Goto, ServerReads, stateVars, sheetVars, sourceVars,
        TypeOK, SourceTypeOK
  <2>2. InOrder' /\ HeldInOrder'
    BY <2>1 DEF InOrder, HeldInOrder, Covers, mappingVars
  <2>3. EmptyVersions = {} /\ Honest => Honest'
    BY <2>1
    DEF Honest, NewestPublished, Readable, mappingVars, fileVars, Publishing
  <2>4. FileInOrder'
    BY <2>1 DEF FileInOrder, Readable, Covers, mappingVars, fileVars
  <2> QED  BY <2>2, <2>3, <2>4
<1>3. CASE FetchReturns(Loop)
  <2>1. /\ pc[Loop] = "response"
        /\ pc'[Loop] = IF UseFallbackFile THEN "truncate" ELSE "send"
        /\ EmptyVersions = {} => lastUpdate' = updateTime[Loop]
        /\ UNCHANGED <<mappingVars, fileVars, edits, fetched>>
    BY <1>0, <1>3
    DEF FetchReturns, Goto, updateLastUpdate, stateVars, sheetVars
  <2>2. InOrder' /\ HeldInOrder'
    BY <2>1 DEF InOrder, HeldInOrder, Covers, mappingVars, Publishing
  <2>3. EmptyVersions = {} /\ Honest => Honest'
    BY <2>1 DEF Honest, Publishing, FileInOrder
  <2>4. FileInOrder'
    BY <2>1 DEF FileInOrder, Readable, Covers, mappingVars, fileVars
  <2> QED  BY <2>2, <2>3, <2>4
<1>4. CASE FetchFails(Loop)
  <2>1. /\ pc[Loop] \in {"request", "response"}
        /\ pc'[Loop] = IF UseFallbackFile THEN "readFallback" ELSE "returned"
        /\ UNCHANGED <<mappingVars, fileVars, edits, lastUpdate, fetched>>
    BY <1>0, <1>4
    DEF FetchFails, Goto, Return, CallFails, stateVars, sourceVars, localVars
  <2>2. InOrder' /\ HeldInOrder'
    BY <2>1 DEF InOrder, HeldInOrder, Covers, mappingVars, Publishing
  <2>3. EmptyVersions = {} /\ Honest => Honest'
    BY <2>1
    DEF Honest, NewestPublished, Readable, mappingVars, fileVars, Publishing
  <2>4. FileInOrder'
    BY <2>1 DEF FileInOrder, Readable, Covers, mappingVars, fileVars
  <2> QED  BY <2>2, <2>3, <2>4
<1> QED  BY <1>1, <1>2, <1>3, <1>4

\* The steps of the updater that read and write the fallback file.
LEMMA FileSteps ==
    ASSUME Orderly, OrderInv,
           ReadFallback(Loop) \/ TruncateFallback(Loop) \/ WriteFallback(Loop)
    PROVE  Kept
<1> USE PipelineAssumption, IntegerTypes, LeadsAreNatural DEF Kept, OrderInv
<1>0. /\ pc \in [Updaters -> Steps] /\ Loop \in Updaters
      /\ \A v \in Snapshots : SnapshotSize[v] \in Nat \ {0}
  BY FallbackFileAssumption DEF TypeOK, PipelineTypeOK
<1>1. CASE ReadFallback(Loop)
  <2>1. /\ pc[Loop] = "readFallback" /\ pc'[Loop] = "truncate"
        /\ fetched'[Loop] = file.version
        /\ Readable /\ UseFallbackFile
        /\ UNCHANGED <<mappingVars, fileVars, edits, lastUpdate, updateTime>>
    BY <1>0, <1>1
    DEF ReadFallback, Goto, stateVars, sheetVars, sourceVars, TypeOK,
        SourceTypeOK, FileInOrder
  <2>2. Covers(file.version) /\ file.version =< edits
    BY <2>1 DEF FileInOrder
  <2>3. InOrder' /\ HeldInOrder'
    BY <2>1, <2>2 DEF InOrder, HeldInOrder, Covers, mappingVars
  <2>4. EmptyVersions = {} /\ Honest => Honest'
    <3>1. (UseFallbackFile /\ Readable)' => UseFallbackFile /\ Readable
      BY <2>1
    <3>2. Honest => \A lead \in Leads : lastUpdate' =< file.version + lead
      BY <2>1 DEF Honest
    <3> QED  BY <2>1, <3>1, <3>2 DEF Honest, Publishing
  <2>5. FileInOrder'
    BY <2>1 DEF FileInOrder, Readable, Covers, mappingVars, fileVars
  <2> QED  BY <2>3, <2>4, <2>5
<1>2. CASE TruncateFallback(Loop)
  <2>1. /\ pc[Loop] = "truncate" /\ pc'[Loop] = "write"
        /\ file' = [file EXCEPT !.length = 0]
        /\ UNCHANGED <<mappingVars, edits, lastUpdate, updateTime, fetched>>
    BY <1>0, <1>2
    DEF TruncateFallback, Goto, Truncate, stateVars, sheetVars, sourceVars,
        localVars
  <2>2. InOrder' /\ HeldInOrder'
    BY <2>1 DEF InOrder, HeldInOrder, Covers, mappingVars, Publishing
  <2>3. file'.length = 0 /\ ~Readable'
    BY <1>0, <2>1 DEF Readable, TypeOK, FileTypeOK
  <2>4. EmptyVersions = {} /\ Honest => Honest'
    BY <2>1, <2>3 DEF Honest, Publishing
  <2>5. FileInOrder'
    BY <2>1, <2>3 DEF FileInOrder
  <2> QED  BY <2>2, <2>4, <2>5
<1>3. CASE WriteFallback(Loop)
  <2>1. /\ pc[Loop] = "write" /\ pc'[Loop] = "send"
        /\ Overwrite(fetched[Loop])
        /\ UNCHANGED <<mappingVars, edits, lastUpdate, updateTime, fetched>>
    BY <1>0, <1>3
    DEF WriteFallback, Goto, stateVars, sheetVars, sourceVars, localVars
  <2>2. InOrder' /\ HeldInOrder'
    BY <2>1 DEF InOrder, HeldInOrder, Covers, mappingVars, Publishing
  <2>3. fetched[Loop] \in Snapshots /\ file.length = 0
    BY <1>0, <2>1 DEF Holding, FileInOrder, Publishing
  <2>4. /\ file'.version = fetched[Loop]
        /\ file'.length = SnapshotSize[fetched[Loop]]
    BY <1>0, <2>1, <2>3 DEF Overwrite
  <2>5. Readable'
    BY <2>3, <2>4 DEF Readable, Snapshots, NoVersion
  <2>6. EmptyVersions = {} /\ Honest => Honest'
    <3>1. Honest => \A lead \in Leads : lastUpdate' =< lead + fetched'[Loop]
      BY <2>1 DEF Honest, Publishing
    <3>2. \A lead \in Leads : lead + fetched'[Loop] = file'.version + lead
      BY <2>1, <2>4
    <3>3. Honest => \A lead \in Leads : lastUpdate' =< file'.version + lead
      BY <3>1, <3>2
    <3> QED  BY <2>1, <3>1, <3>3 DEF Honest, Publishing
  <2>7. FileInOrder'
    BY <2>1, <2>4, <2>5
    DEF FileInOrder, HeldInOrder, Covers, mappingVars, Publishing
  <2> QED  BY <2>2, <2>6, <2>7
<1> QED  BY <1>1, <1>2, <1>3

\* Publishing appends a mapping that covers the channel.
LEMMA PublishStep ==
    ASSUME Orderly, OrderInv, Publish(Loop)
    PROVE  Kept
<1> USE PipelineAssumption, IntegerTypes DEF Kept, OrderInv
<1>1. /\ pc[Loop] = "send" /\ pc'[Loop] = "returned"
      /\ mappingChannel' = Append(mappingChannel, fetched[Loop])
      /\ UNCHANGED <<mapping, mappingInHand, file, edits, lastUpdate, updateTime,
                     fetched>>
  BY DEF Publish, Return, Goto, SendMapping, sheetVars, sourceVars, localVars,
         fileVars, TypeOK, PipelineTypeOK
<1>2. /\ Len(mappingChannel') = Len(mappingChannel) + 1
      /\ \A i \in 1..Len(mappingChannel) :
            mappingChannel'[i] = mappingChannel[i]
      /\ mappingChannel'[Len(mappingChannel) + 1] = fetched[Loop]
      /\ mappingChannel' # << >>
      /\ Len(mappingChannel) \in Nat
  <2>1. mappingChannel \in Seq(Snapshots) /\ fetched[Loop] \in Snapshots
    BY <1>1 DEF TypeOK, StateTypeOK, Holding, Publishing
  <2> QED  BY <1>1, <2>1
<1>3. Covers(fetched[Loop])
  BY <1>1 DEF HeldInOrder, Publishing
<1>4. InOrder'
  <2> DEFINE n == Len(mappingChannel)
  <2>1. \A i \in 1..(n + 1) : i \in 1..n \/ i = n + 1
    BY <1>2
  <2>2. \A i \in 1..(n + 1) : /\ mapping =< mappingChannel'[i]
                              /\ mappingInHand =< mappingChannel'[i]
    BY <1>2, <1>3, <2>1 DEF InOrder, Covers
  <2>3. \A i, j \in 1..(n + 1) :
           i =< j => mappingChannel'[i] =< mappingChannel'[j]
    <3> SUFFICES ASSUME NEW i \in 1..(n + 1), NEW j \in 1..(n + 1), i =< j
                 PROVE  mappingChannel'[i] =< mappingChannel'[j]
      OBVIOUS
    <3>1. CASE j \in 1..n
      BY <1>2, <3>1 DEF InOrder
    <3>2. CASE j = n + 1
      BY <1>2, <1>3, <2>1, <3>2 DEF Covers
    <3> QED  BY <2>1, <3>1, <3>2
  <2> QED  BY <1>1, <1>2, <2>2, <2>3 DEF InOrder
<1>5. Covers(fetched[Loop])' /\ Covers(edits)'
  <2>1. \A i \in 1..Len(mappingChannel') : mappingChannel'[i] =< fetched[Loop]
    <3> SUFFICES ASSUME NEW i \in 1..Len(mappingChannel')
                 PROVE  mappingChannel'[i] =< fetched[Loop]
      OBVIOUS
    <3>1. CASE i = Len(mappingChannel) + 1
      BY <1>2, <3>1
    <3>2. CASE i # Len(mappingChannel) + 1
      <4>1. i \in 1..Len(mappingChannel)
        BY <1>2, <3>2
      <4> QED  BY <1>2, <1>3, <4>1 DEF Covers
    <3> QED  BY <3>1, <3>2
  <2>2. fetched[Loop] =< edits
    BY DEF HeldInOrder
  <2>3. \A i \in 1..Len(mappingChannel') : mappingChannel'[i] \in Int
    BY <1>2
  <2> QED  BY <1>1, <1>3, <2>1, <2>2, <2>3 DEF Covers
<1>6. HeldInOrder'
  BY <1>1, <1>5 DEF HeldInOrder, Publishing
<1>7. EmptyVersions = {} /\ Honest => Honest'
  <2>1. NewestPublished' = fetched[Loop]
    BY <1>1, <1>2 DEF NewestPublished
  <2> QED
    BY <1>1, <2>1, LeadsAreNatural DEF Honest, Publishing, Readable
<1>8. FileInOrder'
  <2>1. Readable' <=> Readable
    BY <1>1 DEF Readable
  <2>2. UseFallbackFile => Readable /\ file.version = fetched[Loop]
    BY <1>1 DEF FileInOrder
  <2>3. UseFallbackFile => Covers(file.version)'
    BY <1>1, <1>5, <2>2 DEF Covers
  <2> QED  BY <1>1, <1>3, <2>1, <2>2, <2>3 DEF FileInOrder, HeldInOrder
<1> QED  BY <1>4, <1>6, <1>7, <1>8

\* The listener takes the oldest mapping out of the channel and applies it.
LEMMA ListenerSteps ==
    ASSUME OrderInv, ListenForUpdates
    PROVE  Kept
<1> USE IntegerTypes, LeadsAreNatural DEF Kept, OrderInv
<1>0. UNCHANGED <<file, edits, lastUpdate, updateTime, fetched, pc>>
  BY DEF ListenForUpdates, fileVars, sheetVars, sourceVars, localVars,
         controlVars, processVars
<1>1. CASE ReceiveMapping
  <2>1. /\ mappingInHand = NoMapping /\ mappingChannel # << >>
        /\ mappingInHand' = Head(mappingChannel)
        /\ mappingChannel' = Tail(mappingChannel)
        /\ mapping' = mapping
    BY <1>1 DEF ReceiveMapping
  <2>2. /\ Len(mappingChannel) \in Nat /\ Len(mappingChannel) >= 1
        /\ Len(mappingChannel') = Len(mappingChannel) - 1
        /\ mappingInHand' = mappingChannel[1]
        /\ \A i \in 1..Len(mappingChannel') :
              mappingChannel'[i] = mappingChannel[i + 1]
    <3>1. mappingChannel \in Seq(Snapshots)
      BY DEF TypeOK, StateTypeOK
    <3> QED  BY <2>1, <3>1
  <2>3. \A i \in 1..Len(mappingChannel') : i + 1 \in 1..Len(mappingChannel)
    BY <2>2
  <2>4. InOrder'
    <3>1. mapping =< mappingInHand'
      BY <2>1, <2>2 DEF InOrder
    <3>2. \A i \in 1..Len(mappingChannel') :
             /\ mapping =< mappingChannel'[i]
             /\ mappingInHand' =< mappingChannel'[i]
      <4> SUFFICES ASSUME NEW i \in 1..Len(mappingChannel')
                   PROVE  /\ mapping =< mappingChannel[i + 1]
                          /\ mappingChannel[1] =< mappingChannel[i + 1]
        BY <2>2
      <4>1. 1 \in 1..Len(mappingChannel) /\ i + 1 \in 1..Len(mappingChannel)
            /\ 1 =< i + 1
        BY <2>2, <2>3
      <4> QED  BY <4>1 DEF InOrder
    <3>3. \A i, j \in 1..Len(mappingChannel') :
             i =< j => mappingChannel'[i] =< mappingChannel'[j]
      <4> SUFFICES ASSUME NEW i \in 1..Len(mappingChannel'),
                          NEW j \in 1..Len(mappingChannel'), i =< j
                   PROVE  mappingChannel[i + 1] =< mappingChannel[j + 1]
        BY <2>2
      <4>1. /\ i + 1 \in 1..Len(mappingChannel)
            /\ j + 1 \in 1..Len(mappingChannel) /\ i + 1 =< j + 1
        BY <2>2, <2>3
      <4> QED  BY <4>1 DEF InOrder
    <3> QED  BY <2>1, <3>1, <3>2, <3>3 DEF InOrder
  <2>5. \A n \in Int : Covers(n) => Covers(n)'
    BY <2>1, <2>2, <2>3 DEF Covers
  <2>6. NewestPublished' = NewestPublished
    <3>1. CASE Len(mappingChannel) = 1
      <4>1. mappingChannel' = << >>
        BY <2>1, <2>2, <3>1 DEF TypeOK, StateTypeOK
      <4>2. mappingInHand' # NoMapping
        <5>1. mappingChannel[1] \in Snapshots
          BY <2>2 DEF TypeOK, StateTypeOK
        <5> QED  BY <2>2, <5>1 DEF Snapshots, NoMapping
      <4> QED  BY <2>1, <2>2, <3>1, <4>1, <4>2 DEF NewestPublished
    <3>2. CASE Len(mappingChannel) # 1
      <4>1. mappingChannel' # << >>
        BY <2>2, <3>2
      <4> QED  BY <2>1, <2>2, <3>2, <4>1 DEF NewestPublished
    <3> QED  BY <3>1, <3>2
  <2>7. HeldInOrder'
    BY <1>0, <2>5 DEF HeldInOrder, Covers
  <2>8. EmptyVersions = {} /\ Honest => Honest'
    BY <1>0, <2>6 DEF Honest, Readable
  <2>9. FileInOrder'
    BY <1>0, <2>1, <2>5 DEF FileInOrder, Readable, Covers
  <2> QED  BY <2>4, <2>7, <2>8, <2>9
<1>2. CASE UpdateMapping
  <2>1. /\ mappingInHand # NoMapping
        /\ mapping' = mappingInHand /\ mappingInHand' = NoMapping
        /\ mappingChannel' = mappingChannel
    BY <1>2 DEF UpdateMapping
  <2>2. InOrder'
    <3>1. \A i \in 1..Len(mappingChannel) : NoMapping =< mappingChannel[i]
      <4>1. \A i \in 1..Len(mappingChannel) : mappingChannel[i] \in Snapshots
        BY DEF TypeOK, StateTypeOK
      <4> QED  BY <4>1 DEF Snapshots, NoMapping
    <3> QED  BY <2>1, <3>1 DEF InOrder
  <2>3. \A n \in Int : Covers(n) => Covers(n)'
    <3>1. NoMapping =< mappingInHand /\ NoMapping \in Int
      BY DEF TypeOK, StateTypeOK, Snapshots, NoMapping
    <3> QED  BY <2>1, <3>1 DEF Covers
  <2>4. NewestPublished' = NewestPublished
    BY <2>1 DEF NewestPublished
  <2>5. HeldInOrder'
    BY <1>0, <2>3 DEF HeldInOrder, Covers
  <2>6. EmptyVersions = {} /\ Honest => Honest'
    BY <1>0, <2>4 DEF Honest, Readable
  <2>7. FileInOrder'
    BY <1>0, <2>1, <2>3 DEF FileInOrder, Readable, Covers
  <2> QED  BY <2>2, <2>5, <2>6, <2>7
<1> QED  BY <1>1, <1>2 DEF ListenForUpdates, updateListener

\* The steps that neither fetch nor publish.
LEMMA QuietSteps ==
    ASSUME OrderInv,
           \/ Wake \/ NeedsUpdate \/ ReadFallbackFails(Loop)
           \/ FinishSetup \/ ReportOutcome
    PROVE  Quiet
<1> USE PipelineAssumption DEF Quiet, Publishing, Goto, Return
<1>0. /\ pc \in [Updaters -> Steps] /\ Loop \in Updaters
      /\ fetched \in [Updaters -> Snapshots \cup {0}]
  BY DEF Kept, OrderInv, TypeOK, PipelineTypeOK, SourceTypeOK
<1>1. CASE Wake
  BY <1>0, <1>1
  DEF Wake, stateVars, fileVars, sheetVars, sourceVars, localVars
<1>2. CASE NeedsUpdate
  BY <1>0, <1>2
  DEF NeedsUpdate, CheckIsZero, QueryModified, QueryFails, KeepModified,
      CompareTimes, RetryAfterError, SkipUpdate, AskDrive, StoreLastModified,
      CallFails, stateVars, fileVars, sheetVars, sourceVars, localVars
<1>3. CASE ReadFallbackFails(Loop)
  BY <1>0, <1>3
  DEF ReadFallbackFails, stateVars, fileVars, sheetVars, sourceVars, localVars
<1>4. CASE FinishSetup
  BY <1>0, <1>4
  DEF FinishSetup, DropLocals, stateVars, fileVars, sheetVars, sourceVars
<1>5. CASE ReportOutcome
  BY <1>0, <1>5
  DEF ReportOutcome, SendError, DropLocals, fileVars, sheetVars, sourceVars
<1> QED  BY <1>1, <1>2, <1>3, <1>4, <1>5

\* A step that none of the ordered variables sees.
LEMMA UnrelatedStep ==
    ASSUME OrderInv,
           UNCHANGED <<mappingVars, file, edits, lastUpdate, updateTime, fetched,
                       pc>>
    PROVE  Kept
BY DEF Kept, OrderInv, mappingVars, InOrder, HeldInOrder, Honest, FileInOrder, Covers,
       Readable, NewestPublished

LEMMA EditStep ==
    ASSUME OrderInv, EditSheet
    PROVE  Kept
<1> USE IntegerTypes, LeadsAreNatural DEF Kept, OrderInv
<1>1. /\ edits' = edits + 1
      /\ UNCHANGED <<mappingVars, file, lastUpdate, updateTime, fetched, pc>>
  BY DEF EditSheet, Edit, stateVars, fileVars, sourceVars, localVars,
         controlVars, processVars
<1>2. InOrder'
  BY <1>1 DEF InOrder, mappingVars
<1>3. HeldInOrder'
  BY <1>1 DEF HeldInOrder, Covers, mappingVars
<1>4. EmptyVersions = {} /\ Honest => Honest'
  BY <1>1 DEF Honest, NewestPublished, Readable, mappingVars
<1>5. FileInOrder'
  BY <1>1 DEF FileInOrder, Covers, Readable, mappingVars
<1> QED  BY <1>2, <1>3, <1>4, <1>5

LEMMA CrashStep ==
    ASSUME OrderInv, Crash
    PROVE  Kept
<1> USE PipelineAssumption, IntegerTypes, LeadsAreNatural DEF Kept, OrderInv, EmptyMapping, NoMapping
<1>1. /\ mapping' = 0 /\ mappingInHand' = -1 /\ mappingChannel' = << >>
      /\ lastUpdate' = -1 /\ fetched'[Loop] = 0 /\ pc'[Loop] = "isZero"
      /\ UNCHANGED <<file, edits>>
  BY DEF Crash, ForgetState, ForgetSource, AtStart, NothingFetched, NoTime,
         fileVars, sheetVars
<1>2. /\ \A n \in Nat : Covers(n)'
      /\ edits \in Nat
      /\ file.version # NoVersion => file.version \in Nat
  BY <1>1, SheetsSourceAssumption
  DEF Covers, TypeOK, SourceTypeOK, FileTypeOK, Versions, Snapshots
<1>3. InOrder'
  BY <1>1 DEF InOrder
<1>4. HeldInOrder'
  BY <1>1, <1>2 DEF HeldInOrder, Covers, Publishing
<1>5. EmptyVersions = {} /\ Honest => Honest'
  BY <1>1, <1>2 DEF Honest, NewestPublished, Publishing, Readable
<1>6. FileInOrder'
  BY <1>1, <1>2 DEF FileInOrder, Covers, Readable
<1> QED  BY <1>3, <1>4, <1>5, <1>6

\* A step of an orderly instance keeps the order, whatever the clock says.
LEMMA NextKept ==
    ASSUME Orderly, OrderInv, [Next]_vars
    PROVE  Kept
<1>1. ApiCallers = {}
  BY DEF Orderly
<1>2. CASE Quiet
  BY <1>2, QuietStep
<1>3. CASE UpdateRedirectMapping(Loop)
  <2>1. ~ WriteFails(Loop)
    BY PipelineAssumption
    DEF WriteFails, DiskFails, Goto, Orderly, OrderInv, FileInOrder, TypeOK, FileTypeOK
  <2>2. CASE StartFetch(Loop) \/ RequestArrives(Loop) \/ FetchReturns(Loop)
             \/ FetchFails(Loop)
    BY <2>2, FetchSteps
  <2>3. CASE ReadFallback(Loop) \/ TruncateFallback(Loop) \/ WriteFallback(Loop)
    BY <2>3, FileSteps
  <2>4. CASE Publish(Loop)
    BY <2>4, PublishStep
  <2>5. CASE ReadFallbackFails(Loop)
    BY <1>2, <2>5, QuietSteps
  <2> QED
    BY <1>3, <2>1, <2>2, <2>3, <2>4, <2>5 DEF UpdateRedirectMapping
<1>4. CASE ListenForUpdates
  BY <1>4, ListenerSteps
<1>5. CASE ListenForUpdateErrors \/ UNCHANGED vars
  <2>1. UNCHANGED <<mappingVars, file, edits, lastUpdate, updateTime, fetched,
                    pc>>
    BY <1>5
    DEF ListenForUpdateErrors, errorListener, ReceiveError, UpdateLastError,
        vars, stateVars, fileVars, sheetVars, sourceVars, localVars, controlVars,
        processVars
  <2> QED  BY <2>1, UnrelatedStep
<1>6. CASE EditSheet
  BY <1>6, EditStep
<1>7. CASE Crash
  BY <1>7, CrashStep
<1> QED
  BY <1>1, <1>2, <1>3, <1>4, <1>5, <1>6, <1>7, QuietSteps DEF Next, Background

LEMMA NextOrderInv ==
    ASSUME Orderly, OrderInv, [Next]_vars
    PROVE  OrderInv'
BY NextKept, NextTypes, NextHolding DEF Kept, OrderInv

LEMMA NextIInv ==
    ASSUME Production, IInv, [Next]_vars
    PROVE  IInv'
BY NextKept, NextOrderInv DEF Kept, IInv, Production

\* With one updater and a disk that works the versions are in order wherever they
\* are: in the updater's hands, the file, the channel, the listener's hand and the
\* live mapping; whatever the local clock says.
THEOREM Ordered ==
    ASSUME Orderly
    PROVE  Spec => []OrderInv
<1>1. OrderInv /\ [Next]_vars => OrderInv'
  BY NextOrderInv
<1>2. Init => OrderInv
  BY InitIInv DEF IInv
<1> QED  BY <1>1, <1>2, PTL DEF Spec

\* With a sheet that is never empty, what is stored as the time of the last update
\* is honest up to the lead of the clock.
THEOREM Inductive ==
    ASSUME Production
    PROVE  Spec => []IInv
<1>1. IInv /\ [Next]_vars => IInv'
  BY NextIInv
<1> QED  BY InitIInv, <1>1, PTL DEF Spec

\* For any number of edits, failing calls and crashes: whenever the background
\* updater would skip an update, no more edits are unpublished than the local clock
\* is ahead of Google's.
THEOREM LagsNoMore ==
    ASSUME Production
    PROVE  Spec => []LagBounded
<1>1. IInv => LagBounded
  <2> SUFFICES ASSUME IInv, lastUpdate >= edits, NEW lead \in Leads,
                      \A p \in Updaters : pc[p] \notin Publishing
               PROVE  NewestPublished + lead >= edits
    BY DEF LagBounded
  <2>1. lastUpdate =< lead + NewestPublished
    BY PipelineAssumption DEF IInv, Honest
  <2> QED
    BY <2>1, IntegerTypes, NewestInteger, LeadsAreNatural DEF IInv, OrderInv
<1> QED  BY <1>1, Inductive, PTL

\* With a clock that is not ahead, no edit is unpublished then.
THEOREM ForgetsNoEdit ==
    ASSUME Production, ClockBehind
    PROVE  Spec => []NoEditForgotten
<1>1. 0 \in Leads
  BY DEF Leads, ClockBehind
<1>2. IInv /\ LagBounded => NoEditForgotten
  <2>1. IInv => NewestPublished =< edits
    BY NewestInteger, IntegerTypes DEF IInv, OrderInv, HeldInOrder
  <2> QED
    BY <1>1, <2>1, IntegerTypes, NewestInteger
    DEF IInv, OrderInv, LagBounded, NoEditForgotten
<1> QED  BY <1>2, Inductive, LagsNoMore, PTL

\* Whenever a mapping is live, the fallback file is readable and at least as new,
\* or in the middle of being rewritten.
THEOREM SnapshotKept ==
    ASSUME Orderly
    PROVE  Spec => []SnapshotAhead
<1>1. OrderInv => SnapshotAhead
  BY DEF OrderInv, FileInOrder, SnapshotAhead, Covers
<1> QED  BY <1>1, Ordered, PTL

\* Only the listener and a crash change the live mapping.
LEMMA LiveUnchanged ==
    ASSUME ApiCallers = {}, [Next]_vars
    PROVE  \/ UNCHANGED mapping
           \/ ListenForUpdates /\ UpdateMapping
           \/ Crash
<1>1. CASE Background \/ ListenForUpdateErrors \/ EditSheet
  BY <1>1
  DEF Background, Wake, NeedsUpdate, CheckIsZero, QueryModified, QueryFails,
      KeepModified, CompareTimes, RetryAfterError, SkipUpdate, UpdateRedirectMapping,
      StartFetch, RequestArrives, FetchReturns, FetchFails, ReadFallback,
      ReadFallbackFails, TruncateFallback, WriteFallback, WriteFails,
      Publish, SendMapping, FinishSetup, ReportOutcome, SendError,
      ListenForUpdateErrors, errorListener, ReceiveError, UpdateLastError,
      EditSheet, stateVars, mappingVars
<1>2. CASE ListenForUpdates
  BY <1>2 DEF ListenForUpdates, updateListener, ReceiveMapping
<1>3. CASE UNCHANGED vars
  BY <1>3 DEF vars, stateVars, mappingVars
<1> QED  BY <1>1, <1>2, <1>3 DEF Next

LEMMA LiveMovesForward ==
    ASSUME Orderly, OrderInv, Next, crashes' = crashes
    PROVE  mapping' >= mapping
<1>1. mapping \in Int
  BY IntegerTypes DEF OrderInv
<1>2. CASE UNCHANGED mapping
  BY <1>1, <1>2
<1>3. CASE UpdateMapping
  BY <1>3, IntegerTypes DEF UpdateMapping, OrderInv, InOrder
<1>4. ~ Crash
  BY PipelineAssumption DEF OrderInv, TypeOK, PipelineTypeOK, Crash
<1> QED  BY <1>2, <1>3, <1>4, LiveUnchanged DEF Orderly

\* While the process lives the live mapping only moves forward.
THEOREM NeverRegresses ==
    ASSUME Orderly
    PROVE  Spec => LiveNeverRegresses
<1>1. OrderInv /\ [Next]_vars => [crashes' = crashes => mapping' >= mapping]_vars
  BY LiveMovesForward
<1> QED  BY <1>1, Ordered, PTL DEF Spec, LiveNeverRegresses
=============================================================================
