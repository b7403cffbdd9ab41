---------------------------- MODULE SheetsSource ----------------------------
(***************************************************************************)
(* internal/ds/google-sheets.go: when the data source thinks that the      *)
(* sheet has changed, and what it fetches.  The sheet itself, Google's     *)
(* clock and the two APIs are external.                                    *)
(*                                                                         *)
(* A version of the sheet is the number of edits made so far, and Google's *)
(* clock only matters between edits: the modification time of version v    *)
(* is v, and a local clock reading taken while the sheet is at version v   *)
(* is v plus the skew of the local clock, in edits it is ahead of Google's *)
(* (or behind, when negative).  m.After(t) is then m > t.                  *)
(*                                                                         *)
(* NeedsUpdate reads lastUpdate twice without the mutex, in a race with    *)
(* updateLastUpdate of another goroutine.  A time.Time in UTC has its      *)
(* seconds in one word and its nanoseconds in another, so a read amid a    *)
(* store may see the words of two times.  IsZero still answers for the old *)
(* time or the new one, and is one step here.  After may answer anything:  *)
(* UpdatePipeline has a step of its own for it, CompareTorn.               *)
(***************************************************************************)
EXTENDS Integers

CONSTANTS
    Updaters,           \* goroutines that run UpdateRedirectMapping
    FirstVersion,       \* version of the sheet when the service is deployed
    LastVersion,        \* bound: version at which the editors stop
    Skews,              \* what the local clock may be ahead of Google's
    EmptyVersions,      \* versions in which the sheet has no rows
    MaxFaults           \* bound: calls to Google that fail

ASSUME SheetsSourceAssumption ==
    /\ FirstVersion \in Nat \ {0}
    /\ LastVersion \in Nat /\ LastVersion >= FirstVersion
    /\ MaxFaults \in Nat
    /\ Skews \subseteq Int
    /\ Skews # {}
    /\ \A s \in Skews : FirstVersion + s >= 0

VARIABLES
    edits,              \* the current version of the sheet
    faults,             \* how many calls to Google have failed
    lastUpdate,         \* ds.lastUpdate
    lastModified,       \* ds.lastModified
    modifiedTime,       \* local of NeedsUpdate, per updater
    updateTime,         \* local of fetchRedirectMappingInternal, per updater
    fetched             \* the version an updater is about to publish

sheetVars  == <<edits, faults>>
sourceVars == <<lastUpdate, lastModified>>
localVars  == <<modifiedTime, updateTime, fetched>>

NoTime    == -1                         \* time.Time{}, the zero time
Versions  == FirstVersion .. LastVersion
Snapshots == 1 .. LastVersion           \* older ones too, from the file
Readings  == {v + s : v \in Versions, s \in Skews}

SourceTypeOK ==
    /\ edits \in Versions
    /\ faults \in 0..MaxFaults
    /\ lastUpdate \in Readings \cup {NoTime}
    /\ lastModified \in Versions \cup {NoTime}
    /\ modifiedTime \in [Updaters -> Versions \cup {NoTime}]
    /\ updateTime \in [Updaters -> Readings \cup {NoTime}]
    /\ fetched \in [Updaters -> Snapshots \cup {0}]

NoTimes == [p \in Updaters |-> NoTime]
NothingFetched == [p \in Updaters |-> 0]

SourceInit ==
    /\ edits = FirstVersion
    /\ faults = 0
    /\ lastUpdate = NoTime
    /\ lastModified = NoTime
    /\ modifiedTime = NoTimes
    /\ updateTime = NoTimes
    /\ fetched = NothingFetched

\* The process ends; the sheet does not.
ForgetSource ==
    /\ lastUpdate' = NoTime
    /\ lastModified' = NoTime
    /\ modifiedTime' = NoTimes
    /\ updateTime' = NoTimes
    /\ fetched' = NothingFetched
    /\ UNCHANGED sheetVars

\* The calls return, and their locals are gone.
DropLocals(p) ==
    /\ modifiedTime' = [modifiedTime EXCEPT ![p] = NoTime]
    /\ updateTime' = [updateTime EXCEPT ![p] = NoTime]
    /\ fetched' = [fetched EXCEPT ![p] = 0]

\* What time.Now() may return now.
Clock == {edits + s : s \in Skews}

\* Somebody edits the sheet.
Edit ==
    /\ edits < LastVersion
    /\ edits' = edits + 1
    /\ UNCHANGED <<faults, sourceVars, localVars>>

\* A call to Google returns an error, or its 15 seconds are over.
CallFails ==
    /\ faults < MaxFaults
    /\ faults' = faults + 1
    /\ UNCHANGED edits

NeverUpdated == lastUpdate = NoTime

\* updateLastModified: one call to Drive ...
AskDrive(p) ==
    /\ modifiedTime' = [modifiedTime EXCEPT ![p] = edits]
    /\ UNCHANGED <<sheetVars, sourceVars, updateTime, fetched>>

\* Mutant: a time that is known already is kept.
StoreLastModifiedOnce(p) ==
    /\ lastModified' = IF lastModified = NoTime THEN modifiedTime[p] ELSE lastModified
    /\ UNCHANGED <<sheetVars, lastUpdate, localVars>>

\* ... and what it stores, over anything stored meanwhile.
StoreLastModified(p) ==
    /\ lastModified' = modifiedTime[p]
    /\ UNCHANGED <<sheetVars, lastUpdate, localVars>>

\* Mutant: a sheet modified just after the last update is not looked at.
ModifiedWellSince(p) == modifiedTime[p] > lastUpdate + 1

\* The comparison NeedsUpdate ends in.
ModifiedSince(p) == modifiedTime[p] > lastUpdate

\* Mutant: the reading is stored before the request has succeeded.
StampFetchStored(p) ==
    /\ \E now \in Clock : /\ updateTime' = [updateTime EXCEPT ![p] = now]
                         /\ lastUpdate' = now
    /\ UNCHANGED <<sheetVars, lastModified, modifiedTime, fetched>>

\* The local clock is read before the request is sent ...
StampFetch(p) ==
    /\ \E now \in Clock : updateTime' = [updateTime EXCEPT ![p] = now]
    /\ UNCHANGED <<sheetVars, sourceVars, modifiedTime, fetched>>

\* ... Google answers with the rows it has when the request arrives ...
ServerReads(p) ==
    /\ fetched' = [fetched EXCEPT ![p] = edits]
    /\ UNCHANGED <<sheetVars, sourceVars, modifiedTime, updateTime>>

\* Mutant: lastUpdate is the time of the answer, not of the request.
updateLastUpdateNow(p) ==
    /\ lastUpdate' \in Clock
    /\ updateTime' = [updateTime EXCEPT ![p] = NoTime]
    /\ UNCHANGED <<sheetVars, lastModified, modifiedTime, fetched>>

\* Mutant: the zero time of a sheet without rows is stored as it is.
updateLastUpdateZero(p) ==
    /\ lastUpdate' = IF fetched[p] \in EmptyVersions THEN NoTime ELSE updateTime[p]
    /\ updateTime' = [updateTime EXCEPT ![p] = NoTime]
    /\ UNCHANGED <<sheetVars, lastModified, modifiedTime, fetched>>

\* ... and updateLastUpdate stores that reading when the answer is there, or,
\* for a sheet without rows, the reading of this moment.
updateLastUpdate(p) ==
    /\ lastUpdate' \in IF fetched[p] \in EmptyVersions
                       THEN Clock ELSE {updateTime[p]}
    /\ updateTime' = [updateTime EXCEPT ![p] = NoTime]
    /\ UNCHANGED <<sheetVars, lastModified, modifiedTime, fetched>>
=============================================================================
