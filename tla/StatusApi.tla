----------------------------- MODULE StatusApi -----------------------------
(***************************************************************************)
(* The status endpoints (api/api.go:123-153) beside the update pipeline: a *)
(* client polls, and each of its requests reads the mapping, the time of   *)
(* the last update and, for the info page, the time of the last            *)
(* modification, under a lock each, while all of that changes.  The error, *)
(* which is read first and under its own lock, is left out.                *)
(*                                                                         *)
(* LastModified (google-sheets.go:321-332) is more than a read: a request  *)
(* that finds no time asks Drive for one and stores it.  Its read lock is  *)
(* the only one a goroutine holds from one step to the next here, and      *)
(* readLocked says so; the background updater, which stores the same       *)
(* time, has to wait for it.  Every other lock is held within one step.    *)
(***************************************************************************)
EXTENDS UpdatePipeline

\* One life of the process: the client's connection does not survive a second.
ASSUME OneLife == MaxCrashes = 0

VARIABLES
    field,              \* what the handler reads next
    report,             \* what it has read so far
    reported,           \* the last answer that was complete
    readLocked,         \* the handler holds lastModifiedMutex for reading
    askedModified       \* local of updateLastModified: what Drive answered

statusVars == <<field, report, reported, readLocked, askedModified>>

Fields == {"none", "mapping", "update", "modified", "zero", "ask",
           "store", "unlock"}

NoReport == [info |-> FALSE, mapping |-> EmptyMapping, update |-> NoTime]

StatusTypeOK ==
    /\ field \in Fields
    /\ report \in [info : BOOLEAN, mapping : Snapshots \cup {EmptyMapping},
                    update : Readings \cup {NoTime}]
    /\ reported \in [mapping : Snapshots \cup {EmptyMapping},
                      update : Readings \cup {NoTime}]
    /\ readLocked \in BOOLEAN
    /\ readLocked <=> field \in {"zero", "unlock"}
    /\ askedModified \in Versions \cup {NoTime}

StatusInit ==
    /\ Init
    /\ field = "none"
    /\ report = NoReport
    /\ reported = [mapping |-> EmptyMapping, update |-> NoTime]
    /\ readLocked = FALSE
    /\ askedModified = NoTime

Read(from, to) == field = from /\ field' = to

\* The answer goes out, and the handler is done.
Report(r) ==
    /\ field' = "none"
    /\ reported' = [mapping |-> r.mapping, update |-> r.update]
    /\ report' = NoReport

\* A request to one of the endpoints arrives.
Poll ==
    /\ serving
    /\ Read("none", "mapping")
    /\ \E info \in BOOLEAN : report' = [NoReport EXCEPT !.info = info]
    /\ UNCHANGED <<vars, reported, readLocked, askedModified>>

\* Mutant: the mapping is read after the time of the update.
ReadMappingLast ==
    \/ /\ Read("mapping", "update")
       /\ report' = [report EXCEPT !.update = lastUpdate]
       /\ UNCHANGED <<vars, reported, readLocked, askedModified>>
    \/ /\ field = "update"
       /\ Report([report EXCEPT !.mapping = mapping])
       /\ UNCHANGED <<vars, readLocked, askedModified>>

\* MappingSize or CurrentMapping.
ReadMapping ==
    /\ Read("mapping", "update")
    /\ report' = [report EXCEPT !.mapping = mapping]
    /\ UNCHANGED <<vars, reported, readLocked, askedModified>>

\* The health endpoint answers with that.
ReadLastUpdate ==
    /\ field = "update"
    /\ LET r == [report EXCEPT !.update = lastUpdate] IN
          IF report.info THEN Read("update", "modified") /\ report' = r /\ UNCHANGED reported
                         ELSE Report(r)
    /\ UNCHANGED <<vars, readLocked, askedModified>>

LockModified ==
    /\ Read("modified", "zero")
    /\ readLocked' = TRUE
    /\ UNCHANGED <<vars, report, reported, askedModified>>

\* Mutant: the read lock is kept for the write.
LookAtModifiedLocked ==
    /\ Read("zero", IF lastModified = NoTime THEN "ask" ELSE "unlock")
    /\ UNCHANGED <<vars, report, reported, readLocked, askedModified>>

\* The read lock is given up before Drive is asked.
LookAtModified ==
    /\ Read("zero", IF lastModified = NoTime THEN "ask" ELSE "unlock")
    /\ readLocked' = (lastModified # NoTime)
    /\ UNCHANGED <<vars, report, reported, askedModified>>

ReadModified ==
    /\ field = "unlock"
    /\ readLocked' = FALSE
    /\ Report(report)
    /\ UNCHANGED <<vars, askedModified>>

AskModified ==
    /\ Read("ask", "store")
    /\ askedModified' = edits
    /\ UNCHANGED <<vars, report, reported, readLocked>>

\* The error is dropped, and no time is reported.
AskFails ==
    /\ field = "ask"
    /\ CallFails
    /\ Report(report)
    /\ UNCHANGED <<readLocked, askedModified, stateVars, fileVars,
                   sourceVars, localVars, controlVars>>

\* The write lock waits for readers; what was stored meanwhile is overwritten.
StoreModified ==
    /\ field = "store"
    /\ ~readLocked
    /\ lastModified' = askedModified
    /\ askedModified' = NoTime
    /\ Report(report)
    /\ UNCHANGED <<readLocked, stateVars, fileVars, sheetVars,
                   lastUpdate, localVars, controlVars>>

StatusHandler ==
    \/ ReadMapping \/ ReadLastUpdate
    \/ LockModified \/ LookAtModified \/ ReadModified
    \/ AskModified \/ AskFails \/ StoreModified

\* updateLastModified of the updater needs the write lock.
Updating == (pc[Loop] = "keep" /\ readLocked => pc'[Loop] # "compare")
            /\ UNCHANGED statusVars

StatusNext ==
    \/ Poll
    \/ StatusHandler
    \/ Next /\ Updating

\* A writer that waits for the lock keeps later readers out: strong fairness.
StatusFairness ==
    /\ WF_<<vars, statusVars>>(StatusHandler)
    /\ SF_<<vars, statusVars>>(Background /\ Updating)
    /\ WF_<<vars, statusVars>>(ListenForUpdates /\ UNCHANGED statusVars)
    /\ WF_<<vars, statusVars>>(ListenForUpdateErrors /\ UNCHANGED statusVars)

StatusSpec ==
    StatusInit /\ [][StatusNext]_<<vars, statusVars>> /\ StatusFairness

-----------------------------------------------------------------------------
\* An answer that shows links says when they were updated, although both are
\* read under locks of their own and updates come in between (api.go:131-136,
\* 146-152); from a fallback file they come without a time.
ReportDated ==
    (~UseFallbackFile /\ reported.mapping # EmptyMapping) => reported.update # NoTime

\* Someone who polls never sees links or times go back while the process lives,
\* as long as the local clock keeps its distance to Google's (time.Now().UTC() has
\* no monotonic reading: a clock that is set back takes the times back with it).
ReportsAdvance ==
    [][/\ reported'.mapping >= reported.mapping
       /\ reported'.update >= reported.update]_reported

\* The modification time that the info page shows is that of the sheet in the
\* end, even if a request that asked Drive early stores its answer late.
ModifiedTimeSettles == <>[](lastModified = edits)

\* Every status request is answered: none waits for a lock that itself holds.
StatusAnswered == (field # "none") ~> (field = "none")
=============================================================================
