--------------------------- MODULE UpdatePipeline ---------------------------
(***************************************************************************)
(* internal/repo/repo.go, with the goroutines that run it: how an edit of  *)
(* the sheet becomes the live mapping.                                     *)
(*                                                                         *)
(* Loop is the goroutine of Setup's first update (main.go:127) and then of *)
(* StartBackgroundUpdates; ApiCallers are requests to the update-mapping   *)
(* endpoint, which force an update from their own goroutine.  Nothing      *)
(* orders the updaters: every step below is a point where another          *)
(* goroutine, Google or an editor of the sheet can come in between.        *)
(*                                                                         *)
(* The hooks (repo.go:95-100) rewrite the keys of the goroutine's own map  *)
(* and leave its version alone; they have no step here.                    *)
(***************************************************************************)
EXTENDS RedirectState, FallbackFile, SheetsSource

CONSTANTS
    Loop,               \* the background updater
    ApiCallers,         \* concurrent requests to update-mapping
    UseFallbackFile,    \* APP_FALLBACK_FILE is set
    MaxCalls,           \* bound: forced updates
    MaxCrashes          \* bound: times the process ends and is started again

ASSUME PipelineAssumption ==
    /\ Loop \notin ApiCallers
    /\ Updaters = ApiCallers \cup {Loop}
    /\ Seeds \subseteq 1..FirstVersion
    /\ DOMAIN SnapshotSize = Snapshots
    /\ UseFallbackFile \in BOOLEAN
    /\ MaxCalls \in Nat
    /\ MaxCrashes \in Nat

VARIABLES
    pc,                 \* where each updater is in UpdateRedirectMapping
    outcome,            \* the error UpdateRedirectMapping is to return
    answer,             \* what each API caller has been told
    serving,            \* Setup is over: requests come in, the ticker runs
    calls,              \* how many forced updates there were
    crashes,            \* how often the process ended
    served              \* history: the newest mapping that was ever live

processVars == <<pc, outcome, answer, serving, calls, crashes>>
controlVars == <<processVars, served>>

vars == <<stateVars, fileVars, sheetVars, sourceVars, localVars, controlVars>>

Steps == {"idle", "isZero", "query", "keep", "compare", "lastError",
          "fetch", "request", "response", "readFallback", "truncate", "write", "send",
          "returned"}

PipelineTypeOK ==
    /\ pc \in [Updaters -> Steps]
    /\ outcome \in [Updaters -> Errors]
    /\ answer \in [ApiCallers -> {"none", "ok", "error", "timeout"}]
    /\ serving \in BOOLEAN
    /\ calls \in 0..MaxCalls
    /\ crashes \in 0..MaxCrashes
    /\ served \in Snapshots \cup {EmptyMapping}

\* Every variable has its type.
TypeOK ==
    /\ StateTypeOK(Snapshots)
    /\ FileTypeOK(Snapshots)
    /\ SourceTypeOK
    /\ PipelineTypeOK

\* In a fresh process Setup is about to run its first update.
AtStart == [p \in Updaters |-> IF p = Loop THEN "isZero" ELSE "idle"]
NoOutcome == [p \in Updaters |-> "nil"]
NoAnswer == [c \in ApiCallers |-> "none"]

Init ==
    /\ NewState
    /\ FileInit
    /\ SourceInit
    /\ pc = AtStart
    /\ outcome = NoOutcome
    /\ answer = NoAnswer
    /\ serving = FALSE
    /\ calls = 0
    /\ crashes = 0
    /\ served = EmptyMapping

Goto(p, from, to) ==
    /\ pc[p] = from
    /\ pc' = [pc EXCEPT ![p] = to]
    /\ UNCHANGED <<answer, serving, calls, crashes, served>>

Return(p, from, err) ==
    /\ Goto(p, from, "returned")
    /\ outcome' = [outcome EXCEPT ![p] = err]

-----------------------------------------------------------------------------
(* NeedsUpdate and the condition of repo.go:49; a forced update skips it.  *)

\* A tick of the background updater.
Wake ==
    /\ serving
    /\ Goto(Loop, "idle", "isZero")
    /\ UNCHANGED <<outcome, stateVars, fileVars, sheetVars, sourceVars, localVars>>

CheckIsZero ==
    /\ Goto(Loop, "isZero", IF NeverUpdated THEN "fetch" ELSE "query")
    /\ UNCHANGED <<outcome, stateVars, fileVars, sheetVars, sourceVars, localVars>>

QueryModified ==
    /\ Goto(Loop, "query", "keep")
    /\ AskDrive(Loop)
    /\ UNCHANGED <<outcome, stateVars, fileVars>>

KeepModified ==
    /\ Goto(Loop, "keep", "compare")
    /\ StoreLastModified(Loop)
    /\ UNCHANGED <<outcome, stateVars, fileVars>>

\* Drive cannot be asked: NeedsUpdate says yes.
QueryFails ==
    /\ Goto(Loop, "query", "fetch")
    /\ CallFails
    /\ UNCHANGED <<outcome, stateVars, fileVars, sourceVars, localVars>>

CompareTimes ==
    /\ Goto(Loop, "compare", IF ModifiedSince(Loop) THEN "fetch" ELSE "lastError")
    /\ UNCHANGED <<outcome, stateVars, fileVars, sheetVars, sourceVars, localVars>>

\* After an error the update is done even if the sheet has not changed.
RetryAfterError ==
    /\ lastError # "nil"
    /\ Goto(Loop, "lastError", "fetch")
    /\ UNCHANGED <<outcome, stateVars, fileVars, sheetVars, sourceVars, localVars>>

SkipUpdate ==
    /\ lastError = "nil"
    /\ Return(Loop, "lastError", "nil")
    /\ UNCHANGED <<stateVars, fileVars, sheetVars, sourceVars, localVars>>

-----------------------------------------------------------------------------
(* The rest of UpdateRedirectMapping.                                      *)

StartFetch(p) ==
    /\ Goto(p, "fetch", "request")
    /\ StampFetch(p)
    /\ UNCHANGED <<outcome, stateVars, fileVars>>

RequestArrives(p) ==
    /\ Goto(p, "request", "response")
    /\ ServerReads(p)
    /\ UNCHANGED <<outcome, stateVars, fileVars>>

\* Mutant: a fetched mapping is published without being saved.
FetchReturnsUnsaved(p) ==
    /\ Goto(p, "response", "send")
    /\ updateLastUpdate(p)
    /\ UNCHANGED <<outcome, stateVars, fileVars>>

FetchReturns(p) ==
    /\ Goto(p, "response", IF UseFallbackFile THEN "truncate" ELSE "send")
    /\ updateLastUpdate(p)
    /\ UNCHANGED <<outcome, stateVars, fileVars>>

\* The background updater compares times while a forced update stores its own:
\* what it reads may be neither the old time nor the new one (a data race), and
\* the comparison comes out either way.
CompareTorn(c) ==
    /\ pc[Loop] = "compare"
    /\ pc[c] = "response"
    /\ \E found \in {"fetch", "lastError"} :
          pc' = [pc EXCEPT ![Loop] = found,
                           ![c] = IF UseFallbackFile THEN "truncate" ELSE "send"]
    /\ updateLastUpdate(c)
    /\ UNCHANGED <<outcome, answer, serving, calls, crashes, served, stateVars, fileVars>>

\* The error is returned, or, with a fallback file, dropped.
FetchFails(p) ==
    /\ \E from \in {"request", "response"} :
          IF UseFallbackFile
          THEN Goto(p, from, "readFallback") /\ UNCHANGED outcome
          ELSE Return(p, from, "error")
    /\ CallFails
    /\ UNCHANGED <<stateVars, fileVars, sourceVars, localVars>>

\* Mutant: the error of readFallbackFile is ignored.
ReadFallbackUnchecked(p) ==
    /\ Goto(p, "readFallback", "truncate")
    /\ fetched' = [fetched EXCEPT ![p] = file.version]
    /\ UNCHANGED <<outcome, stateVars, fileVars, sheetVars, sourceVars,
                   modifiedTime, updateTime>>

ReadFallback(p) ==
    /\ Readable
    /\ Goto(p, "readFallback", "truncate")
    /\ fetched' = [fetched EXCEPT ![p] = file.version]
    /\ UNCHANGED <<outcome, stateVars, fileVars, sheetVars, sourceVars,
                   modifiedTime, updateTime>>

ReadFallbackFails(p) ==
    /\ ~Readable
    /\ Return(p, "readFallback", "error")
    /\ UNCHANGED <<stateVars, fileVars, sheetVars, sourceVars, localVars>>

\* Mutant: a file that is there is not overwritten.
TruncateFallbackIfAbsent(p) ==
    /\ IF file.version = NoVersion
       THEN Goto(p, "truncate", "write") /\ Truncate
       ELSE Goto(p, "truncate", "send") /\ UNCHANGED fileVars
    /\ UNCHANGED <<outcome, stateVars, sheetVars, sourceVars, localVars>>

TruncateFallback(p) ==
    /\ Goto(p, "truncate", "write")
    /\ Truncate
    /\ UNCHANGED <<outcome, stateVars, sheetVars, sourceVars, localVars>>

WriteFallback(p) ==
    /\ Goto(p, "write", "send")
    /\ Overwrite(fetched[p])
    /\ UNCHANGED <<outcome, stateVars, sheetVars, sourceVars, localVars>>

\* The error of writeFallbackFileLog is assigned to _.
WriteFails(p) ==
    /\ \E from \in {"truncate", "write"} : Goto(p, from, "send")
    /\ DiskFails
    /\ UNCHANGED <<outcome, stateVars, sheetVars, sourceVars, localVars>>

Publish(p) ==
    /\ Return(p, "send", "nil")
    /\ SendMapping(fetched[p])
    /\ UNCHANGED <<fileVars, sheetVars, sourceVars, localVars>>

-----------------------------------------------------------------------------
(* The callers of UpdateRedirectMapping.                                   *)

\* Setup drops what its update returns, and the server starts.
FinishSetup ==
    /\ ~serving
    /\ pc[Loop] = "returned"
    /\ pc' = [pc EXCEPT ![Loop] = "idle"]
    /\ serving' = TRUE
    /\ outcome' = [outcome EXCEPT ![Loop] = "nil"]
    /\ DropLocals(Loop)
    /\ UNCHANGED <<answer, calls, crashes, served, stateVars, fileVars, sheetVars,
                   sourceVars>>

\* Mutant: only a nil error is sent.
ReportSuccess ==
    /\ serving
    /\ Goto(Loop, "returned", "idle")
    /\ IF outcome[Loop] = "nil" THEN SendError("nil") ELSE UNCHANGED stateVars
    /\ outcome' = [outcome EXCEPT ![Loop] = "nil"]
    /\ DropLocals(Loop)
    /\ UNCHANGED <<fileVars, sheetVars, sourceVars>>

\* UpdateRedirectMappingChannels sends what it got, nil or not.
ReportOutcome ==
    /\ serving
    /\ Goto(Loop, "returned", "idle")
    /\ SendError(outcome[Loop])
    /\ outcome' = [outcome EXCEPT ![Loop] = "nil"]
    /\ DropLocals(Loop)
    /\ UNCHANGED <<fileVars, sheetVars, sourceVars>>

\* A request to update-mapping arrives.
Call(c) ==
    /\ serving
    /\ calls < MaxCalls
    /\ calls' = calls + 1
    /\ pc[c] = "idle"
    /\ pc' = [pc EXCEPT ![c] = "fetch"]
    /\ answer' = [answer EXCEPT ![c] = "none"]
    /\ DropLocals(c)
    /\ UNCHANGED <<outcome, serving, crashes, served, stateVars, fileVars,
                   sheetVars, sourceVars>>

\* The 10 seconds of wrapHandlerTimeout are over: the client gets a 503, the
\* goroutine goes on.
TimeoutCall(c) ==
    /\ pc[c] # "idle"
    /\ answer[c] = "none"
    /\ answer' = [answer EXCEPT ![c] = "timeout"]
    /\ UNCHANGED <<pc, outcome, serving, calls, crashes, served, stateVars,
                   fileVars, sheetVars, sourceVars, localVars>>

\* Mutant: the result is handed over on a channel only a waiting client reads.
RespondInTime(c) ==
    /\ pc[c] = "returned"
    /\ answer[c] # "timeout"
    /\ pc' = [pc EXCEPT ![c] = "idle"]
    /\ answer' = [answer EXCEPT ![c] = IF outcome[c] = "nil" THEN "ok" ELSE "error"]
    /\ outcome' = [outcome EXCEPT ![c] = "nil"]
    /\ UNCHANGED <<serving, calls, crashes, served, stateVars, fileVars,
                   sheetVars, sourceVars, localVars>>

\* UpdateMappingHandler answers, to nobody if the time was over before.
Respond(c) ==
    /\ pc[c] = "returned"
    /\ pc' = [pc EXCEPT ![c] = "idle"]
    /\ answer' = [answer EXCEPT ![c] =
                    IF @ = "timeout" THEN @
                    ELSE IF outcome[c] = "nil" THEN "ok" ELSE "error"]
    /\ outcome' = [outcome EXCEPT ![c] = "nil"]
    /\ UNCHANGED <<serving, calls, crashes, served, stateVars, fileVars,
                   sheetVars, sourceVars, localVars>>

\* The process ends, by a signal or otherwise (Run waits for no updater), and
\* is started again: the file and the sheet are all that is left.
Crash ==
    /\ crashes < MaxCrashes
    /\ crashes' = crashes + 1
    /\ pc' = AtStart
    /\ outcome' = NoOutcome
    /\ answer' = NoAnswer
    /\ serving' = FALSE
    /\ ForgetState
    /\ ForgetSource
    /\ UNCHANGED <<calls, served, fileVars>>

EditSheet ==
    /\ Edit
    /\ UNCHANGED <<stateVars, fileVars, controlVars>>

ListenForUpdates ==
    /\ updateListener
    /\ served' = IF mapping' > served THEN mapping' ELSE served
    /\ UNCHANGED <<fileVars, sheetVars, sourceVars, localVars, processVars>>

ListenForUpdateErrors ==
    /\ errorListener
    /\ UNCHANGED <<fileVars, sheetVars, sourceVars, localVars, controlVars>>

NeedsUpdate ==
    \/ CheckIsZero \/ QueryModified \/ QueryFails \/ KeepModified \/ CompareTimes
    \/ RetryAfterError \/ SkipUpdate

UpdateRedirectMapping(p) ==
    \/ StartFetch(p) \/ RequestArrives(p) \/ FetchReturns(p) \/ FetchFails(p)
    \/ ReadFallback(p) \/ ReadFallbackFails(p)
    \/ TruncateFallback(p) \/ WriteFallback(p) \/ WriteFails(p) \/ Publish(p)

Background ==
    \/ Wake \/ NeedsUpdate \/ UpdateRedirectMapping(Loop)
    \/ FinishSetup \/ ReportOutcome

Handler(c) == UpdateRedirectMapping(c) \/ Respond(c)

Next ==
    \/ Background
    \/ \E c \in ApiCallers : Call(c) \/ Handler(c) \/ TimeoutCall(c) \/ CompareTorn(c)
    \/ ListenForUpdates
    \/ ListenForUpdateErrors
    \/ EditSheet
    \/ Crash

Spec == Init /\ [][Next]_vars

(***************************************************************************)
(* Fairness.  A goroutine that can go on does: the ticker ticks, a call to *)
(* Google ends after 15 seconds at the latest, a channel that has values   *)
(* is received from.  A sender blocked on a full channel waits in the      *)
(* channel's queue and gets the next free slot, whoever else sends: strong *)
(* fairness.  Nobody has to edit the sheet, call the API, or end the       *)
(* process; calls and writes need not fail.                                *)
(***************************************************************************)
Fairness ==
    /\ WF_vars(Background)
    /\ WF_vars(ListenForUpdates)
    /\ WF_vars(ListenForUpdateErrors)
    /\ \A c \in ApiCallers : WF_vars(Handler(c))
    /\ \A p \in Updaters : SF_vars(Publish(p))

FairSpec == Spec /\ Fairness

-----------------------------------------------------------------------------
Publishing == {"truncate", "write", "send"}

\* What will be live once the listener has caught up.
NewestPublished ==
    IF mappingChannel # << >> THEN mappingChannel[Len(mappingChannel)]
    ELSE IF mappingInHand # NoMapping THEN mappingInHand
    ELSE mapping

\* The background updater skips an update when lastUpdate is not before the
\* last edit (repo.go:49).  It may do so only if that edit has already been
\* published, and nothing older after it: otherwise the edit stays unseen
\* until somebody edits the sheet again.
NoEditForgotten ==
    (/\ lastUpdate # NoTime
     /\ lastUpdate >= edits
     /\ \A p \in Updaters : pc[p] \notin Publishing)
    => NewestPublished = edits

\* How far the local clock may be ahead of Google's at most.
Leads == {a \in Skews \cup {0} : \A s \in Skews \cup {0} : s =< a}

\* With a clock that is ahead the updater may skip an update although there are
\* unpublished edits, but no older ones than the clock is ahead: what is served
\* lags behind by the error of the clock, and that error does not add up.
LagBounded ==
    (/\ lastUpdate # NoTime
     /\ lastUpdate >= edits
     /\ \A p \in Updaters : pc[p] \notin Publishing)
    => \A lead \in Leads : NewestPublished + lead >= edits

\* While the process lives, requests never get an older mapping after a newer
\* one, whatever fails and whatever the fallback file holds.
LiveNeverRegresses == [][crashes' = crashes => mapping' >= mapping]_vars

\* Whenever a mapping is live, a restart that cannot reach Google finds a
\* readable snapshot at least as new, unless it is being rewritten just now.
SnapshotAhead ==
    (UseFallbackFile /\ mapping # EmptyMapping)
    => \/ pc[Loop] = "write"
       \/ Readable /\ file.version >= mapping

\* Once the editors, the failures and the crashes stop, the last edit becomes
\* live and stays live, and the health endpoint is satisfied for good.
Converges == <>[](mapping = edits /\ lastError = "nil")

\* An update of the background updater that ends in an error is visible at the
\* health endpoint some time later, unless the process ends before.
FailureReported ==
    (serving /\ pc[Loop] = "returned" /\ outcome[Loop] = "error")
    ~> (lastError = "error" \/ ~serving)

\* A forced update ends: no goroutine is left behind at a full channel, however
\* many updaters publish at once and whether or not its client still waits.
CallsEnd == \A c \in ApiCallers : (pc[c] # "idle") ~> (pc[c] = "idle")

\* Once the editors stop, the last edit has been shown to visitors or will be,
\* although the background updater may skip an update because it compared a torn
\* time (google-sheets.go:335, 344), a forced update may store an earlier time over
\* a later one, and calls fail.  It need not stay live (see stale_after_race).
EditsReachVisitors == <>[](served >= edits)

\* What an updater publishes goes live, so a client that got a 200 was told the
\* truth: however many updaters publish at once, no mapping is dropped on its
\* way through the channel.
EveryUpdateGoesLive ==
    \A v \in Snapshots :
        (\E p \in Updaters : pc[p] = "send" /\ fetched[p] = v) ~> (mapping = v)
=============================================================================
