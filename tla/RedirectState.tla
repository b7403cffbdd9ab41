--------------------------- MODULE RedirectState ---------------------------
(***************************************************************************)
(* internal/state/redirect-state.go: the mapping that requests read, the   *)
(* last recorded error, and the two buffered channels with one listener    *)
(* goroutine each through which the updaters change them.                  *)
(*                                                                         *)
(* A mapping is identified by the version of the sheet it was built from   *)
(* (module SheetsSource); an error is "nil" or "error".  Both channels are *)
(* made by ListenForUpdates and ListenForUpdateErrors before any updater   *)
(* runs (repo.go:28-32) and nothing closes them, so the code behind the    *)
(* listeners' range loops is never reached and a channel is just a queue.  *)
(* A listener takes a value out of its channel before it asks for the      *)
(* write lock: the value in its hand is in neither the channel nor the     *)
(* state, and leaves a slot of the channel free.                           *)
(***************************************************************************)
EXTENDS Integers, Sequences

CONSTANT channelCapacity    \* slots of each channel, 2 in the code

ASSUME ChannelCapacityAssumption == channelCapacity \in Nat \ {0}

VARIABLES
    mapping,            \* the live mapping, what GetTarget looks into
    mappingChannel,     \* mappings sent and not yet received
    mappingInHand,      \* what updateListener received and has not applied
    lastError,          \* the error the health endpoint looks at
    lastErrorChannel,   \* errors sent and not yet received
    errorInHand         \* what errorListener received and has not applied

mappingVars == <<mapping, mappingChannel, mappingInHand>>
errorVars   == <<lastError, lastErrorChannel, errorInHand>>
stateVars   == <<mappingVars, errorVars>>

EmptyMapping == 0           \* the RedirectMap{} of NewState
NoMapping    == -1          \* updateListener waits for its channel
Errors       == {"nil", "error"}
NoError      == "none"      \* errorListener waits for its channel

StateTypeOK(Version) ==
    /\ mapping \in Version \cup {EmptyMapping}
    /\ mappingChannel \in Seq(Version)
    /\ Len(mappingChannel) =< channelCapacity
    /\ mappingInHand \in Version \cup {NoMapping}
    /\ lastError \in Errors
    /\ lastErrorChannel \in Seq(Errors)
    /\ Len(lastErrorChannel) =< channelCapacity
    /\ errorInHand \in Errors \cup {NoError}

NewState ==
    /\ mapping = EmptyMapping
    /\ mappingChannel = << >>
    /\ mappingInHand = NoMapping
    /\ lastError = "nil"
    /\ lastErrorChannel = << >>
    /\ errorInHand = NoError

\* The process ends and a new one starts: none of this survives.
ForgetState ==
    /\ mapping' = EmptyMapping
    /\ mappingChannel' = << >>
    /\ mappingInHand' = NoMapping
    /\ lastError' = "nil"
    /\ lastErrorChannel' = << >>
    /\ errorInHand' = NoError

\* Mutants: the slots are not counted; a full channel loses the mapping.
SendMappingUnbounded(m) ==
    /\ mappingChannel' = Append(mappingChannel, m)
    /\ UNCHANGED <<mapping, mappingInHand, errorVars>>

SendMappingOrDrop(m) ==
    /\ mappingChannel' = IF Len(mappingChannel) < channelCapacity
                         THEN Append(mappingChannel, m) ELSE mappingChannel
    /\ UNCHANGED <<mapping, mappingInHand, errorVars>>

\* target <- fetchedMapping blocks its sender while the channel is full.
SendMapping(m) ==
    /\ Len(mappingChannel) < channelCapacity
    /\ mappingChannel' = Append(mappingChannel, m)
    /\ UNCHANGED <<mapping, mappingInHand, errorVars>>

SendError(e) ==
    /\ Len(lastErrorChannel) < channelCapacity
    /\ lastErrorChannel' = Append(lastErrorChannel, e)
    /\ UNCHANGED <<lastError, errorInHand, mappingVars>>

ReceiveMapping ==
    /\ mappingInHand = NoMapping
    /\ mappingChannel # << >>
    /\ mappingInHand' = Head(mappingChannel)
    /\ mappingChannel' = Tail(mappingChannel)
    /\ UNCHANGED <<mapping, errorVars>>

\* One critical section of mappingMutex: every reader sees the whole old
\* mapping or the whole new one.
UpdateMapping ==
    /\ mappingInHand # NoMapping
    /\ mapping' = mappingInHand
    /\ mappingInHand' = NoMapping
    /\ UNCHANGED <<mappingChannel, errorVars>>

ReceiveError ==
    /\ errorInHand = NoError
    /\ lastErrorChannel # << >>
    /\ errorInHand' = Head(lastErrorChannel)
    /\ lastErrorChannel' = Tail(lastErrorChannel)
    /\ UNCHANGED <<lastError, mappingVars>>

UpdateLastError ==
    /\ errorInHand # NoError
    /\ lastError' = errorInHand
    /\ errorInHand' = NoError
    /\ UNCHANGED <<lastErrorChannel, mappingVars>>

updateListener == ReceiveMapping \/ UpdateMapping

errorListener  == ReceiveError \/ UpdateLastError
=============================================================================
