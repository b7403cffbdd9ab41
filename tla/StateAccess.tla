---------------------------- MODULE StateAccess ----------------------------
(***************************************************************************)
(* The mapping of the state layer (internal/state/redirect-state.go) as    *)
(* the memory it is: a field that points to a Go map, guarded by           *)
(* mappingMutex, and maps that updaters make, fill, hand the hooks to edit *)
(* in place, and send.  Go maps have no lock of their own, and a map that  *)
(* is written while someone reads it ends the process.  The receiver of a  *)
(* map is not its only holder: the updater that has sent it still measures *)
(* it (api.go:166), and so does the listener that has applied it           *)
(* (redirect-state.go:130), neither under a lock.                          *)
(*                                                                         *)
(* RedirectState takes all of this for a variable that is read and written *)
(* in one step; ImplementsState says that it may.  The error has a mutex   *)
(* and a channel of the same kind, and nothing behind a pointer.           *)
(***************************************************************************)
EXTENDS Integers, Sequences, RWMutex

CONSTANTS
    Updaters,           \* goroutines that run UpdateRedirectMapping
    Versions,           \* what a map may contain
    channelCapacity,    \* slots of the channel, 2 in the code
    MaxMaps             \* bound: maps that are made

ASSUME AccessAssumption ==
    /\ Versions \subseteq Nat \ {0}
    /\ channelCapacity \in Nat \ {0}
    /\ MaxMaps \in Nat

VARIABLES
    made,               \* how many maps have been made; their addresses are 1..made
    heap,               \* what is in the map at each address
    mapping,            \* state.mapping: the address of the live map
    channel,            \* state.mappingChannel: addresses
    received,           \* the local variable of updateListener
    listener,           \* where updateListener is
    lookup,             \* where each reader is
    seen,               \* the maps a reader has found in state.mapping
    update,             \* where each updater is
    own                 \* the map an updater has made

memoryVars == <<made, heap>>
accessVars == <<memoryVars, mapping, channel, received, listener, lookup, seen,
                update, own, mutexVars>>

InitialMap == 0             \* the RedirectMap{} of NewState
NoMap      == -1
Addresses  == 0 .. MaxMaps

\* A map is filled with the rows of the sheet or the lines of the file, then
\* edited by the hooks.
Contents == [version : Versions \cup {0}, stage : {"empty", "rows", "hooked"}]

Whole(a) == heap[a].stage = "hooked"

AccessTypeOK ==
    /\ MutexTypeOK
    /\ made \in Addresses
    /\ heap \in [Addresses -> Contents]
    /\ mapping \in Addresses
    /\ channel \in Seq(Addresses)
    /\ Len(channel) =< channelCapacity
    /\ received \in Addresses \cup {NoMap}
    /\ listener \in {"receive", "lock", "locking", "store", "unlock", "log"}
    /\ lookup \in [Readers -> {"idle", "load", "range", "unlock"}]
    /\ seen \in [Readers -> SUBSET Addresses]
    /\ update \in [Updaters -> {"idle", "fetch", "rows", "hooks", "send", "sent"}]
    /\ own \in [Updaters -> Addresses \cup {NoMap}]

AccessInit ==
    /\ Unlocked
    /\ made = 0
    /\ heap = [a \in Addresses |->
                 [version |-> 0, stage |-> IF a = InitialMap THEN "hooked" ELSE "empty"]]
    /\ mapping = InitialMap
    /\ channel = << >>
    /\ received = NoMap
    /\ listener = "receive"
    /\ lookup = [r \in Readers |-> "idle"]
    /\ seen = [r \in Readers |-> {}]
    /\ update = [p \in Updaters |-> "idle"]
    /\ own = [p \in Updaters |-> NoMap]

-----------------------------------------------------------------------------
(* GetTarget, MappingSize and CurrentMapping.                              *)

LookupAt(r, from, to) ==
    /\ lookup[r] = from
    /\ lookup' = [lookup EXCEPT ![r] = to]
    /\ UNCHANGED <<memoryVars, mapping, channel, received, listener, update, own>>

CallRLock(r) ==
    /\ LookupAt(r, "idle", "load")
    /\ RLock(r)
    /\ UNCHANGED seen

\* CurrentMapping evaluates state.mapping twice, for its length and to range over
\* it; the others are done after the first time.
Load(r) ==
    /\ r \in readers
    /\ \E next \in {"range", "unlock"} : LookupAt(r, "load", next)
    /\ seen' = [seen EXCEPT ![r] = {mapping}]
    /\ UNCHANGED mutexVars

LoadAgain(r) ==
    /\ LookupAt(r, "range", "unlock")
    /\ seen' = [seen EXCEPT ![r] = @ \cup {mapping}]
    /\ UNCHANGED mutexVars

DeferredRUnlock(r) ==
    /\ LookupAt(r, "unlock", "idle")
    /\ seen' = [seen EXCEPT ![r] = {}]
    /\ RUnlock(r)

Reader(r) == Load(r) \/ LoadAgain(r) \/ DeferredRUnlock(r)

-----------------------------------------------------------------------------
(* updateListener and UpdateMapping.                                       *)

ListenerAt(from, to) ==
    /\ listener = from
    /\ listener' = to
    /\ UNCHANGED <<memoryVars, lookup, seen, update, own>>

Receive ==
    /\ ListenerAt("receive", "lock")
    /\ channel # << >>
    /\ received' = Head(channel)
    /\ channel' = Tail(channel)
    /\ UNCHANGED <<mapping, mutexVars>>

\* Mutants: the lock is not taken; only if it is free, or else the map dropped.
CallLockNot ==
    /\ ListenerAt("lock", "store")
    /\ UNCHANGED <<mapping, channel, received, mutexVars>>

CallLockTry ==
    /\ ListenerAt("lock", IF readers = {} THEN "locking" ELSE "log")
    /\ IF readers = {} THEN Lock ELSE UNCHANGED mutexVars
    /\ UNCHANGED <<mapping, channel, received>>

CallLock ==
    /\ ListenerAt("lock", "locking")
    /\ Lock
    /\ UNCHANGED <<mapping, channel, received>>

Locked ==
    /\ ListenerAt("locking", "store")
    /\ LockReturns
    /\ UNCHANGED <<mapping, channel, received>>

Store ==
    /\ ListenerAt("store", "unlock")
    /\ mapping' = received
    /\ UNCHANGED <<channel, received, mutexVars>>

\* Mutant: the lock is not given back.
DeferredUnlockNot ==
    /\ ListenerAt("unlock", "log")
    /\ UNCHANGED <<mapping, channel, received, mutexVars>>

DeferredUnlock ==
    /\ ListenerAt("unlock", "log")
    /\ Unlock
    /\ UNCHANGED <<mapping, channel, received>>

\* The number of entries is logged without the lock.
LogSize ==
    /\ ListenerAt("log", "receive")
    /\ received' = NoMap
    /\ UNCHANGED <<mapping, channel, mutexVars>>

Listener ==
    \/ Receive \/ CallLock \/ Locked \/ Store \/ DeferredUnlock \/ LogSize

-----------------------------------------------------------------------------
(* UpdateRedirectMapping, as far as it concerns the map.                   *)

UpdateAt(p, from, to) ==
    /\ update[p] = from
    /\ update' = [update EXCEPT ![p] = to]
    /\ UNCHANGED <<mapping, received, listener, lookup, seen, mutexVars>>

StartUpdate(p) ==
    /\ UpdateAt(p, "idle", "fetch")
    /\ UNCHANGED <<memoryVars, channel, own>>

\* Neither Google nor the file has a mapping.
NothingFetched(p) ==
    /\ UpdateAt(p, "fetch", "idle")
    /\ UNCHANGED <<memoryVars, channel, own>>

\* Mutant: the map of the last fetch is used again.
MakeMapOnce(p) ==
    /\ UpdateAt(p, "fetch", "rows")
    /\ made' = 1
    /\ own' = [own EXCEPT ![p] = 1]
    /\ \E v \in Versions :
          heap' = [heap EXCEPT ![1] = [version |-> v, stage |-> "empty"]]
    /\ UNCHANGED channel

\* fetchRedirectMappingInternal and readFallbackFile make a map of their own.
MakeMap(p) ==
    /\ made < MaxMaps
    /\ UpdateAt(p, "fetch", "rows")
    /\ made' = made + 1
    /\ own' = [own EXCEPT ![p] = made + 1]
    /\ \E v \in Versions :
          heap' = [heap EXCEPT ![made + 1] = [version |-> v, stage |-> "empty"]]
    /\ UNCHANGED channel

FillRows(p) ==
    /\ UpdateAt(p, "rows", "hooks")
    /\ heap' = [heap EXCEPT ![own[p]].stage = "rows"]
    /\ UNCHANGED <<made, channel, own>>

\* Mutant: the hooks are forgotten.
ApplyNoHooks(p) ==
    /\ UpdateAt(p, "hooks", "send")
    /\ UNCHANGED <<memoryVars, channel, own>>

applyHooks(p) ==
    /\ UpdateAt(p, "hooks", "send")
    /\ heap' = [heap EXCEPT ![own[p]].stage = "hooked"]
    /\ UNCHANGED <<made, channel, own>>

Send(p) ==
    /\ Len(channel) < channelCapacity
    /\ UpdateAt(p, "send", "sent")
    /\ channel' = Append(channel, own[p])
    /\ UNCHANGED <<memoryVars, own>>

\* The handler of a forced update measures the map it got back.
MeasureMap(p) ==
    /\ UpdateAt(p, "sent", "idle")
    /\ own' = [own EXCEPT ![p] = NoMap]
    /\ UNCHANGED <<memoryVars, channel>>

Updater(p) ==
    \/ NothingFetched(p) \/ MakeMap(p) \/ FillRows(p) \/ applyHooks(p)
    \/ Send(p) \/ MeasureMap(p)

AccessNext ==
    \/ \E r \in Readers : CallRLock(r) \/ Reader(r)
    \/ Listener
    \/ \E p \in Updaters : StartUpdate(p) \/ Updater(p)

(***************************************************************************)
(* Fairness.  Whoever can go on does; nobody has to start a lookup or an   *)
(* update.  A sender that waits for a slot is in the channel's queue.      *)
(***************************************************************************)
AccessFairness ==
    /\ \A r \in Readers : WF_accessVars(Reader(r))
    /\ WF_accessVars(Listener)
    /\ \A p \in Updaters : WF_accessVars(Updater(p)) /\ SF_accessVars(Send(p))

AccessSpec == AccessInit /\ [][AccessNext]_accessVars

FairAccessSpec == AccessSpec /\ AccessFairness

-----------------------------------------------------------------------------
\* A map is only written while nobody but its maker can get at it: not through
\* the channel, the listener, the state, a lookup that is under way, nor another
\* updater (google-sheets.go:355, repo.go:74, 80, 159).
NoMapRace ==
    \A p \in Updaters : update[p] \in {"rows", "hooks"} =>
        /\ own[p] \notin {mapping, received}
        /\ \A i \in 1..Len(channel) : channel[i] # own[p]
        /\ \A r \in Readers : own[p] \notin seen[r]
        /\ \A q \in Updaters \ {p} : own[q] # own[p]

\* A lookup, also one that evaluates state.mapping twice, finds one map, the hooks
\* have run on it, and it is the live one until the lookup is over
\* (redirect-state.go:64-90).
FindsOneWholeMap ==
    \A r \in Readers : \A a \in seen[r] : a = mapping /\ Whole(a)

\* Every lookup ends, however many updates come in.
LookupsEnd == \A r \in Readers : (lookup[r] # "idle") ~> (lookup[r] = "idle")

\* Every map that is sent goes live, however many lookups there are.
UpdatesLand ==
    \A p \in Updaters : \A a \in Addresses :
        (update[p] = "send" /\ own[p] = a) ~> (mapping = a)

\* What the pipeline takes a map for: the version it was made from, once it is
\* whole, and something that is no version before.
Unfinished == -2
VersionAt(a) == IF Whole(a) THEN heap[a].version ELSE Unfinished

Atomic == INSTANCE RedirectState WITH
    mapping          <- VersionAt(mapping),
    mappingChannel   <- [i \in 1..Len(channel) |-> VersionAt(channel[i])],
    mappingInHand    <- IF listener \in {"lock", "locking", "store"}
                        THEN VersionAt(received) ELSE NoMap,
    lastError        <- "nil",
    lastErrorChannel <- << >>,
    errorInHand      <- "none"

\* The pointers, the locks and the maps behind them implement the variables of
\* RedirectState: a version is sent, received and applied in one step each.
ImplementsState ==
    /\ Atomic!NewState
    /\ [][Atomic!updateListener \/ \E v \in Versions : Atomic!SendMapping(v)]_
          (Atomic!mappingVars)
=============================================================================
