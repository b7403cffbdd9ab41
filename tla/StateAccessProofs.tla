------------------------- MODULE StateAccessProofs -------------------------
(***************************************************************************)
(* The memory of the state layer, for any number of lookups, updaters and  *)
(* maps and any capacity: no map is written while somebody may read it,    *)
(* every lookup finds one whole map, and what the pipeline sees of it is   *)
(* RedirectState.                                                          *)
(***************************************************************************)
EXTENDS StateAccess, SequenceTheorems, TLAPS

\* A map that may be handed over: it has been made, and nobody will write to it.
Published(a) == a \in 0..made /\ Whole(a)

\* Everything in the channel, the listener's hand and the state is such a map.
HandedOver ==
    /\ Published(mapping)
    /\ \A i \in 1..Len(channel) : Published(channel[i])
    /\ IF listener = "receive" THEN received = NoMap ELSE Published(received)

\* The lock separates the listener's store from the reading of the pointer.
Locking ==
    /\ listener = "store" => writer = "held"
    /\ writer = "held" => readers = {}
    /\ \A r \in Readers :
          IF lookup[r] \in {"range", "unlock"}
          THEN r \in readers /\ seen[r] \subseteq {mapping}
          ELSE seen[r] = {}

\* An updater's map is its own, and whole once the hooks have run.
OwnMap(p) ==
    /\ update[p] \in {"idle", "fetch"} => own[p] = NoMap
    /\ update[p] \in {"rows", "hooks", "send", "sent"} =>
          /\ own[p] \in 1..made
          /\ heap[own[p]].version \in Versions
          /\ Whole(own[p]) <=> update[p] \in {"send", "sent"}

Owned ==
    /\ \A p \in Updaters : OwnMap(p)
    /\ \A p, q \in Updaters : p # q /\ own[p] # NoMap => own[p] # own[q]

AccessInv == AccessTypeOK /\ HandedOver /\ Locking /\ Owned

LEMMA InitAccess == AccessInit => AccessInv
<1> SUFFICES ASSUME AccessInit PROVE AccessInv
  OBVIOUS
<1> USE AccessAssumption DEF AccessInit, Unlocked, InitialMap, NoMap, Addresses
<1>1. AccessTypeOK
  BY DEF AccessTypeOK, MutexTypeOK, Contents
<1>2. HandedOver
  BY DEF HandedOver, Published, Whole
<1>3. Locking
  BY DEF Locking
<1>4. Owned
  BY DEF Owned, OwnMap
<1> QED  BY <1>1, <1>2, <1>3, <1>4 DEF AccessInv

LEMMA StutterAccess == AccessInv /\ UNCHANGED accessVars => AccessInv'
BY DEF AccessInv, accessVars, memoryVars, mutexVars, AccessTypeOK, MutexTypeOK,
       HandedOver, Published, Whole, Locking, Owned, OwnMap

\* A lookup writes nothing but its own locals and its place at the lock.
LEMMA LookupSteps ==
    ASSUME AccessInv, NEW r \in Readers, CallRLock(r) \/ Reader(r)
    PROVE  /\ AccessInv'
           /\ UNCHANGED <<memoryVars, mapping, channel, received, listener>>
<1> USE DEF AccessInv
<1>1. /\ UNCHANGED <<memoryVars, mapping, channel, received, listener, update, own>>
      /\ \E from, to \in {"idle", "load", "range", "unlock"} : LookupAt(r, from, to)
  BY DEF CallRLock, Reader, Load, LoadAgain, DeferredRUnlock, LookupAt
<1>2. HandedOver' /\ Owned'
  BY <1>1 DEF HandedOver, Published, Whole, Owned, OwnMap, memoryVars
<1>3. AccessTypeOK' /\ Locking'
  <2> USE <1>1 DEF AccessTypeOK, MutexTypeOK, Locking, LookupAt, memoryVars, mutexVars
  <2>1. CASE CallRLock(r)
    BY <2>1 DEF CallRLock, RLock
  <2>2. CASE Load(r)
    BY <2>2 DEF Load
  <2>3. CASE LoadAgain(r)
    BY <2>3 DEF LoadAgain
  <2>4. CASE DeferredRUnlock(r)
    BY <2>4 DEF DeferredRUnlock, RUnlock
  <2> QED  BY <2>1, <2>2, <2>3, <2>4 DEF Reader
<1> QED  BY <1>1, <1>2, <1>3

\* The listener makes no map and writes to none.
LEMMA ListenerSteps ==
    ASSUME AccessInv, Listener
    PROVE  AccessInv'
<1> USE DEF AccessInv
<1>1. UNCHANGED <<memoryVars, lookup, seen, update, own>>
  BY DEF Listener, Receive, CallLock, Locked, Store, DeferredUnlock, LogSize,
         ListenerAt
<1>2. Owned'
  BY <1>1 DEF Owned, OwnMap, Whole, memoryVars
<1>3. CASE Receive
  <2>1. /\ channel \in Seq(Addresses) /\ channel # << >>
        /\ received' = channel[1] /\ received' \in Addresses
        /\ channel' \in Seq(Addresses) /\ Len(channel') = Len(channel) - 1
        /\ \A i \in 1..Len(channel') : /\ i + 1 \in 1..Len(channel)
                                       /\ channel'[i] = channel[i + 1]
        /\ 1 \in 1..Len(channel)
    BY <1>3 DEF Receive, AccessTypeOK
  <2>2. AccessTypeOK'
    BY <1>1, <1>3, <2>1, AccessAssumption
    DEF Receive, ListenerAt, AccessTypeOK, MutexTypeOK, memoryVars, mutexVars
  <2>3. HandedOver'
    <3>1. /\ listener' = "lock"
          /\ UNCHANGED <<mapping, made, heap>>
      BY <1>3 DEF Receive, ListenerAt, memoryVars
    <3>2. \A i \in 1..Len(channel) : Published(channel[i])
      BY DEF HandedOver
    <3>3. \A a : Published(a) => Published(a)'
      BY <3>1 DEF Published, Whole
    <3> QED  BY <2>1, <3>1, <3>2, <3>3 DEF HandedOver, Published, Whole
  <2>4. Locking'
    BY <1>1, <1>3 DEF Receive, ListenerAt, Locking, mutexVars
  <2> QED  BY <1>2, <2>2, <2>3, <2>4
<1>4. CASE ~Receive
  <2>1. /\ UNCHANGED channel
        /\ mapping' \in {mapping, received}
        /\ \/ received' = received /\ listener' # "receive" /\ listener # "receive"
           \/ received' = NoMap /\ listener' = "receive" /\ mapping' = mapping
    BY <1>4 DEF Listener, CallLock, Locked, Store, DeferredUnlock, LogSize, ListenerAt
  <2>2. mapping' # mapping => listener = "store" /\ listener' = "unlock"
    BY <1>4 DEF Listener, CallLock, Locked, Store, DeferredUnlock, LogSize, ListenerAt
  <2>3. HandedOver'
    BY <1>1, <2>1, <2>2 DEF HandedOver, Published, Whole, memoryVars
  <2>4. AccessTypeOK'
    <3>1. mapping' \in Addresses /\ received' \in Addresses \cup {NoMap}
      <4>1. listener = "store" => received \in 0..made
        BY DEF HandedOver, Published
      <4>2. NoMap \notin 0..made
        BY DEF NoMap, AccessTypeOK, Addresses
      <4> QED  BY <2>1, <2>2, <4>1, <4>2 DEF AccessTypeOK
    <3>2. MutexTypeOK' /\ listener' \in {"receive", "lock", "locking", "store",
                                         "unlock", "log"}
      BY <1>4 DEF Listener, CallLock, Locked, Store, DeferredUnlock, LogSize,
                  ListenerAt, AccessTypeOK, MutexTypeOK, Lock, LockReturns,
                  Unlock, mutexVars
    <3> QED  BY <1>1, <2>1, <3>1, <3>2 DEF AccessTypeOK, memoryVars
  <2>5. Locking'
    <3> USE <1>1 DEF Locking, ListenerAt
    <3>1. CASE CallLock
      BY <3>1 DEF CallLock, Lock
    <3>2. CASE Locked
      BY <3>2 DEF Locked, LockReturns
    <3>3. CASE Store
      BY <3>3 DEF Store, mutexVars
    <3>4. CASE DeferredUnlock
      BY <3>4 DEF DeferredUnlock, Unlock
    <3>5. CASE LogSize
      BY <3>5 DEF LogSize, mutexVars
    <3> QED  BY <1>4, <3>1, <3>2, <3>3, <3>4, <3>5 DEF Listener
  <2> QED  BY <1>2, <2>3, <2>4, <2>5
<1> QED  BY <1>3, <1>4

\* An updater writes to no map that has been published.
LEMMA UpdaterSteps ==
    ASSUME AccessInv, NEW p \in Updaters, StartUpdate(p) \/ Updater(p)
    PROVE  /\ AccessInv'
           /\ \A a : Published(a) => Published(a)' /\ heap'[a] = heap[a]
<1> USE DEF AccessInv
<1>1. /\ UNCHANGED <<mapping, received, listener, lookup, seen, mutexVars>>
      /\ update' = [update EXCEPT ![p] = update'[p]]
      /\ update'[p] \in {"idle", "fetch", "rows", "hooks", "send", "sent"}
  BY DEF StartUpdate, Updater, NothingFetched, MakeMap, FillRows, applyHooks, Send,
         MeasureMap, UpdateAt, AccessTypeOK
<1>2. Locking'
  BY <1>1 DEF Locking, mutexVars
<1>3. /\ made \in Nat /\ made =< MaxMaps
      /\ \A a : a \in 0..made => a \in Addresses
      /\ \A q \in Updaters : own[q] # NoMap => own[q] \in 1..made
  <2>1. \A q \in Updaters : own[q] # NoMap =>
            update[q] \in {"rows", "hooks", "send", "sent"}
    BY DEF Owned, OwnMap, AccessTypeOK
  <2> QED  BY <2>1, AccessAssumption DEF AccessTypeOK, Addresses, Owned, OwnMap
<1>4. CASE StartUpdate(p) \/ NothingFetched(p) \/ MeasureMap(p)
  <2>1. /\ UNCHANGED <<made, heap, channel>>
        /\ own' = own \/ own' = [own EXCEPT ![p] = NoMap]
        /\ own'[p] = NoMap /\ update'[p] \in {"idle", "fetch"}
    BY <1>4 DEF StartUpdate, NothingFetched, MeasureMap, UpdateAt, memoryVars,
                Owned, OwnMap, AccessTypeOK
  <2>2. AccessTypeOK' /\ HandedOver'
    BY <1>1, <2>1 DEF AccessTypeOK, MutexTypeOK, mutexVars, HandedOver, Published, Whole
  <2>3. Owned'
    BY <1>1, <2>1 DEF Owned, OwnMap, Whole, AccessTypeOK
  <2> QED  BY <1>2, <2>1, <2>2, <2>3 DEF Published, Whole
<1>5. CASE MakeMap(p)
  <2>1. PICK v \in Versions :
           heap' = [heap EXCEPT ![made + 1] = [version |-> v, stage |-> "empty"]]
    BY <1>5 DEF MakeMap
  <2>0. /\ made' = made + 1 /\ made < MaxMaps
        /\ own' = [own EXCEPT ![p] = made + 1]
        /\ update[p] = "fetch" /\ update'[p] = "rows"
        /\ UNCHANGED channel
    BY <1>5 DEF MakeMap, UpdateAt, AccessTypeOK
  <2>2. /\ made' = made + 1 /\ made + 1 \in Addresses
        /\ own' = [own EXCEPT ![p] = made + 1]
        /\ update[p] = "fetch" /\ update'[p] = "rows"
        /\ UNCHANGED channel
    BY <1>3, <2>0, AccessAssumption DEF Addresses
  <2>3. /\ \A a : a \in 0..made => heap'[a] = heap[a] /\ a \in 0..made'
        /\ heap'[made + 1] = [version |-> v, stage |-> "empty"]
    BY <1>3, <2>1, <2>2 DEF AccessTypeOK
  <2>4. \A a : Published(a) => Published(a)' /\ heap'[a] = heap[a]
    BY <2>3 DEF Published, Whole
  <2>5. AccessTypeOK'
    BY <1>1, <2>1, <2>2 DEF AccessTypeOK, MutexTypeOK, mutexVars, Contents
  <2>6. HandedOver'
    BY <1>1, <2>2, <2>4 DEF HandedOver
  <2>7. Owned'
    <3>1. \A q \in Updaters \ {p} : own'[q] = own[q] /\ update'[q] = update[q]
      BY <1>1, <2>2 DEF AccessTypeOK
    <3>2. own'[p] = made + 1
      BY <2>2 DEF AccessTypeOK
    <3>3. \A q \in Updaters \ {p} : own[q] # made + 1
      BY <1>3 DEF NoMap
    <3>4. OwnMap(p)'
      BY <1>3, <2>2, <2>3, <3>2 DEF OwnMap, Whole
    <3>5. \A q \in Updaters \ {p} : OwnMap(q)'
      <4>1. \A q \in Updaters \ {p} : own[q] # NoMap => own[q] \in 0..made
        BY <1>3
      <4> QED  BY <1>3, <2>2, <2>3, <3>1, <4>1 DEF Owned, OwnMap, Whole
    <3> QED  BY <3>1, <3>2, <3>3, <3>4, <3>5 DEF Owned
  <2> QED  BY <1>2, <2>4, <2>5, <2>6, <2>7
<1>6. CASE FillRows(p) \/ applyHooks(p)
  <2>1. /\ UNCHANGED <<made, channel, own>>
        /\ update[p] \in {"rows", "hooks"}
        /\ update'[p] = IF update[p] = "rows" THEN "hooks" ELSE "send"
        /\ heap' = [heap EXCEPT ![own[p]].stage =
                       IF update[p] = "rows" THEN "rows" ELSE "hooked"]
    BY <1>6 DEF FillRows, applyHooks, UpdateAt, AccessTypeOK
  <2>2. /\ own[p] \in 1..made /\ own[p] \in Addresses /\ ~Whole(own[p])
        /\ heap[own[p]].version \in Versions
    BY <1>3, <2>1 DEF Owned, OwnMap
  <2>3. /\ \A a : a # own[p] /\ a \in Addresses => heap'[a] = heap[a]
        /\ heap'[own[p]].version = heap[own[p]].version
        /\ heap'[own[p]].stage = IF update[p] = "rows" THEN "rows" ELSE "hooked"
        /\ heap' \in [Addresses -> Contents]
    BY <2>1, <2>2 DEF AccessTypeOK, Contents
  <2>4. \A a : Published(a) => Published(a)' /\ heap'[a] = heap[a]
    BY <1>3, <2>1, <2>2, <2>3 DEF Published, Whole
  <2>5. AccessTypeOK'
    BY <1>1, <2>1, <2>3 DEF AccessTypeOK, MutexTypeOK, mutexVars
  <2>6. HandedOver'
    BY <1>1, <2>1, <2>4 DEF HandedOver
  <2>7. Owned'
    <3>1. \A q \in Updaters \ {p} : /\ own[q] # own[p] /\ update'[q] = update[q]
                                    /\ own[q] # NoMap => own[q] \in Addresses
      BY <1>1, <2>2 DEF Owned, AccessTypeOK, NoMap
    <3>2. OwnMap(p)'
      BY <2>1, <2>2, <2>3 DEF OwnMap, Whole
    <3>3. \A q \in Updaters \ {p} : OwnMap(q)'
      BY <1>3, <2>1, <2>3, <3>1 DEF Owned, OwnMap, Whole, NoMap
    <3> QED  BY <2>1, <3>2, <3>3 DEF Owned
  <2> QED  BY <1>2, <2>4, <2>5, <2>6, <2>7
<1>7. CASE Send(p)
  <2>1. /\ UNCHANGED <<made, heap, own>>
        /\ update[p] = "send" /\ update'[p] = "sent"
        /\ channel' = Append(channel, own[p])
        /\ Len(channel) < channelCapacity
    BY <1>7 DEF Send, UpdateAt, memoryVars, AccessTypeOK
  <2>2. Published(own[p]) /\ own[p] \in Addresses
    BY <1>3, <2>1 DEF Owned, OwnMap, Published
  <2>0. /\ channel \in Seq(Addresses) /\ Len(channel) \in Nat
        /\ channel' \in Seq(Addresses) /\ Len(channel') = Len(channel) + 1
        /\ \A i \in 1..Len(channel') :
              \/ channel'[i] = own[p]
              \/ i \in 1..Len(channel) /\ channel'[i] = channel[i]
    <3>1. channel \in Seq(Addresses)
      BY DEF AccessTypeOK
    <3> QED  BY <2>1, <2>2, <3>1
  <2>3. AccessTypeOK'
    <3>1. Len(channel') =< channelCapacity
      BY <2>0, <2>1, AccessAssumption
    <3> QED  BY <1>1, <2>0, <2>1, <3>1 DEF AccessTypeOK, MutexTypeOK, mutexVars
  <2>4. HandedOver'
    BY <1>1, <2>0, <2>1, <2>2 DEF HandedOver, Published, Whole
  <2>5. Owned'
    BY <1>1, <2>1 DEF Owned, OwnMap, Whole, AccessTypeOK
  <2> QED  BY <1>2, <2>1, <2>3, <2>4, <2>5 DEF Published, Whole
<1> QED  BY <1>4, <1>5, <1>6, <1>7 DEF Updater

LEMMA NextAccess == AccessInv /\ [AccessNext]_accessVars => AccessInv'
BY LookupSteps, ListenerSteps, UpdaterSteps, StutterAccess DEF AccessNext

THEOREM AccessInductive == AccessSpec => []AccessInv
BY InitAccess, NextAccess, PTL DEF AccessSpec

\* Every variable keeps its type; the channel never holds more than its slots.
THEOREM AccessTypeCorrect == AccessSpec => []AccessTypeOK
<1>1. AccessInv => AccessTypeOK
  BY DEF AccessInv
<1> QED  BY <1>1, AccessInductive, PTL

\* No map is written while another goroutine can get at it: fetching into a new
\* map and sending it only after the hooks makes every later reader safe, the
\* ones without a lock included.
THEOREM NoRaces == AccessSpec => []NoMapRace
<1>1. AccessInv => NoMapRace
  <2> SUFFICES ASSUME AccessInv, NEW p \in Updaters, update[p] \in {"rows", "hooks"}
               PROVE  /\ own[p] \notin {mapping, received}
                      /\ \A i \in 1..Len(channel) : channel[i] # own[p]
                      /\ \A r \in Readers : own[p] \notin seen[r]
                      /\ \A q \in Updaters \ {p} : own[q] # own[p]
    BY DEF NoMapRace
  <2>1. own[p] \in 1..made /\ ~Whole(own[p]) /\ own[p] # NoMap
    BY DEF AccessInv, Owned, OwnMap, NoMap
  <2>2. ~Published(own[p])
    BY <2>1 DEF Published
  <2>3. own[p] \notin {mapping, received}
    BY <2>1, <2>2 DEF AccessInv, HandedOver
  <2>4. \A i \in 1..Len(channel) : channel[i] # own[p]
    BY <2>2 DEF AccessInv, HandedOver
  <2>5. \A r \in Readers : own[p] \notin seen[r]
    BY <2>3 DEF AccessInv, Locking
  <2>6. \A q \in Updaters \ {p} : own[q] # own[p]
    BY <2>1 DEF AccessInv, Owned
  <2> QED  BY <2>3, <2>4, <2>5, <2>6
<1> QED  BY <1>1, AccessInductive, PTL

\* A lookup finds one map, whole, and live for as long as it takes.
THEOREM OneMapFound == AccessSpec => []FindsOneWholeMap
<1>1. AccessInv => FindsOneWholeMap
  BY DEF AccessInv, Locking, HandedOver, Published, FindsOneWholeMap
<1> QED  BY <1>1, AccessInductive, PTL

-----------------------------------------------------------------------------
(* The refinement of RedirectState.                                        *)

\* What RedirectState sees of a channel that holds the addresses s.
VersionsIn(s) == [i \in 1..Len(s) |-> VersionAt(s[i])]

LEMMA VersionsInSeq ==
    ASSUME NEW s \in Seq(Addresses)
    PROVE  /\ VersionsIn(s) \in Seq({VersionAt(a) : a \in Addresses})
           /\ Len(VersionsIn(s)) = Len(s)
           /\ \A i \in 1..Len(s) : VersionsIn(s)[i] = VersionAt(s[i])
<1> DEFINE S == {VersionAt(a) : a \in Addresses}
<1>1. /\ Len(s) \in Nat
      /\ \A i \in 1..Len(s) : s[i] \in Addresses
  OBVIOUS
<1>2. \A i \in 1..Len(s) : VersionAt(s[i]) \in S
  BY <1>1
<1> HIDE DEF S
<1>3. [i \in 1..Len(s) |-> VersionAt(s[i])] \in Seq(S)
  BY <1>1, <1>2
<1> QED  BY <1>1, <1>3 DEF VersionsIn, S

LEMMA VersionsInTail ==
    ASSUME NEW s \in Seq(Addresses), s # << >>
    PROVE  /\ VersionsIn(Tail(s)) = Tail(VersionsIn(s))
           /\ VersionsIn(s) # << >>
           /\ Head(VersionsIn(s)) = VersionAt(Head(s))
<1> DEFINE S == {VersionAt(a) : a \in Addresses}
<1>1. /\ Tail(s) \in Seq(Addresses) /\ Len(Tail(s)) = Len(s) - 1
      /\ \A i \in 1..Len(Tail(s)) : Tail(s)[i] = s[i + 1]
      /\ Len(s) \in Nat /\ Len(s) >= 1 /\ Head(s) = s[1]
  BY HeadTailProperties
<1>2. /\ VersionsIn(s) \in Seq(S) /\ Len(VersionsIn(s)) = Len(s)
      /\ \A i \in 1..Len(s) : VersionsIn(s)[i] = VersionAt(s[i])
      /\ VersionsIn(Tail(s)) \in Seq(S) /\ Len(VersionsIn(Tail(s))) = Len(s) - 1
      /\ \A i \in 1..(Len(s) - 1) : VersionsIn(Tail(s))[i] = VersionAt(Tail(s)[i])
  BY <1>1, VersionsInSeq
<1> HIDE DEF S
<1>3. VersionsIn(s) # << >> /\ Head(VersionsIn(s)) = VersionAt(Head(s))
  BY <1>1, <1>2
<1>4. /\ Tail(VersionsIn(s)) \in Seq(S)
      /\ Len(Tail(VersionsIn(s))) = Len(s) - 1
      /\ \A i \in 1..(Len(s) - 1) : Tail(VersionsIn(s))[i] = VersionsIn(s)[i + 1]
  BY <1>2, <1>3, HeadTailProperties
<1>5. \A i \in 1..(Len(s) - 1) : VersionsIn(Tail(s))[i] = Tail(VersionsIn(s))[i]
  BY <1>1, <1>2, <1>4
<1>6. VersionsIn(Tail(s)) = Tail(VersionsIn(s))
  BY <1>2, <1>4, <1>5, SeqEqual
<1> QED  BY <1>3, <1>6

LEMMA VersionsInAppend ==
    ASSUME NEW s \in Seq(Addresses), NEW a \in Addresses
    PROVE  VersionsIn(Append(s, a)) = Append(VersionsIn(s), VersionAt(a))
<1> DEFINE S == {VersionAt(b) : b \in Addresses}
           t == Append(s, a)
           u == Append(VersionsIn(s), VersionAt(a))
<1>1. /\ t \in Seq(Addresses) /\ Len(t) = Len(s) + 1 /\ Len(s) \in Nat
      /\ \A i \in 1..Len(s) : t[i] = s[i]
      /\ t[Len(s) + 1] = a
  BY AppendProperties
<1>2. /\ VersionsIn(s) \in Seq(S) /\ Len(VersionsIn(s)) = Len(s)
      /\ \A i \in 1..Len(s) : VersionsIn(s)[i] = VersionAt(s[i])
  BY VersionsInSeq
<1>3. /\ VersionsIn(t) \in Seq(S) /\ Len(VersionsIn(t)) = Len(t)
      /\ \A i \in 1..Len(t) : VersionsIn(t)[i] = VersionAt(t[i])
  BY <1>1, VersionsInSeq
<1>4. VersionAt(a) \in S
  OBVIOUS
<1> HIDE DEF S, t
<1>5. /\ u \in Seq(S) /\ Len(u) = Len(s) + 1
      /\ \A i \in 1..Len(s) : u[i] = VersionsIn(s)[i]
      /\ u[Len(s) + 1] = VersionAt(a)
  BY <1>2, <1>4, AppendProperties
<1> HIDE DEF u
<1>6. \A i \in 1..Len(t) : VersionsIn(t)[i] = u[i]
  <2>1. \A i \in 1..Len(t) : i \in 1..Len(s) \/ i = Len(s) + 1
    BY <1>1
  <2> QED  BY <1>1, <1>2, <1>3, <1>5, <2>1
<1>7. VersionsIn(t) = u
  BY <1>1, <1>3, <1>5, <1>6, SeqEqual
<1> QED  BY <1>7 DEF t, u

\* A step that leaves the published maps and the pointers to them alone is none
\* of RedirectState.
LEMMA Invisible ==
    ASSUME AccessInv,
           UNCHANGED <<mapping, channel>>,
           \A a : Published(a) => Published(a)' /\ heap'[a] = heap[a],
           \/ UNCHANGED <<received, listener>>
           \/ /\ listener \in {"lock", "locking", "store"}
              /\ listener' \in {"lock", "locking", "store"}
              /\ UNCHANGED received
           \/ /\ listener \notin {"lock", "locking", "store"}
              /\ listener' \notin {"lock", "locking", "store"}
    PROVE  UNCHANGED (Atomic!mappingVars)
<1> USE DEF AccessInv, HandedOver
<1>1. \A a : Published(a) => VersionAt(a)' = VersionAt(a)
  BY DEF VersionAt, Published, Whole, Unfinished
<1>2. VersionAt(mapping)' = VersionAt(mapping)
  BY <1>1
<1>3. [i \in 1..Len(channel) |-> VersionAt(channel[i])]'
         = [i \in 1..Len(channel) |-> VersionAt(channel[i])]
  BY <1>1
<1>4. (IF listener \in {"lock", "locking", "store"} THEN VersionAt(received) ELSE NoMap)'
         = IF listener \in {"lock", "locking", "store"} THEN VersionAt(received) ELSE NoMap
  BY <1>1 DEF NoMap
<1> QED  BY <1>2, <1>3, <1>4 DEF Atomic!mappingVars

\* The listener's steps are those of RedirectState's.
LEMMA ListenerRefines ==
    ASSUME AccessInv, Listener
    PROVE  Atomic!updateListener \/ UNCHANGED (Atomic!mappingVars)
<1> USE DEF AccessInv
<1>1. CASE Receive
  <2>1. /\ listener = "receive" /\ listener' = "lock"
        /\ UNCHANGED <<mapping, heap>>
        /\ channel \in Seq(Addresses) /\ channel # << >>
        /\ received' = Head(channel)
        /\ channel' = Tail(channel)
    BY <1>1 DEF Receive, ListenerAt, memoryVars, AccessTypeOK
  <2>2. \A a : VersionAt(a)' = VersionAt(a)
    BY <2>1 DEF VersionAt, Whole, Unfinished
  <2>3. /\ VersionsIn(channel') = Tail(VersionsIn(channel))
        /\ VersionsIn(channel) # << >>
        /\ Head(VersionsIn(channel)) = VersionAt(received')
    BY <2>1, VersionsInTail
  <2>4. [i \in 1..Len(channel') |-> VersionAt(channel[i])'] = VersionsIn(channel')
    BY <2>2 DEF VersionsIn
  <2> QED
    BY <2>1, <2>2, <2>3, <2>4
    DEF Atomic!updateListener, Atomic!ReceiveMapping, Atomic!NoMapping,
        Atomic!errorVars, NoMap, VersionsIn
<1>2. CASE Store
  <2>1. /\ listener = "store" /\ listener' = "unlock"
        /\ UNCHANGED <<heap, channel>>
        /\ mapping' = received
    BY <1>2 DEF Store, ListenerAt, memoryVars
  <2>2. \A a : VersionAt(a)' = VersionAt(a)
    BY <2>1 DEF VersionAt, Whole, Unfinished
  <2>3. Published(received) /\ received \in Addresses
    BY <2>1 DEF HandedOver, AccessTypeOK, Published, NoMap
  <2>4. VersionAt(received) # NoMap
    BY <2>3, AccessAssumption DEF VersionAt, Published, AccessTypeOK, Contents, NoMap
  <2> QED
    BY <2>1, <2>2, <2>4
    DEF Atomic!updateListener, Atomic!UpdateMapping, Atomic!NoMapping,
        Atomic!errorVars, NoMap
<1>3. CASE CallLock \/ Locked \/ DeferredUnlock \/ LogSize
  <2>1. /\ UNCHANGED <<mapping, channel, heap, made>>
        /\ \/ /\ listener \in {"lock", "locking", "store"}
              /\ listener' \in {"lock", "locking", "store"}
              /\ UNCHANGED received
           \/ /\ listener \notin {"lock", "locking", "store"}
              /\ listener' \notin {"lock", "locking", "store"}
    BY <1>3 DEF CallLock, Locked, DeferredUnlock, LogSize, ListenerAt, memoryVars
  <2>2. \A a : Published(a) => Published(a)' /\ heap'[a] = heap[a]
    BY <2>1 DEF Published, Whole
  <2> QED  BY <2>1, <2>2, Invisible
<1> QED  BY <1>1, <1>2, <1>3 DEF Listener

\* So is the sending of a map; what an updater does before is invisible.
LEMMA UpdaterRefines ==
    ASSUME AccessInv, NEW p \in Updaters, StartUpdate(p) \/ Updater(p)
    PROVE  \/ \E v \in Versions : Atomic!SendMapping(v)
           \/ UNCHANGED (Atomic!mappingVars)
<1> USE DEF AccessInv
<1>1. UNCHANGED <<mapping, received, listener>>
  BY DEF StartUpdate, Updater, NothingFetched, MakeMap, FillRows, applyHooks, Send,
         MeasureMap, UpdateAt
<1>2. CASE Send(p)
  <2>1. /\ UNCHANGED heap
        /\ update[p] = "send"
        /\ Len(channel) < channelCapacity
        /\ channel' = Append(channel, own[p])
        /\ channel \in Seq(Addresses) /\ Len(channel) \in Nat
    BY <1>2 DEF Send, UpdateAt, memoryVars, AccessTypeOK
  <2>2. \A a : VersionAt(a)' = VersionAt(a)
    BY <2>1 DEF VersionAt, Whole, Unfinished
  <2>3. /\ VersionAt(own[p]) \in Versions
        /\ own[p] \in Addresses
    BY <2>1 DEF Owned, OwnMap, VersionAt, AccessTypeOK, NoMap
  <2>4. VersionsIn(channel') = Append(VersionsIn(channel), VersionAt(own[p]))
    BY <2>1, <2>3, VersionsInAppend
  <2>5. [i \in 1..Len(channel') |-> VersionAt(channel[i])'] = VersionsIn(channel')
    BY <2>2 DEF VersionsIn
  <2>6. Len(VersionsIn(channel)) = Len(channel)
    BY <2>1, VersionsInSeq
  <2> QED
    BY <1>1, <2>1, <2>2, <2>3, <2>4, <2>5, <2>6
    DEF Atomic!SendMapping, Atomic!errorVars, VersionsIn
<1>3. CASE ~Send(p)
  <2>1. UNCHANGED channel
    BY <1>3 DEF StartUpdate, Updater, NothingFetched, MakeMap, FillRows, applyHooks,
                MeasureMap, UpdateAt
  <2> QED  BY <1>1, <2>1, UpdaterSteps, Invisible
<1> QED  BY <1>2, <1>3

\* The pointers, locks and maps implement the variables of RedirectState.
THEOREM StateImplemented == AccessSpec => ImplementsState
<1>1. AccessInit => Atomic!NewState
  <2> SUFFICES ASSUME AccessInit PROVE Atomic!NewState
    OBVIOUS
  <2>1. mapping \in Addresses /\ mapping = InitialMap
    BY AccessAssumption DEF AccessInit, InitialMap, Addresses
  <2>2. VersionAt(mapping) = 0
    BY <2>1 DEF AccessInit, VersionAt, Whole
  <2>3. [i \in 1..Len(channel) |-> VersionAt(channel[i])] = << >>
    BY DEF AccessInit
  <2> QED
    BY <2>2, <2>3
    DEF AccessInit, Atomic!NewState, Atomic!EmptyMapping, Atomic!NoMapping,
        Atomic!NoError, NoMap
<1>2. AccessInv /\ [AccessNext]_accessVars =>
         [Atomic!updateListener \/ \E v \in Versions : Atomic!SendMapping(v)]_
             (Atomic!mappingVars)
  <2> SUFFICES ASSUME AccessInv, [AccessNext]_accessVars
               PROVE  \/ Atomic!updateListener
                      \/ \E v \in Versions : Atomic!SendMapping(v)
                      \/ UNCHANGED (Atomic!mappingVars)
    OBVIOUS
  <2>1. ASSUME NEW r \in Readers, CallRLock(r) \/ Reader(r)
        PROVE  UNCHANGED (Atomic!mappingVars)
    BY <2>1, LookupSteps, Invisible DEF Published, Whole, memoryVars
  <2>2. ASSUME UNCHANGED accessVars
        PROVE  UNCHANGED (Atomic!mappingVars)
    BY <2>2, Invisible DEF accessVars, memoryVars, Published, Whole
  <2> QED
    BY <2>1, <2>2, ListenerRefines, UpdaterRefines DEF AccessNext
<1> QED
  BY <1>1, <1>2, AccessInductive, PTL DEF AccessSpec, ImplementsState
=============================================================================
