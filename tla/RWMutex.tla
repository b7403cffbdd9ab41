------------------------------ MODULE RWMutex ------------------------------
(***************************************************************************)
(* sync.RWMutex as the state layer uses it: one goroutine that writes, any *)
(* number that read.  A writer that has called Lock keeps later readers    *)
(* out and waits for the earlier ones; its Unlock lets all of those in     *)
(* that came meanwhile, before it can get the lock again.                  *)
(***************************************************************************)
CONSTANT Readers

VARIABLES
    writer,             \* what the writer has of the lock
    readers,            \* who holds it for reading
    queue               \* who has called RLock and waits

mutexVars == <<writer, readers, queue>>

MutexTypeOK ==
    /\ writer \in {"none", "pending", "held"}
    /\ readers \subseteq Readers
    /\ queue \subseteq Readers

Unlocked ==
    /\ writer = "none"
    /\ readers = {}
    /\ queue = {}

RLock(r) ==
    /\ IF writer = "none"
       THEN readers' = readers \cup {r} /\ UNCHANGED queue
       ELSE queue' = queue \cup {r} /\ UNCHANGED readers
    /\ UNCHANGED writer

RUnlock(r) ==
    /\ readers' = readers \ {r}
    /\ UNCHANGED <<writer, queue>>

\* Lock is called, and returns once the last reader is out.
Lock ==
    /\ writer = "none"
    /\ writer' = "pending"
    /\ UNCHANGED <<readers, queue>>

LockReturns ==
    /\ writer = "pending"
    /\ readers = {}
    /\ writer' = "held"
    /\ UNCHANGED <<readers, queue>>

Unlock ==
    /\ writer' = "none"
    /\ readers' = readers \cup queue
    /\ queue' = {}
=============================================================================
