---------------------------- MODULE HooksProofs ----------------------------
(***************************************************************************)
(* What the rows of a sheet and the hooks make of its names, for sheets of *)
(* any size and any names, in whatever order Go visits the keys.           *)
(***************************************************************************)
EXTENDS RedirectHooks, SequenceTheorems, TLAPS

\* What hooks 1 to h - 1 make of a key.
Pre(h, key) ==
    CASE h = 1 -> key
      [] h = 2 -> keyModifierFunc(1, key)
      [] h = 3 -> keyModifierFunc(2, keyModifierFunc(1, key))
      [] h = 4 -> Hooked(key)

\* A loop leaves the keys it has visited under their new names.
Renamed ==
    hook \in 1..3 =>
        /\ \A q \in DOMAIN redirectMap : \E k \in DOMAIN sheet :
              /\ redirectMap[q] = sheet[k]
              /\ q = Pre(hook + 1, k) \/ (q \in unvisited /\ q = Pre(hook, k))
        /\ \A k \in DOMAIN sheet :
              Pre(hook, k) \in unvisited \/ Pre(hook + 1, k) \in DOMAIN redirectMap

\* The rows before row n that are links.
Before(n) == {i \in 1..Len(rows) : i < n /\ IsLink(i)}

\* m has the links of the rows before n.
LinksBefore(n, m) ==
    /\ \A k : k \in DOMAIN m <=> \E i \in Before(n) : rows[i].name = k
    /\ \A i \in Before(n) :
          (\A j \in Before(n) : rows[j].name = rows[i].name => j =< i)
          => m[rows[i].name] = rows[i].target

\* While the rows are read, err tells of the nearest text above.
RowsKept ==
    /\ hook = 0 => /\ parseFailed <=> UnreadAt(nextRow - 1)
                   /\ LinksBefore(nextRow, redirectMap)
    /\ hook # 0 /\ ~reloaded => LinksBefore(Len(rows) + 1, sheet)

\* A snapshot has been through the hooks.
FromRows ==
    reloaded =>
        /\ sheet = snapshot
        /\ \A n \in DOMAIN snapshot : \E i \in 1..Len(rows) :
              rows[i].name \in Name /\ Hooked(rows[i].name) = n

HooksType ==
    /\ HooksTypeOK
    /\ rows \in Seq(Rows)
    /\ DOMAIN sheet \subseteq Name
    /\ \A k \in DOMAIN sheet : sheet[k] \in URLs
    /\ hook = 0 => ~reloaded

HooksInv == HooksType /\ Renamed /\ LinksKept /\ RowsKept /\ FromRows

-----------------------------------------------------------------------------
\* Each hook renames a name to a name, and leaves the new one alone.
LEMMA HookIdempotent ==
  ASSUME NEW h \in 1..3, NEW key \in Name
  PROVE  /\ keyModifierFunc(h, key) \in Name
         /\ keyModifierFunc(h, keyModifierFunc(h, key)) = keyModifierFunc(h, key)
<1>1. TrimSlashes(key) \in Name /\ TrimSlashes(TrimSlashes(key)) = TrimSlashes(key)
  BY DEF Name, TrimSlashes
<1>2. TrimRightInfo(key) \in Name
      /\ TrimRightInfo(TrimRightInfo(key)) = TrimRightInfo(key)
  BY DEF Name, TrimRightInfo
<1>3. ToLower(key) \in Name /\ ToLower(ToLower(key)) = ToLower(key)
  BY DEF Name, ToLower
<1>4. CASE h = 1
  BY <1>1, <1>4 DEF keyModifierFunc
<1>5. CASE h = 2
  BY <1>2, <1>5 DEF keyModifierFunc
<1>6. CASE h = 3
  BY <1>3, <1>6 DEF keyModifierFunc, Lowered
<1> QED
  BY <1>4, <1>5, <1>6

LEMMA PreSteps ==
  ASSUME NEW key \in Name
  PROVE  /\ Pre(1, key) = key
         /\ Pre(4, key) = Hooked(key)
         /\ \A h \in 1..3 : Pre(h + 1, key) = keyModifierFunc(h, Pre(h, key))
         /\ \A h \in 1..4 : Pre(h, key) \in Name
<1>1. Pre(1, key) = key /\ Pre(4, key) = Hooked(key)
  BY DEF Pre
<1>2. \A h \in 1..3 : Pre(h + 1, key) = keyModifierFunc(h, Pre(h, key))
  <2>1. Pre(2, key) = keyModifierFunc(1, Pre(1, key))
    BY DEF Pre
  <2>2. Pre(3, key) = keyModifierFunc(2, Pre(2, key))
    BY DEF Pre
  <2>3. Pre(4, key) = keyModifierFunc(3, Pre(3, key))
    BY DEF Pre, Hooked
  <2> QED
    BY <2>1, <2>2, <2>3
<1>3. Pre(2, key) \in Name
  BY <1>1, <1>2, HookIdempotent
<1>4. Pre(3, key) \in Name
  BY <1>2, <1>3, HookIdempotent
<1>5. Pre(4, key) \in Name
  BY <1>2, <1>4, HookIdempotent
<1> QED
  BY <1>1, <1>2, <1>3, <1>4, <1>5

\* The hooks, once more, trim slashes off a name and nothing else, and there are
\* slashes to trim only if a suffix after them has gone.
LEMMA HookedTwice ==
  ASSUME NEW key \in Name
  PROVE  /\ Hooked(key) \in Name
         /\ Hooked(Hooked(key)) = TrimSlashes(Hooked(key))
         /\ TrimSlashes(Hooked(key)) # Hooked(key) => infoTemplate /\ key.after = "/+"
<1> DEFINE slashes == TrimSlashes(key)
           info    == IF infoTemplate THEN TrimRightInfo(slashes) ELSE slashes
           low     == Lowered(info, ignoreCaseInPath)
           again   == TrimSlashes(low)
<1>1. slashes \in Name /\ slashes.after \in {"", "+", "/+"}
      /\ (slashes.after = "/+" => key.after = "/+")
  BY DEF Name, TrimSlashes
<1>2. /\ info \in Name
      /\ infoTemplate => info.after \in {"", "/"}
      /\ info.after = "/" => infoTemplate /\ key.after = "/+"
      /\ info.after \in {"", "+", "/+", "/"}
  BY <1>1 DEF Name, TrimRightInfo
<1>3. Hooked(key) = low
  BY DEF Hooked, keyModifierFunc
<1>4. low \in Name /\ low.after = info.after /\ Lowered(low, ignoreCaseInPath) = low
  BY <1>2 DEF Name, Lowered, ToLower
<1> HIDE DEF low, info
<1>5. /\ again \in Name
      /\ infoTemplate => again.after = ""
      /\ again # low => low.after = "/"
      /\ Lowered(again, ignoreCaseInPath) = again
  BY <1>2, <1>4 DEF Name, TrimSlashes, Lowered, ToLower
<1>6. infoTemplate => TrimRightInfo(again) = again
  BY <1>5 DEF Name, TrimRightInfo
<1>7. Lowered(again, ignoreCaseInPath) = again
  BY <1>5
<1>8. keyModifierFunc(1, low) = again
  BY DEF keyModifierFunc
<1> HIDE DEF again
<1>9. keyModifierFunc(2, again) = again
  BY <1>6 DEF keyModifierFunc
<1>10. keyModifierFunc(3, again) = again
  BY <1>7 DEF keyModifierFunc
<1>11. Hooked(low) = again
  BY <1>8, <1>9, <1>10 DEF Hooked
<1> QED
  BY <1>2, <1>3, <1>4, <1>5, <1>11 DEF again

-----------------------------------------------------------------------------
LEMMA HooksInit == Init => HooksInv
<1> SUFFICES ASSUME Init PROVE HooksInv
  OBVIOUS
<1> USE DEF Init, RowsInit
<1>1. rows \in Seq(Rows)
  BY SeqDef, SheetRowsAssumption
<1>2. Len(rows) \in Nat
  BY <1>1
<1>3. HooksType
  <2>1. DOMAIN redirectMap = {} /\ DOMAIN sheet = {}
    OBVIOUS
  <2>2. parseFailed \in BOOLEAN
    BY Zenon
  <2>3. nextRow \in 1..(Len(rows) + 1)
    BY <1>2
  <2> QED
    BY <1>1, <2>1, <2>2, <2>3 DEF HooksType, HooksTypeOK
<1>4. RowsKept
  BY <1>2 DEF RowsKept, LinksBefore, Before, UnreadAt
<1> QED
  BY <1>3, <1>4 DEF HooksInv, Renamed, LinksKept, applied, FromRows

\* What no step touches.
LEMMA HooksConstant ==
  ASSUME Next
  PROVE  /\ UNCHANGED <<rows, ignoreCaseInPath, infoTemplate>>
         /\ \A h, k : keyModifierFunc(h, k)' = keyModifierFunc(h, k)
         /\ \A h, k : Pre(h, k)' = Pre(h, k)
         /\ \A k : Hooked(k)' = Hooked(k)
<1>1. UNCHANGED <<rows, ignoreCaseInPath, infoTemplate>>
  BY DEF Next, ReadRow, ParseRow, ApplyHooks, VisitKey, NextHook, Reload, rowVars, hookVars
<1>2. \A h, k : keyModifierFunc(h, k)' = keyModifierFunc(h, k)
  BY <1>1 DEF keyModifierFunc
<1>3. \A k : Hooked(k)' = Hooked(k)
  BY <1>1 DEF Hooked, keyModifierFunc
<1>4. \A h, k : Pre(h, k)' = Pre(h, k)
  BY <1>1 DEF Pre, Hooked, keyModifierFunc
<1> QED
  BY <1>1, <1>2, <1>3, <1>4

\* A turn of a loop: what becomes of the map.
LEMMA VisitMap ==
  ASSUME HooksInv, hook \in 1..3, NEW key \in unvisited, Visit(key),
         NEW new, new = keyModifierFunc(hook, key)
  PROVE  /\ key \in DOMAIN redirectMap /\ key \in Name /\ new \in Name
         /\ keyModifierFunc(hook, new) = new
         /\ redirectMap'[new] = redirectMap[key]
         /\ DOMAIN redirectMap' = (DOMAIN redirectMap \ {key}) \cup {new}
         /\ \A q \in DOMAIN redirectMap' : q # new => redirectMap'[q] = redirectMap[q]
         /\ unvisited' \subseteq DOMAIN redirectMap'
         /\ unvisited \ {key} \subseteq unvisited'
         /\ unvisited' \subseteq (unvisited \ {key}) \cup {new}
<1>1. key \in DOMAIN redirectMap /\ key \in Name
  BY DEF HooksInv, HooksType, HooksTypeOK
<1>2. new \in Name /\ keyModifierFunc(hook, new) = new
  BY <1>1, HookIdempotent
<1>3. redirectMap' = modifyKey(redirectMap, key, new)
  BY DEF Visit
<1>4. unvisited \subseteq DOMAIN redirectMap
  BY DEF HooksInv, HooksType, HooksTypeOK
<1>5. \/ unvisited' = unvisited \ {key}
      \/ new \notin DOMAIN redirectMap /\ unvisited' = (unvisited \ {key}) \cup {new}
  BY DEF Visit
<1>6. /\ redirectMap'[new] = redirectMap[key]
      /\ DOMAIN redirectMap' = (DOMAIN redirectMap \ {key}) \cup {new}
      /\ \A q \in DOMAIN redirectMap' : q # new => redirectMap'[q] = redirectMap[q]
  BY <1>1, <1>3 DEF modifyKey
<1> QED
  BY <1>1, <1>2, <1>4, <1>5, <1>6

LEMMA VisitKeyInv == ASSUME HooksInv, VisitKey PROVE HooksInv'
<1>0. hook \in 1..3 /\ Next
  BY DEF VisitKey, Next
<1>1. PICK key \in unvisited : Visit(key)
  BY DEF VisitKey
<1> DEFINE new == keyModifierFunc(hook, key)
<1>2. /\ key \in DOMAIN redirectMap /\ key \in Name /\ new \in Name
      /\ keyModifierFunc(hook, new) = new
      /\ redirectMap'[new] = redirectMap[key]
      /\ DOMAIN redirectMap' = (DOMAIN redirectMap \ {key}) \cup {new}
      /\ \A q \in DOMAIN redirectMap' : q # new => redirectMap'[q] = redirectMap[q]
      /\ unvisited' \subseteq DOMAIN redirectMap'
      /\ unvisited \ {key} \subseteq unvisited'
      /\ unvisited' \subseteq (unvisited \ {key}) \cup {new}
  BY <1>0, <1>1, VisitMap
<1>3. UNCHANGED <<rows, nextRow, parseFailed, ignoreCaseInPath, infoTemplate, sheet, hook,
                  snapshot, reloaded>>
  BY DEF VisitKey
<1>4. \A k \in DOMAIN sheet :
        /\ k \in Name
        /\ Pre(hook + 1, k) = keyModifierFunc(hook, Pre(hook, k))
        /\ keyModifierFunc(hook, Pre(hook + 1, k)) = Pre(hook + 1, k)
  <2> TAKE k \in DOMAIN sheet
  <2>1. k \in Name
    BY DEF HooksInv, HooksType
  <2>2. /\ Pre(hook, k) \in Name
        /\ Pre(hook + 1, k) = keyModifierFunc(hook, Pre(hook, k))
    BY <1>0, <2>1, PreSteps
  <2>3. keyModifierFunc(hook, Pre(hook + 1, k)) = Pre(hook + 1, k)
    BY <1>0, <2>2, HookIdempotent
  <2> QED
    BY <2>1, <2>2, <2>3
<1>5. HooksType'
  BY <1>2, <1>3 DEF HooksInv, HooksType, HooksTypeOK
<1>6. Renamed'
  <2>1. ASSUME NEW q \in DOMAIN redirectMap'
        PROVE  \E k \in DOMAIN sheet :
                  /\ redirectMap'[q] = sheet[k]
                  /\ q = Pre(hook + 1, k) \/ (q \in unvisited' /\ q = Pre(hook, k))
    <3>1. CASE q = new
      <4>1. PICK k \in DOMAIN sheet :
              /\ redirectMap[key] = sheet[k]
              /\ key = Pre(hook + 1, k) \/ key = Pre(hook, k)
        BY <1>0, <1>2 DEF HooksInv, Renamed
      <4>2. new = Pre(hook + 1, k)
        BY <1>4, <4>1
      <4>3. redirectMap'[q] = sheet[k]
        BY <1>2, <3>1, <4>1
      <4> QED
        BY <3>1, <4>2, <4>3
    <3>2. CASE q # new
      <4>1. q \in DOMAIN redirectMap /\ q # key /\ redirectMap'[q] = redirectMap[q]
        BY <1>2, <3>2
      <4>2. PICK k \in DOMAIN sheet :
              /\ redirectMap[q] = sheet[k]
              /\ q = Pre(hook + 1, k) \/ (q \in unvisited /\ q = Pre(hook, k))
        BY <1>0, <4>1 DEF HooksInv, Renamed
      <4> QED
        BY <1>2, <4>1, <4>2
    <3> QED
      BY <3>1, <3>2
  <2>2. ASSUME NEW k \in DOMAIN sheet
        PROVE  Pre(hook, k) \in unvisited' \/ Pre(hook + 1, k) \in DOMAIN redirectMap'
    <3>1. CASE Pre(hook, k) = key
      BY <1>2, <1>4, <3>1
    <3>2. CASE Pre(hook + 1, k) = key
      BY <1>2, <1>4, <3>2
    <3>3. CASE Pre(hook, k) # key /\ Pre(hook + 1, k) # key
      BY <1>0, <1>2, <3>3 DEF HooksInv, Renamed
    <3> QED
      BY <3>1, <3>2, <3>3
  <2>3. \A h, k : Pre(h, k)' = Pre(h, k)
    BY <1>0, HooksConstant
  <2> QED
    BY <1>3, <2>1, <2>2, <2>3 DEF Renamed
<1>7. LinksKept'
  BY <1>0, <1>3 DEF LinksKept, applied
<1>8. RowsKept'
  BY <1>0, <1>3 DEF HooksInv, RowsKept, LinksBefore, Before, IsLink, UnreadAt
<1>9. FromRows'
  <2>1. \A k : Hooked(k)' = Hooked(k)
    BY <1>0, HooksConstant
  <2> QED
    BY <1>3, <2>1 DEF HooksInv, FromRows
<1> QED
  BY <1>5, <1>6, <1>7, <1>8, <1>9 DEF HooksInv

\* A row is read: what it adds.
LEMMA ReadRowInv == ASSUME HooksInv, ReadRow PROVE HooksInv'
<1> DEFINE row   == rows[nextRow]
           added == IsActive(row) /\ row.name \in Name /\ row.target \in URLs
<1>1. /\ hook = 0 /\ hook' = 0 /\ ~reloaded /\ nextRow \in 1..Len(rows)
      /\ nextRow' = nextRow + 1 /\ UNCHANGED <<rows, hookVars>>
      /\ Len(rows) \in Nat
  BY DEF HooksInv, HooksType, HooksTypeOK, ReadRow, ParseRow, hookVars
<1>2. /\ added => /\ DOMAIN redirectMap' = DOMAIN redirectMap \cup {row.name}
                  /\ redirectMap'[row.name] = row.target
                  /\ \A n \in DOMAIN redirectMap :
                        n # row.name => redirectMap'[n] = redirectMap[n]
      /\ ~added => redirectMap' = redirectMap
  BY DEF ReadRow, ParseRow
<1>3. parseFailed' = ParseFailed(row)
  BY DEF ReadRow, ParseRow
<1>4. HooksType'
  <2>1. parseFailed' \in BOOLEAN
    <3>1. (row.active = "text") \in BOOLEAN
      OBVIOUS
    <3> QED
      BY <1>3, <3>1 DEF ParseFailed, HooksInv, HooksType, HooksTypeOK
  <2>2. /\ DOMAIN redirectMap' \subseteq Name
        /\ \A k \in DOMAIN redirectMap' : redirectMap'[k] \in URLs
        /\ DOMAIN redirectMap \subseteq DOMAIN redirectMap'
    BY <1>2 DEF HooksInv, HooksType, HooksTypeOK
  <2> QED
    BY <1>1, <2>1, <2>2 DEF HooksInv, HooksType, HooksTypeOK, hookVars
<1>5. RowsKept'
  <2>1. /\ parseFailed <=> UnreadAt(nextRow - 1)
        /\ LinksBefore(nextRow, redirectMap)
    BY <1>1 DEF HooksInv, RowsKept
  <2>2. \A i : UnreadAt(i)' <=> UnreadAt(i)
    BY <1>1 DEF UnreadAt
  <2>3. ParseFailed(row) <=> UnreadAt(nextRow)
    <3>1. CASE row.active = "text"
      BY <1>1, <3>1 DEF UnreadAt, ParseFailed, IsText
    <3>2. CASE row.active \in {"yes", "no"}
      BY <1>1, <3>2 DEF UnreadAt, ParseFailed, IsText
    <3>3. CASE row.active \notin {"yes", "no", "text"}
      BY <1>1, <2>1, <3>3 DEF UnreadAt, ParseFailed, IsText
    <3> QED
      BY <3>1, <3>2, <3>3
  <2>4. IsActive(row) <=> \/ row.active = "absent"
                          \/ row.active \in {"true", "yes"} /\ ~UnreadAt(nextRow)
    BY <2>3 DEF IsActive
  <2>5. LinksBefore(nextRow + 1, redirectMap')
    <3>1. added <=> IsLink(nextRow)
      BY <2>4 DEF IsLink
    <3>2. \A i : i \in Before(nextRow + 1)
                <=> i \in Before(nextRow) \/ (i = nextRow /\ added)
      BY <1>1, <3>1 DEF Before
    <3>3. \A k : k \in DOMAIN redirectMap'
                <=> \E i \in Before(nextRow + 1) : rows[i].name = k
      BY <1>2, <2>1, <3>2 DEF LinksBefore
    <3>4. ASSUME NEW i \in Before(nextRow + 1),
                 \A j \in Before(nextRow + 1) : rows[j].name = rows[i].name => j =< i
          PROVE  redirectMap'[rows[i].name] = rows[i].target
      <4>1. CASE i = nextRow
        BY <1>1, <1>2, <3>2, <4>1 DEF Before
      <4>2. CASE i # nextRow
        <5>1. i \in Before(nextRow) /\ i < nextRow
          BY <3>2, <4>2 DEF Before
        <5>2. redirectMap[rows[i].name] = rows[i].target
              /\ rows[i].name \in DOMAIN redirectMap
          BY <2>1, <3>2, <3>4, <5>1 DEF LinksBefore
        <5>3. added => row.name # rows[i].name
          BY <1>1, <3>2, <3>4, <5>1 DEF Before
        <5> QED
          BY <1>2, <5>2, <5>3
      <4> QED
        BY <4>1, <4>2
    <3>5. \A n : Before(n)' = Before(n)
      BY <1>1, <2>2 DEF Before, IsLink
    <3> QED
      BY <1>1, <3>3, <3>4, <3>5 DEF LinksBefore
  <2>6. parseFailed' <=> UnreadAt(nextRow - 1)'
    <3>1. parseFailed' <=> UnreadAt(nextRow)
      BY <1>3, <2>3
    <3> QED
      BY <1>1, <3>1 DEF UnreadAt
  <2>7. \A n : Before(n)' = Before(n)
    BY <1>1, <2>2 DEF Before, IsLink
  <2>8. LinksBefore(nextRow, redirectMap)'
    BY <1>1, <2>5, <2>7 DEF LinksBefore
  <2> QED
    BY <1>1, <2>6, <2>8 DEF RowsKept
<1>6. FromRows'
  BY <1>1 DEF FromRows, hookVars
<1> QED
  BY <1>1, <1>4, <1>5, <1>6 DEF HooksInv, Renamed, LinksKept, applied

\* The first loop begins.
LEMMA ApplyHooksInv == ASSUME HooksInv, ApplyHooks PROVE HooksInv'
<1>1. /\ hook = 0 /\ hook' = 1 /\ ~reloaded /\ nextRow > Len(rows)
      /\ sheet' = redirectMap /\ unvisited' = DOMAIN redirectMap
      /\ UNCHANGED <<rowVars, ignoreCaseInPath, infoTemplate, snapshot, reloaded>>
      /\ Next
  BY DEF HooksInv, HooksType, ApplyHooks, Next
<1>2. HooksType'
  BY <1>1 DEF HooksInv, HooksType, HooksTypeOK, rowVars
<1>3. Renamed'
  <2>1. \A k \in DOMAIN redirectMap : Pre(1, k)' = k
    BY DEF Pre
  <2> QED
    BY <1>1, <2>1 DEF Renamed, rowVars
<1>4. RowsKept'
  <2>1. nextRow = Len(rows) + 1
    BY <1>1 DEF HooksInv, HooksType, HooksTypeOK
  <2> QED
    BY <1>1, <2>1 DEF HooksInv, RowsKept, LinksBefore, Before, IsLink, UnreadAt, rowVars
<1>5. FromRows'
  BY <1>1 DEF FromRows
<1> QED
  BY <1>1, <1>2, <1>3, <1>4, <1>5 DEF HooksInv, LinksKept, applied

\* The next loop begins, or the last one has ended.
LEMMA NextHookInv == ASSUME HooksInv, NextHook PROVE HooksInv'
<1>1. /\ hook \in 1..3 /\ hook' = hook + 1 /\ unvisited = {}
      /\ unvisited' = IF hook < 3 THEN DOMAIN redirectMap ELSE {}
      /\ UNCHANGED <<rowVars, ignoreCaseInPath, infoTemplate, sheet, snapshot, reloaded>>
      /\ Next
  BY DEF NextHook, Next
<1>2. /\ \A q \in DOMAIN redirectMap : \E k \in DOMAIN sheet :
            redirectMap[q] = sheet[k] /\ q = Pre(hook + 1, k)
      /\ \A k \in DOMAIN sheet : Pre(hook + 1, k) \in DOMAIN redirectMap
  BY <1>1 DEF HooksInv, Renamed
<1>3. \A h, k : Pre(h, k)' = Pre(h, k)
  BY <1>1, HooksConstant
<1>4. HooksType'
  BY <1>1 DEF HooksInv, HooksType, HooksTypeOK, rowVars
<1>5. Renamed'
  BY <1>1, <1>2, <1>3 DEF Renamed, rowVars
<1>6. LinksKept'
  <2> SUFFICES ASSUME hook = 3 PROVE LinksKept'
    BY <1>1 DEF LinksKept, applied
  <2>1. \A k \in DOMAIN sheet : Pre(4, k) = Hooked(k)
    BY PreSteps DEF HooksInv, HooksType
  <2>2. \A k : Hooked(k)' = Hooked(k)
    BY <1>1, HooksConstant
  <2> QED
    BY <1>1, <1>2, <2>1, <2>2 DEF LinksKept, rowVars
<1>7. RowsKept'
  BY <1>1 DEF HooksInv, RowsKept, LinksBefore, Before, IsLink, UnreadAt, rowVars
<1>8. FromRows'
  <2>1. \A k : Hooked(k)' = Hooked(k)
    BY <1>1, HooksConstant
  <2> QED
    BY <1>1, <2>1 DEF HooksInv, FromRows, rowVars
<1> QED
  BY <1>4, <1>5, <1>6, <1>7, <1>8 DEF HooksInv

\* The snapshot is read, and goes through the hooks.
LEMMA ReloadInv == ASSUME HooksInv, Reload PROVE HooksInv'
<1>1. /\ hook = 4 /\ hook' = 1 /\ ~reloaded /\ reloaded' = TRUE
      /\ snapshot' = redirectMap /\ sheet' = redirectMap
      /\ unvisited' = DOMAIN redirectMap
      /\ UNCHANGED <<rowVars, ignoreCaseInPath, infoTemplate>>
      /\ Next
  BY DEF Reload, Next
<1>2. HooksType'
  BY <1>1 DEF HooksInv, HooksType, HooksTypeOK, rowVars
<1>3. Renamed'
  <2>1. \A k \in DOMAIN redirectMap : Pre(1, k)' = k
    BY DEF Pre
  <2> QED
    BY <1>1, <2>1 DEF Renamed, rowVars
<1>4. RowsKept'
  BY <1>1 DEF RowsKept
<1>5. FromRows'
  <2> SUFFICES ASSUME NEW n \in DOMAIN redirectMap
               PROVE  \E i \in 1..Len(rows) : rows[i].name \in Name /\ Hooked(rows[i].name) = n
    <3>1. \A k : Hooked(k)' = Hooked(k)
      BY <1>1, HooksConstant
    <3> QED
      BY <1>1, <3>1 DEF FromRows, rowVars
  <2>1. PICK k \in DOMAIN sheet : n = Hooked(k)
    BY <1>1 DEF HooksInv, LinksKept, applied
  <2>2. PICK i \in Before(Len(rows) + 1) : rows[i].name = k
    BY <1>1 DEF HooksInv, RowsKept, LinksBefore
  <2> QED
    BY <2>1, <2>2 DEF Before, IsLink
<1> QED
  BY <1>1, <1>2, <1>3, <1>4, <1>5 DEF HooksInv, LinksKept, applied

LEMMA HooksStep == HooksInv /\ [Next]_allVars => HooksInv'
<1> SUFFICES ASSUME HooksInv, [Next]_allVars
             PROVE  HooksInv'
  OBVIOUS
<1>1. CASE UNCHANGED allVars
  BY <1>1 DEF allVars, rowVars, hookVars, HooksInv, HooksType, HooksTypeOK, Renamed,
     LinksKept, applied, RowsKept, LinksBefore, Before, IsLink, UnreadAt, FromRows,
     Pre, Hooked, keyModifierFunc
<1> QED
  BY <1>1, ReadRowInv, ApplyHooksInv, VisitKeyInv, NextHookInv, ReloadInv DEF Next

LEMMA HooksInvariant == Spec => []HooksInv
BY HooksInit, HooksStep, PTL DEF Spec

-----------------------------------------------------------------------------
\* The loops only visit keys that are there, whatever they delete and insert
\* (main.go:300-307, 332-343).
THEOREM HooksTypeCorrect == Spec => []HooksTypeOK
<1>1. HooksInv => HooksTypeOK
  BY DEF HooksInv, HooksType
<1> QED
  BY HooksInvariant, <1>1, PTL

\* The links of a sheet are those of its active rows, the last one of a name
\* first, for sheets of any size and whatever column C holds; the rows that text
\* in column C takes with it are exactly those UnreadAt names
\* (google-sheets.go:376-419).
THEOREM ActiveRowsWin == Spec => []LastActiveRowWins
<1>1. HooksInv => LastActiveRowWins
  <2> SUFFICES ASSUME HooksInv, hook = 1, ~reloaded
               PROVE  LET Links == {i \in 1..Len(rows) : IsLink(i)}
                      IN  /\ DOMAIN sheet = {rows[i].name : i \in Links}
                          /\ \A i \in Links :
                                (\A j \in Links : rows[j].name = rows[i].name => j =< i)
                                => sheet[rows[i].name] = rows[i].target
    BY DEF LastActiveRowWins
  <2>1. LinksBefore(Len(rows) + 1, sheet)
    BY DEF HooksInv, RowsKept
  <2>2. Before(Len(rows) + 1) = {i \in 1..Len(rows) : IsLink(i)}
    BY DEF Before, HooksInv, HooksType
  <2>3. DOMAIN sheet = {rows[i].name : i \in Before(Len(rows) + 1)}
    BY <2>1 DEF LinksBefore
  <2> QED
    BY <2>1, <2>2, <2>3 DEF LinksBefore
<1> QED
  BY HooksInvariant, <1>1, PTL

\* The hooks drop no link and invent none, in whatever order Go visits the keys
\* (main.go:300-343).
THEOREM HooksKeepLinks == Spec => []LinksKept
<1>1. HooksInv => LinksKept
  BY DEF HooksInv
<1> QED
  BY HooksInvariant, <1>1, PTL

\* For the spellings they agree on, hooks and requests arrive at the same name.
LEMMA Agreement ==
  ASSUME NEW k \in Name, Agreed(k)
  PROVE  normalizeRedirectPath(k, ignoreCaseInPath).name = Hooked(k)
<1> DEFINE slashes == TrimSlashes(k)
           low     == Lowered(slashes, ignoreCaseInPath)
<1>1. slashes \in Name /\ slashes.after \in {"", "+", "/+"}
      /\ (slashes.after # "" => infoTemplate /\ slashes.before = "")
  BY DEF Agreed, HasInfoSuffix, Name, TrimSlashes
<1>2. HasInfoSuffix(low) <=> slashes.after # ""
  BY <1>1 DEF Name, Lowered, ToLower, HasInfoSuffix
<1>3. Hooked(k) = Lowered(IF infoTemplate THEN TrimRightInfo(slashes) ELSE slashes,
                          ignoreCaseInPath)
  BY DEF Hooked, keyModifierFunc
<1>4. CASE slashes.after # ""
  <2>1. infoTemplate
    BY <1>1, <1>4
  <2>2. TrimInfo(low) = Lowered(TrimRightInfo(slashes), ignoreCaseInPath)
    BY <1>1, <1>4 DEF Name, Lowered, ToLower, TrimInfo, TrimRightInfo
  <2> QED
    BY <1>2, <1>3, <1>4, <2>1, <2>2 DEF normalizeRedirectPath
<1>5. CASE slashes.after = ""
  <2>1. TrimRightInfo(slashes) = slashes
    BY <1>1, <1>5 DEF Name, TrimRightInfo
  <2> QED
    BY <1>2, <1>3, <1>5, <2>1 DEF normalizeRedirectPath
<1> QED
  BY <1>4, <1>5

\* What a path can be normalised to: no suffix is left, and a slash only if
\* nothing is left in front.
LEMMA PathNames ==
  ASSUME NEW path \in Name
  PROVE  LET n == normalizeRedirectPath(path, ignoreCaseInPath).name
         IN  n.after = "" \/ (n.after = "/" /\ n.before = "")
<1> DEFINE low == Lowered(TrimSlashes(path), ignoreCaseInPath)
<1>1. low \in Name /\ low.after \in {"", "+", "/+"}
  BY DEF Name, TrimSlashes, Lowered, ToLower
<1> HIDE DEF low
<1>2. HasInfoSuffix(low) <=> low.after # ""
  BY <1>1 DEF HasInfoSuffix
<1>3. LET n == TrimInfo(low) IN n.before = "" /\ n.after \in {"", "/"}
  BY <1>1 DEF Name, TrimInfo, TrimRightInfo
<1> QED
  BY <1>1, <1>2, <1>3 DEF normalizeRedirectPath, low

\* The name the hooks make of a name: its suffix goes if there is an info page.
LEMMA HookedShape ==
  ASSUME NEW k \in Name
  PROVE  /\ Hooked(k) \in Name
         /\ Lowered(Hooked(k), ignoreCaseInPath) = Hooked(k)
         /\ Hooked(k).before = k.before
         /\ ~HasInfoSuffix(TrimSlashes(k)) => Hooked(k).after = ""
         /\ HasInfoSuffix(TrimSlashes(k)) =>
               /\ ~infoTemplate => Hooked(k).after \in {"+", "/+"}
               /\ infoTemplate => Hooked(k).after = IF k.after = "/+" THEN "/" ELSE ""
<1> DEFINE slashes == TrimSlashes(k)
           info    == IF infoTemplate THEN TrimRightInfo(slashes) ELSE slashes
<1>1. slashes \in Name /\ slashes.before = k.before /\ slashes.after \in {"", "+", "/+"}
      /\ (slashes.after = "/+" <=> k.after = "/+")
  BY DEF Name, TrimSlashes
<1>2. HasInfoSuffix(slashes) <=> slashes.after # ""
  BY <1>1 DEF HasInfoSuffix
<1> HIDE DEF slashes
<1>3. /\ info \in Name /\ info.before = k.before
      /\ slashes.after = "" => info.after = ""
      /\ slashes.after # "" /\ infoTemplate =>
            info.after = IF k.after = "/+" THEN "/" ELSE ""
      /\ ~infoTemplate => info.after = slashes.after
  BY <1>1 DEF Name, TrimRightInfo
<1>4. Hooked(k) = Lowered(info, ignoreCaseInPath)
  BY DEF Hooked, keyModifierFunc, slashes
<1> HIDE DEF info
<1>5. LET low == Lowered(info, ignoreCaseInPath)
      IN  /\ low \in Name /\ low.before = info.before /\ low.after = info.after
          /\ Lowered(low, ignoreCaseInPath) = low
  BY <1>3 DEF Name, Lowered, ToLower
<1> QED
  BY <1>1, <1>2, <1>3, <1>4, <1>5 DEF slashes

\* A path leads to a hooked name, or none does.
LEMMA Reach ==
  ASSUME NEW k \in Name
  PROVE  (\E path \in Name : normalizeRedirectPath(path, ignoreCaseInPath).name = Hooked(k))
         <=> ~OutOfReach(k)
<1> DEFINE n == Hooked(k)
<1>1. /\ n \in Name /\ Lowered(n, ignoreCaseInPath) = n /\ n.before = k.before
      /\ ~HasInfoSuffix(TrimSlashes(k)) => n.after = ""
      /\ HasInfoSuffix(TrimSlashes(k)) =>
            /\ ~infoTemplate => n.after \in {"+", "/+"}
            /\ infoTemplate => n.after = IF k.after = "/+" THEN "/" ELSE ""
      /\ k.before \in {"", "+"}
  BY HookedShape DEF Name
<1> HIDE DEF n
<1>2. CASE OutOfReach(k)
  <2>1. n.after \in {"+", "/+"} \/ (n.after = "/" /\ n.before = "+")
    BY <1>1, <1>2 DEF OutOfReach
  <2> QED
    BY <1>2, <2>1, PathNames DEF n
<1>3. CASE ~OutOfReach(k)
  <2>1. n.after = "" \/ (n.after = "/" /\ n.before = "")
    BY <1>1, <1>3 DEF OutOfReach
  <2>2. CASE n.after = ""
    <3>1. TrimSlashes(n) = n /\ ~HasInfoSuffix(n)
      BY <1>1, <2>2 DEF Name, TrimSlashes, HasInfoSuffix
    <3>2. normalizeRedirectPath(n, ignoreCaseInPath).name = n
      BY <1>1, <3>1 DEF normalizeRedirectPath
    <3> QED
      BY <1>1, <1>3, <3>2 DEF n
  <2>3. CASE n.after = "/" /\ n.before = ""
    <3> DEFINE path == [n EXCEPT !.after = "/+"]
    <3>1. path \in Name /\ path.after = "/+"
      BY <1>1 DEF Name
    <3>2. TrimSlashes(path) = path /\ HasInfoSuffix(path)
      BY <3>1 DEF Name, TrimSlashes, HasInfoSuffix
    <3>3. Lowered(path, ignoreCaseInPath) = path
      BY <1>1 DEF Name, Lowered, ToLower
    <3>4. TrimInfo(path) = n
      BY <1>1, <2>3 DEF Name, TrimInfo, TrimRightInfo
    <3>5. normalizeRedirectPath(path, ignoreCaseInPath).name = n
      BY <3>2, <3>3, <3>4 DEF normalizeRedirectPath
    <3> QED
      BY <1>3, <3>1, <3>5 DEF n
  <2> QED
    BY <2>1, <2>2, <2>3
<1> QED
  BY <1>2, <1>3

\* Whatever the names are: every spelling hooks and requests agree on finds its
\* link, and of the others exactly those OutOfReach says are out of reach for
\* everybody (main.go:219-229, 308-343).
THEOREM SpellingsReach == Spec => []Reachable
<1>1. HooksInv => Reachable
  <2> SUFFICES ASSUME HooksInv, applied, NEW k \in DOMAIN sheet
               PROVE  /\ Agreed(k) => normalizeRedirectPath(k, ignoreCaseInPath).name
                                         \in DOMAIN redirectMap
                      /\ (\E path \in Name :
                            normalizeRedirectPath(path, ignoreCaseInPath).name = Hooked(k))
                         <=> ~OutOfReach(k)
    BY DEF Reachable
  <2>1. k \in Name /\ Hooked(k) \in DOMAIN redirectMap
    BY DEF HooksInv, HooksType, LinksKept
  <2>2. Agreed(k) => normalizeRedirectPath(k, ignoreCaseInPath).name = Hooked(k)
    BY <2>1, Agreement
  <2>3. (\E path \in Name :
           normalizeRedirectPath(path, ignoreCaseInPath).name = Hooked(k)) <=> ~OutOfReach(k)
    BY <2>1, Reach
  <2> QED
    BY <2>1, <2>2, <2>3
<1> QED
  BY HooksInvariant, <1>1, PTL

\* A mapping that comes back from the fallback file is the one that was saved,
\* although the hooks run on it once more, but for the names with a slash before
\* the suffix, which lose their slash the second time (repo.go:58-78).
THEOREM SnapshotsReload == Spec => []SnapshotStable
<1>1. HooksInv => SnapshotStable
  <2> SUFFICES ASSUME HooksInv, applied, reloaded
               PROVE  SnapshotStable
    BY DEF SnapshotStable
  <2>1. sheet = snapshot /\ DOMAIN snapshot \subseteq Name
    BY DEF HooksInv, HooksType, FromRows
  <2>2. ASSUME NEW n \in DOMAIN snapshot
        PROVE  /\ Hooked(n) = TrimSlashes(n)
               /\ TrimSlashes(n) # n =>
                     /\ infoTemplate
                     /\ \E i \in 1..Len(rows) : /\ rows[i].name \in Name
                                               /\ rows[i].name.after = "/+"
                                               /\ Hooked(rows[i].name) = n
    <3>1. PICK i \in 1..Len(rows) : rows[i].name \in Name /\ Hooked(rows[i].name) = n
      BY DEF HooksInv, FromRows
    <3> QED
      BY <3>1, HookedTwice
  <2>3. /\ DOMAIN redirectMap = {TrimSlashes(n) : n \in DOMAIN snapshot}
        /\ \A n \in DOMAIN redirectMap :
              \E k \in DOMAIN snapshot : TrimSlashes(k) = n /\ redirectMap[n] = snapshot[k]
    BY <2>1, <2>2 DEF HooksInv, LinksKept
  <2> QED
    BY <2>2, <2>3 DEF SnapshotStable
<1> QED
  BY HooksInvariant, <1>1, PTL
=============================================================================
