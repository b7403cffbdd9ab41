--------------------------- MODULE RedirectHooks ---------------------------
(***************************************************************************)
(* How a sheet becomes a mapping: its rows (module SheetRows), then the    *)
(* update hooks of internal/main.go, which applyHooks of                   *)
(* internal/repo/repo.go runs on every mapping, whether it was fetched or  *)
(* read from the fallback file, before it is published.                    *)
(*                                                                         *)
(* Each hook ranges over the map and renames the keys of the map it ranges *)
(* over.  Go visits the keys in any order, does not visit a key deleted    *)
(* before its turn, and may or may not visit one inserted meanwhile.       *)
(***************************************************************************)
EXTENDS SheetRows, FiniteSets

VARIABLES
    ignoreCaseInPath,   \* APP_IGNORE_CASE_IN_PATH
    infoTemplate,       \* the info page's template could be loaded
    sheet,              \* the map applyHooks was called with
    hook,               \* the hook that runs: 0 while rows are read, 4 when done
    unvisited,          \* keys its range loop has not come to
    snapshot,           \* what the fallback file holds
    reloaded            \* the mapping comes from the fallback file

hookVars == <<ignoreCaseInPath, infoTemplate, sheet, hook, unvisited, snapshot,
              reloaded>>

allVars == <<rowVars, hookVars>>

\* Mutant: the hook for the info suffix is added before the one for slashes.
keyModifierFuncReordered(h, key) ==
    CASE h = 1 -> IF infoTemplate THEN TrimRightInfo(key) ELSE key
      [] h = 2 -> TrimSlashes(key)
      [] h = 3 -> Lowered(key, ignoreCaseInPath)

\* addDefaultRedirectMapHooks: the second hook is added when there is an info
\* page, the third one when the case is ignored.
keyModifierFunc(h, key) ==
    CASE h = 1 -> TrimSlashes(key)
      [] h = 2 -> IF infoTemplate THEN TrimRightInfo(key) ELSE key
      [] h = 3 -> Lowered(key, ignoreCaseInPath)

Init ==
    /\ RowsInit
    /\ ignoreCaseInPath \in BOOLEAN
    /\ infoTemplate \in BOOLEAN
    /\ sheet = << >>
    /\ hook = 0
    /\ unvisited = {}
    /\ snapshot = << >>
    /\ reloaded = FALSE

\* A row is read.
ReadRow ==
    /\ hook = 0
    /\ ParseRow
    /\ UNCHANGED hookVars

\* All rows are read: applyHooks begins.
ApplyHooks ==
    /\ hook = 0
    /\ nextRow > Len(rows)
    /\ hook' = 1
    /\ sheet' = redirectMap
    /\ unvisited' = DOMAIN redirectMap
    /\ UNCHANGED <<rowVars, ignoreCaseInPath, infoTemplate, snapshot, reloaded>>

\* Mutant: the key is deleted after the new one is set, even if they are equal.
modifyKeyDeleteLast(m, key, newKey) ==
    [k \in (DOMAIN m \cup {newKey}) \ {key} |-> IF k = newKey THEN m[key] ELSE m[k]]

\* delete(redirectMap, key), then redirectMap[newKey] = value.
modifyKey(m, key, newKey) ==
    IF key = newKey THEN m
    ELSE [k \in (DOMAIN m \ {key}) \cup {newKey} |->
             IF k = newKey THEN m[key] ELSE m[k]]

\* One turn of a range loop.
Visit(key) ==
    LET newKey == keyModifierFunc(hook, key) IN
    /\ redirectMap' = modifyKey(redirectMap, key, newKey)
    /\ \/ unvisited' = unvisited \ {key}
       \/ /\ newKey \notin DOMAIN redirectMap
          /\ unvisited' = (unvisited \ {key}) \cup {newKey}

VisitKey ==
    /\ hook \in 1..3
    /\ \E key \in unvisited : Visit(key)
    /\ UNCHANGED <<rows, nextRow, parseFailed, ignoreCaseInPath, infoTemplate,
                   sheet, hook, snapshot, reloaded>>

\* Mutant: the next hook ranges over the keys as they were fetched.
NextHookFromSheet ==
    /\ hook \in 1..3
    /\ unvisited = {}
    /\ hook' = hook + 1
    /\ unvisited' = IF hook < 3 THEN DOMAIN sheet ELSE {}
    /\ UNCHANGED <<rowVars, ignoreCaseInPath, infoTemplate, sheet, snapshot, reloaded>>

NextHook ==
    /\ hook \in 1..3
    /\ unvisited = {}
    /\ hook' = hook + 1
    /\ unvisited' = IF hook < 3 THEN DOMAIN redirectMap ELSE {}
    /\ UNCHANGED <<rowVars, ignoreCaseInPath, infoTemplate, sheet, snapshot, reloaded>>

\* The mapping was written to the fallback file, and the next fetch fails: the
\* hooks run on what the file holds.
Reload ==
    /\ hook = 4
    /\ ~reloaded
    /\ reloaded' = TRUE
    /\ snapshot' = redirectMap
    /\ sheet' = redirectMap
    /\ hook' = 1
    /\ unvisited' = DOMAIN redirectMap
    /\ UNCHANGED <<rowVars, ignoreCaseInPath, infoTemplate>>

Next == ReadRow \/ ApplyHooks \/ VisitKey \/ NextHook \/ Reload

Spec == Init /\ [][Next]_allVars

-----------------------------------------------------------------------------
applied == hook = 4

\* The hooks one after the other, on one key.
Hooked(key) == keyModifierFunc(3, keyModifierFunc(2, keyModifierFunc(1, key)))

\* Every variable has its type, and a loop visits only keys that are there.
HooksTypeOK ==
    /\ nextRow \in 1..(Len(rows) + 1)
    /\ parseFailed \in BOOLEAN
    /\ DOMAIN redirectMap \subseteq Name
    /\ \A k \in DOMAIN redirectMap : redirectMap[k] \in URLs
    /\ hook \in 0..4
    /\ unvisited \subseteq DOMAIN redirectMap

\* The nearest text in column C, at row i or above it, is no yes and no no.
UnreadAt(i) ==
    \E j \in 1..i : /\ rows[j].active = "text"
                    /\ \A k \in (j + 1)..i : rows[k].active \notin {"yes", "no"}

\* The links of a sheet, told from its cells.
IsLink(i) ==
    /\ rows[i].name \in Name
    /\ rows[i].target \in URLs
    /\ \/ rows[i].active = "absent"
       \/ rows[i].active \in {"true", "yes"} /\ ~UnreadAt(i)

\* A sheet gives the links of its active rows, and a name that several of them
\* share leads where the last one says.  What a row leaves behind in err touches
\* later rows in one way only: text that ParseBool cannot read drops its own row,
\* and every ticked checkbox below it down to the next text it can read.  The
\* second half is a bug of google-sheets.go:390, and a description in column C,
\* which docs/admin.md:205-206 allows, sets it off.
LastActiveRowWins ==
    LET Links == {i \in 1..Len(rows) : IsLink(i)}
    IN (hook = 1 /\ ~reloaded) =>
          /\ DOMAIN sheet = {rows[i].name : i \in Links}
          /\ \A i \in Links :
                (\A j \in Links : rows[j].name = rows[i].name => j =< i)
                => sheet[rows[i].name] = rows[i].target

\* However the keys are visited, and whatever was inserted meanwhile, no hook
\* drops a link or invents one: each spelling of the sheet ends up under its
\* hooked name, with the target of one of the rows that share that name.
LinksKept ==
    applied =>
        /\ DOMAIN redirectMap = {Hooked(k) : k \in DOMAIN sheet}
        /\ \A n \in DOMAIN redirectMap :
              \E k \in DOMAIN sheet : Hooked(k) = n /\ redirectMap[n] = sheet[k]

\* Spellings the two ways of normalising agree on: a request loses an info suffix
\* at both ends, whether or not there is an info page, a name of the sheet at the
\* right end only, and only if there is one.
Agreed(k) ==
    HasInfoSuffix(TrimSlashes(k)) => infoTemplate /\ k.before = ""

\* Names no path leads to: with a suffix although there is no info page, or with
\* a slash before the suffix that is left of a name with "+" in front.
OutOfReach(k) ==
    /\ HasInfoSuffix(TrimSlashes(k))
    /\ infoTemplate => k.before = "+" /\ k.after = "/+"

\* A visitor who types a name as the sheet has it gets a link if the two ways
\* agree on it, although the sheet and the path are normalised by different code
\* (main.go:219-229, 308-343).  And whatever the visitor types, the names nobody
\* can reach are those OutOfReach says, no more and no fewer.
Reachable ==
    applied =>
        \A k \in DOMAIN sheet :
            /\ Agreed(k) =>
                  normalizeRedirectPath(k, ignoreCaseInPath).name \in DOMAIN redirectMap
            /\ (\E path \in Name :
                   normalizeRedirectPath(path, ignoreCaseInPath).name = Hooked(k))
               <=> ~OutOfReach(k)

\* While Google cannot be reached the hooks run on the snapshot, which has been
\* through them (repo.go:62-74): that leaves every link where it was, but those
\* whose name still ends in a slash, because the sheet has it with a slash before
\* the suffix.  They are renamed, and may meet another link there.
SnapshotStable ==
    (applied /\ reloaded) =>
        /\ DOMAIN redirectMap = {TrimSlashes(n) : n \in DOMAIN snapshot}
        /\ \A n \in DOMAIN redirectMap :
              \E k \in DOMAIN snapshot : TrimSlashes(k) = n /\ redirectMap[n] = snapshot[k]
        /\ \A n \in DOMAIN snapshot :
              TrimSlashes(n) # n =>
                  /\ infoTemplate
                  /\ \E i \in 1..Len(rows) :
                        /\ rows[i].name \in Name
                        /\ rows[i].name.after = "/+"
                        /\ Hooked(rows[i].name) = n
=============================================================================
