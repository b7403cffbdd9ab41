------------------------- MODULE RequestResolution -------------------------
(***************************************************************************)
(* ServerHandler and RedirectTargetForRequest of internal/main.go: a       *)
(* request is resolved by up to three lookups, each one under the read     *)
(* lock of its own, while updateListener may replace the mapping between   *)
(* any two of them.                                                        *)
(*                                                                         *)
(* Requests do not touch each other: one at a time is modelled, by one     *)
(* goroutine, against any sequence of mappings.                            *)
(***************************************************************************)
EXTENDS LinkNames

CONSTANTS
    URLs,               \* targets that start with "http"
    Mappings,           \* what the sheet may hold, keys as the hooks leave them
    Paths, Hosts,       \* names requests come with
    EmptyStem, RootStem,
    IgnoreCaseInPath,   \* APP_IGNORE_CASE_IN_PATH
    AllowRootRedirect,  \* APP_ALLOW_ROOT_REDIRECT
    InfoTemplate,       \* the info page's template could be loaded
    NoTarget,           \* the "" of a key that is not there
    MaxUpdates          \* bound: times the mapping is replaced

ASSUME ResolutionAssumption ==
    /\ Paths \cup Hosts \subseteq Name
    /\ EmptyStem \in Stems /\ RootStem \in Stems
    /\ NoTarget \notin URLs \cup Name
    /\ URLs \cap Name = {}
    /\ \A m \in Mappings : \A n \in DOMAIN m : n \in Name /\ m[n] \in URLs \cup Name
    /\ {IgnoreCaseInPath, AllowRootRedirect, InfoTemplate} \subseteq BOOLEAN
    /\ MaxUpdates \in Nat

VARIABLES
    mapping,        \* the live mapping
    updates,        \* how often it has been replaced
    pc,             \* the lookup the request is at
    request,        \* its path and host
    normalizedPath,
    target,         \* what the lookups gave so far
    seen            \* the mappings that were live since the request began

requestVars == <<mapping, updates, pc, request, normalizedPath, target, seen>>

rootRedirectPath == Plain(RootStem)

Normalized(name) == normalizeRedirectPath(name, IgnoreCaseInPath).name

pathEmpty(r) == Normalized(r.path) = Plain(EmptyStem)

\* The host counts when the path is empty.
Wanted(r) == Normalized(IF pathEmpty(r) THEN r.host ELSE r.path)

infoRequest(r) ==
    normalizeRedirectPath(r.path, IgnoreCaseInPath).info /\ InfoTemplate

GetTarget(key) == IF key \in DOMAIN mapping THEN mapping[key] ELSE NoTarget

\* A target that does not start with "http" names another link.
IsAlias(t) == t \in Name

Init ==
    /\ mapping \in Mappings
    /\ updates = 0
    /\ pc = "idle"
    /\ request \in [path : Paths, host : Hosts]
    /\ normalizedPath = Plain(EmptyStem)
    /\ target = NoTarget
    /\ seen = {}

\* A request comes in and is normalised.
Arrive ==
    /\ pc \in {"idle", "notFound", "info", "redirect"}
    /\ pc' = "lookup"
    /\ request' \in [path : Paths, host : Hosts]
    /\ normalizedPath' = Wanted(request')
    /\ target' = NoTarget
    /\ seen' = {mapping}
    /\ UNCHANGED <<mapping, updates>>

\* Mutant: a name that is not found is taken for an alias.
LookupUnfound ==
    /\ pc = "lookup"
    /\ target' = GetTarget(normalizedPath)
    /\ pc' = IF target' \in URLs THEN "root" ELSE "alias"
    /\ UNCHANGED <<mapping, updates, request, normalizedPath, seen>>

Lookup ==
    /\ pc = "lookup"
    /\ target' = GetTarget(normalizedPath)
    /\ pc' = IF IsAlias(target') THEN "alias" ELSE "root"
    /\ UNCHANGED <<mapping, updates, request, normalizedPath, seen>>

\* Mutant: an alias that leads nowhere stays the target.
FollowAliasOrKeep ==
    /\ pc = "alias"
    /\ normalizedPath' = Normalized(target)
    /\ target' = IF target \in DOMAIN mapping THEN mapping[target] ELSE target
    /\ pc' = "root"
    /\ UNCHANGED <<mapping, updates, request, seen>>

\* Mutant: an alias that leads nowhere is not found, root link or not.
FollowAliasOnly ==
    /\ pc = "alias"
    /\ normalizedPath' = Normalized(target)
    /\ target' = GetTarget(target)
    /\ pc' = "resolved"
    /\ UNCHANGED <<mapping, updates, request, seen>>

\* The alias is normalised for the ETag, and looked up as it is.
FollowAlias ==
    /\ pc = "alias"
    /\ normalizedPath' = Normalized(target)
    /\ target' = GetTarget(target)
    /\ pc' = "root"
    /\ UNCHANGED <<mapping, updates, request, seen>>

\* Mutant: the root link answers for every path that is not found.
LookupRootForAny ==
    /\ pc = "root"
    /\ IF target = NoTarget /\ AllowRootRedirect
       THEN target' = GetTarget(rootRedirectPath)
       ELSE UNCHANGED target
    /\ pc' = "resolved"
    /\ UNCHANGED <<mapping, updates, request, normalizedPath, seen>>

LookupRoot ==
    /\ pc = "root"
    /\ IF target = NoTarget /\ pathEmpty(request) /\ AllowRootRedirect
       THEN target' = GetTarget(rootRedirectPath)
       ELSE UNCHANGED target
    /\ pc' = "resolved"
    /\ UNCHANGED <<mapping, updates, request, normalizedPath, seen>>

\* ServerHandler: the page that is answered with.
Respond ==
    /\ pc = "resolved"
    /\ pc' = IF target = NoTarget THEN "notFound"
             ELSE IF infoRequest(request) THEN "info"
             ELSE "redirect"
    /\ UNCHANGED <<mapping, updates, request, normalizedPath, target, seen>>

\* updateListener replaces the mapping.
UpdateMapping ==
    /\ updates < MaxUpdates
    /\ updates' = updates + 1
    /\ mapping' \in Mappings \ {mapping}
    /\ seen' = IF pc \in {"lookup", "alias", "root"} THEN seen \cup {mapping'} ELSE seen
    /\ UNCHANGED <<pc, request, normalizedPath, target>>

RedirectTargetForRequest == Arrive \/ Lookup \/ FollowAlias \/ LookupRoot

Next == RedirectTargetForRequest \/ Respond \/ UpdateMapping

Spec == Init /\ [][Next]_requestVars

-----------------------------------------------------------------------------
Answered == pc \in {"notFound", "info", "redirect"}

\* What one mapping says of a request: the link of its name, or the link that
\* link names, or, for an empty path, the root link.
Direct(m, name) == IF name \in DOMAIN m THEN {m[name]} ELSE {}

Named(m, r) ==
    UNION {IF IsAlias(t) THEN Direct(m, t) ELSE {t} : t \in Direct(m, Wanted(r))}

Resolutions(m, r) ==
    LET root == IF pathEmpty(r) /\ AllowRootRedirect
                THEN Direct(m, rootRedirectPath) ELSE {}
    IN IF Named(m, r) # {} THEN Named(m, r)
       ELSE IF root # {} THEN root
       ELSE {NoTarget}

ResolutionTypeOK ==
    /\ mapping \in Mappings
    /\ seen \subseteq Mappings
    /\ updates \in 0..MaxUpdates
    /\ pc \in {"idle", "lookup", "alias", "root", "resolved", "notFound",
               "info", "redirect"}
    /\ request \in [path : Paths, host : Hosts]
    /\ normalizedPath \in Name
    /\ target \in URLs \cup Name \cup {NoTarget}
    /\ pc = "alias" => IsAlias(target)

\* Two mappings say the same of a request, wherever it looks.
Agree(m, n, r) ==
    /\ Direct(m, Wanted(r)) = Direct(n, Wanted(r))
    /\ \A t \in Direct(m, Wanted(r)) : IsAlias(t) => Direct(m, t) = Direct(n, t)
    /\ Direct(m, rootRedirectPath) = Direct(n, rootRedirectPath)

\* A request during which nobody changes the link it asks for, the link which that
\* is an alias of, or the root link, gets what the mappings say of it, however
\* often the mapping is replaced for the sake of other links.
UndisturbedRequest ==
    (Answered /\ \A m, n \in seen : Agree(m, n, request))
    => \A m \in seen : target \in Resolutions(m, request)

\* A visitor is sent to, or shown, only what the name, its alias or the root link
\* led to while the request was resolved, however the mappings came and went
\* between the lookups, and to the name of a link only if an alias names an alias.
TargetWasLive ==
    (Answered /\ target # NoTarget) =>
        \E m \in seen :
            \/ target \in Direct(m, Wanted(request)) \ Name
            \/ \E later \in seen : \E t \in Direct(m, Wanted(request)) :
                  IsAlias(t) /\ target \in Direct(later, t)
            \/ /\ pathEmpty(request) /\ AllowRootRedirect
               /\ target \in Direct(m, rootRedirectPath)

\* A path that asks for a link without alias gets the answer of one mapping
\* that was live meanwhile: updates in between cannot mix in another one, and
\* the root link never answers for it.
PlainRequest ==
    (Answered /\ ~pathEmpty(request)
              /\ \A m \in seen : \A t \in Direct(m, Wanted(request)) : ~IsAlias(t))
    => \E m \in seen : target \in Resolutions(m, request)

\* docs/develop.md:25-26 and 37-38: "updates are applied atomically, the system
\* avoids partial states"; "The HTTP layer continues serving requests throughout
\* this process, always consulting the latest successfully applied map."
OneMappingAnswers ==
    Answered => \E m \in seen : target \in Resolutions(m, request)
=============================================================================
