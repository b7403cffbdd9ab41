-------------------------- MODULE ResolutionProofs --------------------------
(***************************************************************************)
(* What a request gets while the mapping is replaced between its lookups,  *)
(* for every set of mappings and any number of replacements.               *)
(***************************************************************************)
EXTENDS RequestResolution, TLAPS

InFlight == pc \in {"lookup", "alias", "root"}

Resolved == pc = "resolved" \/ Answered

\* What the lookups may have left in target, whatever was live when.
NamedWhileSeen ==
    \E m \in seen :
        \/ target \in Direct(m, Wanted(request)) \ Name
        \/ \E later \in seen : \E t \in Direct(m, Wanted(request)) :
              IsAlias(t) /\ target \in Direct(later, t)

RootWhileSeen ==
    /\ pathEmpty(request) /\ AllowRootRedirect
    /\ \E m \in seen : target \in Direct(m, rootRedirectPath)

\* No mapping seen so far has an alias for the name.
NoAliasSeen ==
    /\ ~pathEmpty(request)
    /\ \A m \in seen : \A t \in Direct(m, Wanted(request)) : ~IsAlias(t)

\* The live mapping is seen, and what a request holds comes from mappings that
\* are: one invariant for each of the three properties.
SeenLive == InFlight => mapping \in seen

Held ==
    /\ pc = "lookup" => normalizedPath = Wanted(request)
    /\ pc = "alias" => \E m \in seen : target \in Direct(m, Wanted(request))
    /\ pc = "root" => target = NoTarget \/ NamedWhileSeen
    /\ Resolved => target = NoTarget \/ NamedWhileSeen \/ RootWhileSeen

Undisturbed == \A m, n \in seen : Agree(m, n, request)

Exact ==
    Undisturbed => \A m \in seen :
        /\ pc = "alias" => target \in Direct(m, Wanted(request))
        /\ pc = "root" => \/ target \in Named(m, request)
                          \/ target = NoTarget /\ Named(m, request) = {}
        /\ Resolved => target \in Resolutions(m, request)

PlainSoFar ==
    NoAliasSeen =>
        /\ pc = "root" => \E m \in seen : \/ target \in Direct(m, Wanted(request))
                                          \/ /\ target = NoTarget
                                             /\ Direct(m, Wanted(request)) = {}
        /\ Resolved => \E m \in seen : target \in Resolutions(m, request)

ResolutionInv == ResolutionTypeOK /\ SeenLive /\ Held /\ Exact /\ PlainSoFar

-----------------------------------------------------------------------------
\* A mapping says one thing of a name, or nothing.
LEMMA DirectLookup ==
    ASSUME NEW m, NEW n
    PROVE  /\ n \in DOMAIN m => Direct(m, n) = {m[n]}
           /\ n \notin DOMAIN m => Direct(m, n) = {}
BY DEF Direct

LEMMA GetTargetDirect ==
    ASSUME NEW n, mapping \in Mappings
    PROVE  /\ GetTarget(n) \in URLs \cup Name \cup {NoTarget}
           /\ Direct(mapping, n) = {} => GetTarget(n) = NoTarget
           /\ Direct(mapping, n) # {} => /\ GetTarget(n) \in Direct(mapping, n)
                                         /\ Direct(mapping, n) = {GetTarget(n)}
                                         /\ GetTarget(n) # NoTarget
           /\ GetTarget(n) # NoTarget => Direct(mapping, n) = {GetTarget(n)}
BY DirectLookup, ResolutionAssumption DEF GetTarget, Direct

\* What one mapping says of a request, element by element.
LEMMA NamedElements ==
    ASSUME NEW m, NEW r, NEW t
    PROVE  t \in Named(m, r) <=>
             \E s \in Direct(m, Wanted(r)) :
                \/ IsAlias(s) /\ t \in Direct(m, s)
                \/ ~IsAlias(s) /\ t = s
BY DEF Named

\* Mappings that agree on a request resolve it in the same way.
LEMMA AgreeResolves ==
    ASSUME NEW m, NEW n, NEW r, Agree(m, n, r)
    PROVE  /\ Direct(m, Wanted(r)) = Direct(n, Wanted(r))
           /\ Named(m, r) = Named(n, r)
           /\ Resolutions(m, r) = Resolutions(n, r)
<1>1. Direct(m, Wanted(r)) = Direct(n, Wanted(r))
  BY DEF Agree
<1>2. \A t : t \in Named(m, r) <=> t \in Named(n, r)
  BY <1>1, NamedElements DEF Agree
<1>3. Named(m, r) = Named(n, r)
  BY <1>2
<1> QED
  BY <1>1, <1>3 DEF Agree, Resolutions

\* The names that are looked up are names.
LEMMA NormalizedName ==
    ASSUME NEW n \in Name
    PROVE  Normalized(n) \in Name
BY DEF Name, Normalized, normalizeRedirectPath, Lowered, ToLower, TrimSlashes,
       TrimInfo, TrimRightInfo, HasInfoSuffix

LEMMA WantedName ==
    ASSUME NEW r \in [path : Paths, host : Hosts]
    PROVE  Wanted(r) \in Name
BY NormalizedName, ResolutionAssumption DEF Wanted

-----------------------------------------------------------------------------
LEMMA ResolutionInit == Init => ResolutionInv
<1> SUFFICES ASSUME Init
             PROVE  ResolutionInv
  OBVIOUS
<1>1. ResolutionTypeOK
  <2>1. Plain(EmptyStem) \in Name
    BY ResolutionAssumption DEF Plain, Name
  <2> QED
    BY <2>1, ResolutionAssumption DEF Init, ResolutionTypeOK
<1> QED
  BY <1>1 DEF Init, ResolutionInv, SeenLive, Held, Exact, Undisturbed, Agree,
              PlainSoFar, InFlight,
              Resolved, Answered

LEMMA ArriveKeeps ==
    ASSUME ResolutionInv, Arrive
    PROVE  ResolutionInv'
<1>1. normalizedPath' \in Name
  BY WantedName DEF Arrive
<1>2. ResolutionTypeOK'
  BY <1>1 DEF ResolutionInv, ResolutionTypeOK, Arrive
<1> QED
  BY <1>2 DEF Arrive, ResolutionInv, SeenLive, Held, Exact, Undisturbed, Agree,
              PlainSoFar, InFlight,
              Resolved, Answered, Wanted, pathEmpty

LEMMA LookupKeeps ==
    ASSUME ResolutionInv, Lookup
    PROVE  ResolutionInv'
<1> DEFINE wanted == Wanted(request)
<1>1. /\ pc = "lookup" /\ normalizedPath = wanted
      /\ target' = GetTarget(wanted)
      /\ pc' = IF IsAlias(target') THEN "alias" ELSE "root"
      /\ UNCHANGED <<mapping, updates, request, normalizedPath, seen>>
      /\ mapping \in seen /\ mapping \in Mappings
  BY DEF Lookup, ResolutionInv, Held, SeenLive, InFlight, ResolutionTypeOK
<1>2. UNCHANGED <<Wanted(request), pathEmpty(request)>>
  BY <1>1
<1>3. /\ target' \in URLs \cup Name \cup {NoTarget}
      /\ target' # NoTarget => Direct(mapping, wanted) = {target'}
      /\ target' = NoTarget => Direct(mapping, wanted) = {}
  BY <1>1, GetTargetDirect
<1>4. NoTarget \notin Name
  BY ResolutionAssumption
<1>5. ResolutionTypeOK'
  BY <1>1, <1>3 DEF ResolutionInv, ResolutionTypeOK
<1>6. SeenLive'
  BY <1>1 DEF SeenLive
<1>7. Held'
  BY <1>1, <1>2, <1>3, <1>4 DEF Held, NamedWhileSeen, Resolved, Answered, IsAlias
<1>8. Exact'
  <2> SUFFICES ASSUME Undisturbed, NEW m \in seen
               PROVE  /\ pc' = "alias" => target' \in Direct(m, wanted)
                      /\ pc' = "root" => \/ target' \in Named(m, request)
                                         \/ target' = NoTarget /\ Named(m, request) = {}
    BY <1>1, <1>2 DEF Exact, Undisturbed, Agree, Resolved, Answered
  <2>1. Direct(m, wanted) = Direct(mapping, wanted)
    BY <1>1, AgreeResolves DEF Undisturbed
  <2>2. CASE target' = NoTarget
    BY <2>1, <2>2, <1>1, <1>3, <1>4, NamedElements DEF IsAlias
  <2>3. CASE target' # NoTarget
    BY <2>1, <2>3, <1>1, <1>3, NamedElements
  <2> QED
    BY <2>2, <2>3
<1>9. PlainSoFar'
  BY <1>1, <1>2, <1>3 DEF PlainSoFar, Resolved, Answered
<1> QED
  BY <1>5, <1>6, <1>7, <1>8, <1>9 DEF ResolutionInv

LEMMA FollowAliasKeeps ==
    ASSUME ResolutionInv, FollowAlias
    PROVE  ResolutionInv'
<1> DEFINE wanted == Wanted(request)
<1>1. /\ pc = "alias" /\ IsAlias(target) /\ target \in Name
      /\ target' = GetTarget(target)
      /\ normalizedPath' = Normalized(target)
      /\ pc' = "root"
      /\ UNCHANGED <<mapping, updates, request, seen>>
      /\ mapping \in seen /\ mapping \in Mappings
      /\ \E m \in seen : target \in Direct(m, wanted)
  BY DEF FollowAlias, ResolutionInv, Held, SeenLive, InFlight, ResolutionTypeOK, IsAlias
<1>2. UNCHANGED <<Wanted(request), pathEmpty(request)>>
  BY <1>1
<1>3. /\ target' \in URLs \cup Name \cup {NoTarget}
      /\ target' # NoTarget => Direct(mapping, target) = {target'}
      /\ target' = NoTarget => Direct(mapping, target) = {}
  BY <1>1, GetTargetDirect
<1>4. normalizedPath' \in Name
  BY <1>1, NormalizedName
<1>5. ResolutionTypeOK'
  BY <1>1, <1>3, <1>4 DEF ResolutionInv, ResolutionTypeOK
<1>6. SeenLive'
  BY <1>1 DEF SeenLive
<1>7. Held'
  BY <1>1, <1>2, <1>3 DEF Held, NamedWhileSeen, Resolved, Answered
<1>8. Exact'
  <2> SUFFICES ASSUME Undisturbed, NEW m \in seen
               PROVE  \/ target' \in Named(m, request)
                      \/ target' = NoTarget /\ Named(m, request) = {}
    BY <1>1, <1>2 DEF Exact, Undisturbed, Agree, Resolved, Answered
  <2>1. target \in Direct(m, wanted) /\ target \in Direct(mapping, wanted)
    BY <1>1 DEF ResolutionInv, Exact
  <2>2. Direct(m, wanted) = {target}
    BY <2>1 DEF Direct
  <2>3. Direct(m, target) = Direct(mapping, target)
    BY <2>1, <1>1 DEF Undisturbed, Agree
  <2> QED
    BY <2>2, <2>3, <1>1, <1>3, NamedElements
<1>9. PlainSoFar'
  BY <1>1, <1>2 DEF PlainSoFar, NoAliasSeen
<1> QED
  BY <1>5, <1>6, <1>7, <1>8, <1>9 DEF ResolutionInv

LEMMA LookupRootKeeps ==
    ASSUME ResolutionInv, LookupRoot
    PROVE  ResolutionInv'
<1> DEFINE fallsBack == target = NoTarget /\ pathEmpty(request) /\ AllowRootRedirect
<1>1. /\ pc = "root" /\ pc' = "resolved"
      /\ fallsBack => target' = GetTarget(rootRedirectPath)
      /\ ~fallsBack => target' = target
      /\ UNCHANGED <<mapping, updates, request, normalizedPath, seen>>
      /\ mapping \in seen /\ mapping \in Mappings
  BY DEF LookupRoot, ResolutionInv, SeenLive, InFlight, ResolutionTypeOK
<1>2. UNCHANGED <<Wanted(request), pathEmpty(request)>>
  BY <1>1
<1>3. fallsBack =>
        /\ target' \in URLs \cup Name \cup {NoTarget}
        /\ target' # NoTarget => Direct(mapping, rootRedirectPath) = {target'}
        /\ target' = NoTarget => Direct(mapping, rootRedirectPath) = {}
  BY <1>1, GetTargetDirect
<1>4. ResolutionTypeOK'
  BY <1>1, <1>3 DEF ResolutionInv, ResolutionTypeOK
<1>5. SeenLive'
  BY <1>1 DEF SeenLive, InFlight
<1>6. Held'
  <2>1. CASE fallsBack
    BY <2>1, <1>1, <1>2, <1>3 DEF Held, RootWhileSeen
  <2>2. CASE ~fallsBack
    BY <2>2, <1>1, <1>2 DEF ResolutionInv, Held, NamedWhileSeen
  <2> QED
    BY <2>1, <2>2
<1>7. Exact'
  <2> SUFFICES ASSUME Undisturbed, NEW m \in seen
               PROVE  target' \in Resolutions(m, request)
    BY <1>1, <1>2 DEF Exact, Undisturbed, Agree, Resolutions, Named
  <2>1. /\ Direct(m, rootRedirectPath) = Direct(mapping, rootRedirectPath)
        /\ \/ target \in Named(m, request)
           \/ target = NoTarget /\ Named(m, request) = {}
    BY <1>1 DEF ResolutionInv, Exact, Undisturbed, Agree
  <2>2. CASE target \in Named(m, request) /\ target # NoTarget
    BY <2>2, <1>1 DEF Resolutions
  <2>3. CASE target = NoTarget /\ Named(m, request) = {}
    BY <2>1, <2>3, <1>1, <1>3 DEF Resolutions
  <2>4. NoTarget \notin Named(m, request)
    <3>1. m \in Mappings
      BY DEF ResolutionInv, ResolutionTypeOK
    <3> QED
      BY <3>1, NamedElements, ResolutionAssumption DEF Direct
  <2> QED
    BY <2>1, <2>2, <2>3, <2>4
<1>8. PlainSoFar'
  <2> SUFFICES ASSUME NoAliasSeen
               PROVE  \E m \in seen : target' \in Resolutions(m, request)
    BY <1>1, <1>2 DEF PlainSoFar, NoAliasSeen, Resolutions, Named
  <2>1. PICK m \in seen : \/ target \in Direct(m, Wanted(request))
                          \/ target = NoTarget /\ Direct(m, Wanted(request)) = {}
    BY <1>1 DEF ResolutionInv, PlainSoFar
  <2>2. ~pathEmpty(request) /\ target' = target
    BY <1>1 DEF NoAliasSeen
  <2>3. \A t : t \in Named(m, request) <=> t \in Direct(m, Wanted(request))
    BY NamedElements DEF NoAliasSeen
  <2>4. Resolutions(m, request) = IF Named(m, request) # {} THEN Named(m, request)
                                  ELSE {NoTarget}
    BY <2>2 DEF Resolutions
  <2> QED
    BY <2>1, <2>2, <2>3, <2>4
<1> QED
  BY <1>4, <1>5, <1>6, <1>7, <1>8 DEF ResolutionInv

LEMMA RespondKeeps ==
    ASSUME ResolutionInv, Respond
    PROVE  ResolutionInv'
<1>1. /\ pc = "resolved" /\ pc' \in {"notFound", "info", "redirect"}
      /\ UNCHANGED <<mapping, updates, request, normalizedPath, target, seen>>
  BY DEF Respond
<1> QED
  BY <1>1 DEF ResolutionInv, ResolutionTypeOK, SeenLive, Held, Exact,
              Undisturbed, Agree, PlainSoFar, InFlight, Resolved, Answered, NamedWhileSeen, RootWhileSeen,
              NoAliasSeen, Resolutions, Named, Wanted, pathEmpty

LEMMA UpdateMappingKeeps ==
    ASSUME ResolutionInv, UpdateMapping
    PROVE  ResolutionInv'
<1>1. /\ updates' = updates + 1 /\ updates < MaxUpdates
      /\ mapping' \in Mappings /\ mapping' # mapping
      /\ InFlight => seen' = seen \cup {mapping'}
      /\ ~InFlight => seen' = seen
      /\ UNCHANGED <<pc, request, normalizedPath, target>>
  BY DEF UpdateMapping, InFlight
<1>2. UNCHANGED <<Wanted(request), pathEmpty(request), Resolved, InFlight>>
  BY <1>1 DEF Resolved, Answered, InFlight
<1>3. ResolutionTypeOK'
  BY <1>1, ResolutionAssumption DEF ResolutionInv, ResolutionTypeOK
<1>4. SeenLive'
  BY <1>1, <1>2 DEF SeenLive
<1>5. Held'
  <2>1. seen \subseteq seen'
    BY <1>1
  <2>2. (NamedWhileSeen => NamedWhileSeen') /\ (RootWhileSeen => RootWhileSeen')
    BY <2>1, <1>1, <1>2 DEF NamedWhileSeen, RootWhileSeen
  <2> QED
    BY <2>1, <2>2, <1>1, <1>2 DEF ResolutionInv, Held
<1>6. Exact'
  <2>1. CASE InFlight
    <3> SUFFICES ASSUME Undisturbed', NEW m \in seen'
                 PROVE  /\ pc = "alias" => target \in Direct(m, Wanted(request))
                        /\ pc = "root" => \/ target \in Named(m, request)
                                          \/ target = NoTarget /\ Named(m, request) = {}
      BY <2>1, <1>1, <1>2 DEF Exact, InFlight, Resolved, Answered, Named
    <3>1. Undisturbed /\ mapping \in seen /\ Agree(mapping, m, request)
      BY <2>1, <1>1 DEF Undisturbed, Agree, Wanted, pathEmpty, ResolutionInv, SeenLive
    <3> QED
      BY <3>1, AgreeResolves DEF ResolutionInv, Exact
  <2>2. CASE ~InFlight
    BY <2>2, <1>1, <1>2
    DEF ResolutionInv, Exact, Undisturbed, Agree, Resolutions, Named
  <2> QED
    BY <2>1, <2>2
<1>7. PlainSoFar'
  <2> SUFFICES ASSUME NoAliasSeen'
               PROVE  /\ pc = "root" => \E m \in seen' :
                                \/ target \in Direct(m, Wanted(request))
                                \/ target = NoTarget /\ Direct(m, Wanted(request)) = {}
                      /\ Resolved => \E m \in seen' : target \in Resolutions(m, request)
    BY <1>1, <1>2 DEF PlainSoFar, Resolutions, Named
  <2>1. NoAliasSeen /\ seen \subseteq seen'
    BY <1>1, <1>2 DEF NoAliasSeen
  <2> QED
    BY <2>1 DEF ResolutionInv, PlainSoFar
<1> QED
  BY <1>3, <1>4, <1>5, <1>6, <1>7 DEF ResolutionInv

LEMMA ResolutionStep == ResolutionInv /\ [Next]_requestVars => ResolutionInv'
<1> SUFFICES ASSUME ResolutionInv, [Next]_requestVars
             PROVE  ResolutionInv'
  OBVIOUS
<1>1. CASE UNCHANGED requestVars
  BY <1>1 DEF requestVars, ResolutionInv, ResolutionTypeOK, SeenLive, Held, Exact,
              Undisturbed, Agree, PlainSoFar, InFlight, Resolved, Answered, NamedWhileSeen,
              RootWhileSeen, NoAliasSeen, Resolutions, Named, Wanted, pathEmpty
<1> QED
  BY <1>1, ArriveKeeps, LookupKeeps, FollowAliasKeeps, LookupRootKeeps,
     RespondKeeps, UpdateMappingKeeps DEF Next, RedirectTargetForRequest

-----------------------------------------------------------------------------
LEMMA ResolutionInductive == Spec => []ResolutionInv
BY ResolutionInit, ResolutionStep, PTL DEF Spec

\* A visitor is only ever sent to what the name, its alias or the root link led
\* to while the request was resolved (main.go:178-217), whatever the mappings.
THEOREM SentWhereItWasLive == Spec => []TargetWasLive
<1>1. ResolutionInv => TargetWasLive
  BY DEF ResolutionInv, Held, Resolved, TargetWasLive, NamedWhileSeen, RootWhileSeen
<1> QED
  BY ResolutionInductive, <1>1, PTL

\* Whatever is looked up and replaced, each step of a request finds what the last
\* one left it (main.go:178-217).
THEOREM ResolutionTypeCorrect == Spec => []ResolutionTypeOK
<1>1. ResolutionInv => ResolutionTypeOK
  BY DEF ResolutionInv
<1> QED
  BY ResolutionInductive, <1>1, PTL

\* A request whose links no update changes gets what the mappings say of it, as
\* often as they are replaced for other links meanwhile.
THEOREM UndisturbedIsExact == Spec => []UndisturbedRequest
<1>1. ResolutionInv => UndisturbedRequest
  BY DEF ResolutionInv, Exact, Undisturbed, Resolved, UndisturbedRequest
<1> QED
  BY ResolutionInductive, <1>1, PTL

\* A request for a link that is no alias in any mapping that is live meanwhile is
\* answered by one of them, however often the mapping is replaced.
THEOREM PlainIsAtomic == Spec => []PlainRequest
<1>1. ResolutionInv => PlainRequest
  BY DEF ResolutionInv, PlainSoFar, NoAliasSeen, Resolved, PlainRequest
<1> QED
  BY ResolutionInductive, <1>1, PTL
=============================================================================
