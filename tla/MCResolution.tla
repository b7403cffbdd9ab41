--------------------------- MODULE MCResolution ----------------------------
(***************************************************************************)
(* Links "a", "b" and the root link; "b" is the host of half the requests  *)
(* too.  "a" and "b" may be aliases of each other.                         *)
(***************************************************************************)
EXTENDS RequestResolution, FiniteSets

CONSTANTS StemA, StemB, StemC, u1, u2

MCStems == {EmptyStem, RootStem, StemA, StemB, StemC}
MCURLs  == {u1, u2}

LinkA == Plain(StemA)
LinkB == Plain(StemB)

MCKeys == {LinkA, LinkB, rootRedirectPath}

MCMappings ==
    {m \in UNION {[keys -> MCURLs \cup {LinkA, LinkB}] : keys \in SUBSET MCKeys} :
        \A n \in DOMAIN m :
            m[n] \in CASE n = LinkA -> {u1, u2, LinkB}
                       [] n = LinkB -> {u1, LinkA}
                       [] OTHER     -> {u2}}

MCPaths ==
    {Plain(EmptyStem),
     [Plain(EmptyStem) EXCEPT !.after = "+"],
     LinkA,
     [LinkA EXCEPT !.upper = TRUE, !.after = "+"],
     [LinkB EXCEPT !.after = "/"],
     rootRedirectPath}

MCHosts == {LinkB, Plain(StemC)}
=============================================================================
