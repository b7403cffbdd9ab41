-------------------------- MODULE UpdateInvariant --------------------------
(***************************************************************************)
(* Why the update pipeline never goes backwards, and why it forgets no     *)
(* edit: the inductive invariants behind its safety properties.  The order *)
(* of versions asks for one updater whose disk works, whatever the local   *)
(* clock says; how many edits may stay unseen depends on that clock.       *)
(***************************************************************************)
EXTENDS UpdatePipeline

\* Nobody forces updates, and a fallback file, if there is one, can be written.
Orderly ==
    /\ ApiCallers = {}
    /\ UseFallbackFile => MaxDiskFaults = 0

\* In a sheet that is never empty, every time stored is one that was read before
\* the request.
Production == Orderly /\ EmptyVersions = {}

\* The local clock is not ahead of Google's.
ClockBehind == \A s \in Skews : s =< 0

\* An updater that is about to publish holds something to publish.
Holding ==
    \A p \in Updaters :
        pc[p] \in Publishing \cup {"response"} => fetched[p] \in Snapshots

\* n is at least as new as everything that was published in this process.
Covers(n) ==
    /\ mapping =< n
    /\ mappingInHand =< n
    /\ \A i \in 1..Len(mappingChannel) : mappingChannel[i] =< n

\* Mappings are published in the order of their versions.
InOrder ==
    /\ mappingInHand # NoMapping => mapping =< mappingInHand
    /\ \A i \in 1..Len(mappingChannel) :
          /\ mapping =< mappingChannel[i]
          /\ mappingInHand =< mappingChannel[i]
    /\ \A i, j \in 1..Len(mappingChannel) :
          i =< j => mappingChannel[i] =< mappingChannel[j]

\* What the updater holds is newer than what is published and no newer than
\* the sheet.
HeldInOrder ==
    /\ Covers(edits)
    /\ fetched[Loop] =< edits
    /\ pc[Loop] \in Publishing \cup {"response"} => Covers(fetched[Loop])

\* lastUpdate never claims more than what is published or about to be, nor than a
\* readable file, which a failed fetch would publish; but for the clock's lead.
Honest ==
    \A lead \in Leads :
        /\ pc[Loop] = "request" => updateTime[Loop] =< edits + lead
        /\ pc[Loop] = "response" => updateTime[Loop] =< fetched[Loop] + lead
        /\ lastUpdate =< lead + (IF pc[Loop] \in Publishing THEN fetched[Loop]
                                 ELSE NewestPublished)
        /\ UseFallbackFile /\ Readable /\ pc[Loop] # "truncate"
           => lastUpdate =< file.version + lead

\* A readable file is at least as new as what is published, and it is readable
\* from the first publication on.
FileInOrder ==
    /\ pc[Loop] \in {"readFallback", "truncate", "write"} => UseFallbackFile
    /\ pc[Loop] = "write" => file.length = 0
    /\ UseFallbackFile =>
          /\ Readable => /\ Covers(file.version)
                         /\ file.version =< edits
          /\ pc[Loop] = "send" => Readable /\ file.version = fetched[Loop]
          /\ \/ pc[Loop] = "write"
             \/ Readable
             \/ /\ mapping = EmptyMapping
                /\ mappingInHand = NoMapping
                /\ mappingChannel = << >>

\* The versions are in order wherever they are.
OrderInv == TypeOK /\ Holding /\ InOrder /\ HeldInOrder /\ FileInOrder

IInv == OrderInv /\ Honest
=============================================================================
