------------------------------ MODULE MCWrkRun ------------------------------
(***************************************************************************)
(* Small tasks for WrkRun.                                                 *)
(***************************************************************************)
EXTENDS WrkRunInductive, TLC

CONSTANTS scan, build, test, gate, sig1, sig2, router, cli, op

\* A reader, then a writing loop; beside them a wait node.
NodesChain == {scan, build, gate}
AfterChain == (scan :> {}) @@ (build :> {scan}) @@ (gate :> {})
PlaceChain == (scan :> 1) @@ (gate :> 2) @@ (build :> 3)
TriesChain == (build :> 2)

\* A wait node and a command, then a reader and a writer that could share a
\* wave; an interrupted command shares one with the reader.
NodesFan == {gate, test, scan, build}
AfterFan == (gate :> {}) @@ (test :> {}) @@ (scan :> {gate}) @@ (build :> {gate, test})
PlaceFan == (gate :> 1) @@ (test :> 2) @@ (scan :> 3) @@ (build :> 4)

EventChain == (gate :> "approved")
NamesChain == [s \in Signal |-> "approved"]
IdsChain == [s \in Signal |-> IF s = sig1 THEN 1 ELSE 2]
=============================================================================
