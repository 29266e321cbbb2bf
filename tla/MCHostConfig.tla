----------------------------- MODULE MCHostConfig -----------------------------
(* Two sessions and five texts: the boot configuration, a reloadable     *)
(* change, one that needs a restart, one without a key, and a broken file. *)
EXTENDS HostConfig, TLC

CONSTANTS s1, s2, boot, edited, moved, keyless, broken, person, none

MCSession == {s1, s2}
MCText == {boot, edited, moved, keyless, broken}
MCValid == MCText \ {broken}
MCKeyed == MCValid \ {keyless}
MCFixed == [g \in MCValid |-> g = moved]
=============================================================================
