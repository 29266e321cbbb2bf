------------------------------ MODULE MCChatTurn ------------------------------
(* Small instances of ChatTurn: a blank text sent while a turn runs, and   *)
(* one host notice.                                                        *)
EXTENDS ChatTurn
CONSTANTS s1, n1
Steers == {s1}
Notices == {n1}
Blanks == {s1}
=============================================================================
