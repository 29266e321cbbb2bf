--------------------------- MODULE MCTelegramRooms ---------------------------
(***************************************************************************)
(* The home chat, which reviews the inbox and gets a text, and a group,    *)
(* which gets two.                                                        *)
(***************************************************************************)
EXTENDS TelegramRooms

CONSTANTS home, group, hello, ask, photo

MCTo == [m \in Msg |-> IF m = hello THEN home ELSE group]
=============================================================================
