--------------------------- MODULE MCNoticeInbox ---------------------------
(* Instances of NoticeInbox for TLC.                                       *)
EXTENDS NoticeInbox, TLC

CONSTANTS report, note, blank, telegram, console, shell

\* With two units in a batch, the note and then the report make a batch that
\* ends inside the report and another that carries its end.
TwoNotices == {report, note}
TwoHosts == {telegram, console}
OneReader == {shell}
ChunkedUnits == (report :> 2) @@ (note :> 1)

\* A notice without a body ahead of an ordinary one.
BlankNotices == {blank, note}
BlankUnits == (blank :> 0) @@ (note :> 1)
=============================================================================
