-------------------------- MODULE MCBackgroundJobs --------------------------
(***************************************************************************)
(* Two commands of two rooms of one host.                                  *)
(***************************************************************************)
EXTENDS BackgroundJobs, TLC

CONSTANTS build, fetch, telegram, home, group

\* Both commands belong to rooms of the Telegram host.
HomeOne == [j \in Job |-> telegram]
RoomsOne == (build :> home) @@ (fetch :> group)
=============================================================================
