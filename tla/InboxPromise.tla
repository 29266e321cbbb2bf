---------------------------- MODULE InboxPromise ----------------------------
(***************************************************************************)
(* What the inbox promises of the notices sent to it, without hosts,       *)
(* leases, files of progress or commands: a notice comes to be known from  *)
(* its beginning on and without a gap, and it leaves the inbox once, when  *)
(* all of it is known.                                                     *)
(***************************************************************************)
EXTENDS Integers

CONSTANTS Notice,  \* notices that may be sent
          Units    \* Units[n]: length of the body of n

VARIABLES place,   \* place[n]: whether n is unsent, new or archived
          known    \* units of bodies in a saved conversation or printed

pVars == <<place, known>>

Body(n) == {n} \X (0..(Units[n] - 1))
Fresh == {n \in Notice : place[n] = "new"}

\* Whoever knows a unit of a notice knows the units before it.
NoGaps(units) == \A u \in units : \A i \in 0..(u[2] - 1) : <<u[1], i>> \in units

PInit == place = [n \in Notice |-> "unsent"] /\ known = {}

Publish(n) ==
  /\ place[n] = "unsent"
  /\ place' = [place EXCEPT ![n] = "new"]
  /\ UNCHANGED known

\* One saved turn may carry parts of many notices.
Learn ==
  /\ known \subseteq known'
  /\ known' \ known \subseteq UNION {Body(n) : n \in Fresh}
  /\ NoGaps(known')
  /\ UNCHANGED place

Archive(n) ==
  /\ place[n] = "new" /\ Body(n) \subseteq known
  /\ place' = [place EXCEPT ![n] = "archived"]
  /\ UNCHANGED known

PNext == Learn \/ \E n \in Notice : Publish(n) \/ Archive(n)

PSpec == PInit /\ [][PNext]_pVars
=============================================================================
