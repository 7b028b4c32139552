--------------------------- MODULE AtomicUpgrade ---------------------------
(***************************************************************************)
(* What the upgrade of the root file system promises, as an owner of the   *)
(* board sees it: there is an image the board would boot if power were     *)
(* lost now, and a set of packages waiting to be installed.  An upgrade    *)
(* replaces the image by that of a waiting package in one step, and a      *)
(* package leaves the queue only when its image is the one that boots.     *)
(***************************************************************************)
EXTENDS Integers

CONSTANTS Package, Factory

VARIABLES image, pending

absVars == <<image, pending>>

Init == image = Factory /\ pending = {}

\* A package arrives; the installed one may leave the queue with it.
Upload(p) ==
  /\ \E q \in SUBSET (pending \cap {image}) : pending' = (pending \ q) \cup {p}
  /\ UNCHANGED image

Switch(p) == p \in pending /\ image' = p /\ UNCHANGED pending

Consume(p) == p \in pending /\ image = p /\ pending' = pending \ {p} /\ UNCHANGED image

Next == \E p \in Package : Upload(p) \/ Switch(p) \/ Consume(p)

Spec == Init /\ [][Next]_absVars
=============================================================================
