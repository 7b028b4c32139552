---------------------------- MODULE OrderedCodec ----------------------------
(***************************************************************************)
(* What FFmpeg's frame threading promises to the caller of a codec, whoever *)
(* does the work: pictures are accepted one by one, their results come back *)
(* one by one in the same order, none is lost, repeated or invented, unless *)
(* the caller discards what is inside, and no more than Depth are inside.   *)
(* frame_thread_encoder.c and pthread_frame.c both implement it.            *)
(***************************************************************************)
EXTENDS Naturals

CONSTANTS
  Depth,      \* how many pictures may be inside
  MayFlush    \* whether the caller can discard what is inside

VARIABLES
  accepted,   \* pictures taken from the caller so far
  delivered   \* the number of the picture whose result came back last

vars == <<accepted, delivered>>

Init == accepted = 0 /\ delivered = 0

Accept ==
  /\ accepted - delivered < Depth
  /\ accepted' = accepted + 1
  /\ UNCHANGED delivered

Deliver ==
  /\ delivered < accepted
  /\ delivered' = delivered + 1
  /\ UNCHANGED accepted

\* The caller seeks: what is inside never comes back.
Flush ==
  /\ MayFlush
  /\ delivered' = accepted
  /\ UNCHANGED accepted

Next == Accept \/ Deliver \/ Flush

Spec == Init /\ [][Next]_vars
=============================================================================
