--------------------------- MODULE MCFrameThreads ---------------------------
(* An instance of FrameThreads with codecs and callers of every kind: two    *)
(* whose callbacks Main has to serve, an inter-frame codec with a delay and  *)
(* one without (FFV1), and one that only decodes.                            *)
EXTENDS FrameThreads

MCCodecs ==
  { [update |-> TRUE,  safe |-> FALSE, delay |-> FALSE, ffv1 |-> FALSE],
    [update |-> FALSE, safe |-> FALSE, delay |-> FALSE, ffv1 |-> FALSE],
    [update |-> TRUE,  safe |-> TRUE,  delay |-> TRUE,  ffv1 |-> FALSE],
    [update |-> TRUE,  safe |-> TRUE,  delay |-> FALSE, ffv1 |-> TRUE],
    [update |-> FALSE, safe |-> TRUE,  delay |-> FALSE, ffv1 |-> FALSE] }
=============================================================================
