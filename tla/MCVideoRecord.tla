--------------------------- MODULE MCVideoRecord ---------------------------
(* Model values for VideoRecord: the pool sizes of video_record.c. *)
EXTENDS VideoRecord

\* camera_video_port and encoder_input_port use 2 buffers; the encoder's output
\* port uses the number its component recommends, here 3.
PoolSizes == [p \in Pool |-> IF p = "out" THEN 3 ELSE 2]
=============================================================================
