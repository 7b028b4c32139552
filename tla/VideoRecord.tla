---------------------------- MODULE VideoRecord ----------------------------
(***************************************************************************)
(* master-progs/video_record.c: the camera's frames are copied, with a text *)
(* drawn over them, into buffers of the H.264 encoder, whose output goes to *)
(* stdout.  Three threads meet here: main, which sets the pipeline up and   *)
(* then redraws the text for ever, and the callbacks of the camera's and of *)
(* the encoder's ports, which the MMAL library runs in its own threads.     *)
(*                                                                          *)
(* Buffers of a pool are interchangeable and counted: in the pool's queue,  *)
(* with the component (sent to its port), in a callback's hands, or lost.   *)
(***************************************************************************)
EXTENDS Integers

CONSTANT
  Size           \* number of buffers of each pool

Pool == {"cam", "inp", "out"}   \* camera_video_port, encoder input and output

ASSUME SizeAssumption == Size \in [Pool -> Nat \ {0}]

VARIABLES
  main,      \* next step of main
  left,      \* buffers fill_port_buffer has still to send
  created,   \* pools stored in userdata
  enabled,   \* ports that are enabled
  capture,   \* MMAL_PARAMETER_CAPTURE of the camera port
  queue, port, held, lost,    \* where the buffers of each pool are
  camCb,     \* step of camera_video_buffer_callback
  outCb,     \* step of encoder_output_buffer_callback
  work,      \* frames inside the encoder whose output is still to come
  overlay,   \* userdata.overlay: the overlay buffer that is complete
  drawing,   \* the overlay buffer main draws to, None between drawings
  latched,   \* local_overlay_buffer of the camera callback
  slept,     \* history: has main slept a whole usleep since then?
  starved    \* has mmal_queue_get returned NULL to someone returning buffers?

setup == <<left, created, enabled, capture>>
pools == <<queue, port, held, lost>>
text == <<overlay, drawing, latched, slept>>
vars == <<main, left, created, enabled, capture, queue, port, held, lost, camCb, outCb,
          work, overlay, drawing, latched, slept, starved>>

None == 2
MaxWork == 1    \* frames the encoder works on at a time

MainSteps == {"camPool", "camFill", "capture", "encPool", "encEnable", "outPool",
              "outEnable", "outFill", "preview", "draw", "flip", "sleep", "exit"}
CamSteps == {"idle", "get", "latch", "copy", "send", "release", "return", "segv"}
OutSteps == {"idle", "write", "release", "return"}

TypeOK ==
  /\ main \in MainSteps
  /\ left \in Nat
  /\ created \subseteq Pool /\ enabled \subseteq created
  /\ capture \in BOOLEAN
  /\ queue \in [Pool -> Nat] /\ port \in [Pool -> Nat]
  /\ held \in [Pool -> Nat] /\ lost \in [Pool -> Nat]
  /\ camCb \in CamSteps /\ outCb \in OutSteps
  /\ work \in 0..MaxWork
  /\ overlay \in {0, 1} /\ drawing \in {0, 1, None} /\ latched \in {0, 1}
  /\ slept \in BOOLEAN /\ starved \in BOOLEAN

Zero == [p \in Pool |-> 0]

Init ==
  /\ main = "camPool" /\ left = 0
  /\ created = {} /\ enabled = {} /\ capture = FALSE
  /\ queue = Zero /\ port = Zero /\ held = Zero /\ lost = Zero
  /\ camCb = "idle" /\ outCb = "idle" /\ work = 0
  /\ overlay = 1 /\ drawing = None /\ latched = 1 /\ slept = FALSE
  /\ starved = FALSE

Alive == main # "exit" /\ camCb # "segv"

-----------------------------------------------------------------------------
(* MMAL *)

\* mmal_port_pool_create
CreatePool(p) ==
  /\ created' = created \cup {p}
  /\ queue' = [queue EXCEPT ![p] = Size[p]]

\* mmal_port_send_buffer, of one buffer: it reaches the component, or the call
\* fails and the caller, which only prints a message, drops its only pointer.
Send(p) ==
  \/ /\ p \in enabled
     /\ port' = [port EXCEPT ![p] = @ + 1]
     /\ UNCHANGED lost
  \/ /\ lost' = [lost EXCEPT ![p] = @ + 1]
     /\ UNCHANGED port

\* buffer = mmal_queue_get(pool->queue); mmal_port_send_buffer(port, buffer)
GetAndSend(p) ==
  /\ starved' = (starved \/ queue[p] = 0)
  /\ IF queue[p] = 0
       THEN UNCHANGED <<queue, port, lost>>
       ELSE queue' = [queue EXCEPT ![p] = @ - 1] /\ Send(p)

\* mmal_buffer_header_release gives the buffer back to its pool's queue.
Release(p) ==
  /\ held' = [held EXCEPT ![p] = @ - 1]
  /\ queue' = [queue EXCEPT ![p] = @ + 1]
  /\ UNCHANGED <<port, lost>>

-----------------------------------------------------------------------------
(* main: setup_camera, setup_encoder, setup_preview *)

SetupStep(from, to) ==
  /\ Alive
  /\ main = from
  /\ main' = to
  /\ UNCHANGED <<camCb, outCb, work, text>>

\* setup_camera: pool, port and component.
SetupCamera ==
  /\ SetupStep("camPool", "camFill")
  /\ CreatePool("cam")
  /\ enabled' = enabled \cup {"cam"}
  /\ left' = Size["cam"]
  /\ UNCHANGED <<capture, port, held, lost, starved>>

FillPortAllButOne(p, at, next) ==
  /\ Alive /\ main = at
  /\ IF left > 1
       THEN left' = left - 1 /\ GetAndSend(p) /\ UNCHANGED main
       ELSE left' = 0 /\ main' = next /\ UNCHANGED <<queue, port, lost, starved>>
  /\ UNCHANGED <<created, enabled, capture, held, camCb, outCb, work, text>>

FillPortTooMany(p, at, next) ==
  /\ Alive /\ main = at
  /\ GetAndSend(p)
  /\ IF left > 0 THEN left' = left - 1 /\ UNCHANGED main ELSE left' = 0 /\ main' = next
  /\ UNCHANGED <<created, enabled, capture, held, camCb, outCb, work, text>>

\* fill_port_buffer: as many buffers as the queue held when it started.
FillPort(p, at, next) ==
  /\ Alive /\ main = at
  /\ \/ /\ left > 0
        /\ left' = left - 1
        /\ GetAndSend(p)
        /\ UNCHANGED main
     \/ /\ left = 0
        /\ main' = next
        /\ UNCHANGED <<left, queue, port, lost, starved>>
  /\ UNCHANGED <<created, enabled, capture, held, camCb, outCb, work, text>>

\* Setting MMAL_PARAMETER_CAPTURE may fail: main prints a message and goes on.
StartCapture ==
  /\ SetupStep("capture", "encPool")
  /\ capture' \in BOOLEAN
  /\ UNCHANGED <<left, created, enabled, pools, starved>>

\* setup_encoder: the input pool is stored before its port is enabled.
CreateInputPool ==
  /\ SetupStep("encPool", "encEnable")
  /\ CreatePool("inp")
  /\ UNCHANGED <<left, enabled, capture, port, held, lost, starved>>

EnableInput ==
  /\ SetupStep("encEnable", "outPool")
  /\ enabled' = enabled \cup {"inp"}
  /\ UNCHANGED <<left, created, capture, pools, starved>>

CreateOutputPool ==
  /\ SetupStep("outPool", "outEnable")
  /\ CreatePool("out")
  /\ UNCHANGED <<left, enabled, capture, port, held, lost, starved>>

EnableOutput ==
  /\ SetupStep("outEnable", "outFill")
  /\ enabled' = enabled \cup {"out"}
  /\ left' = queue["out"]
  /\ UNCHANGED <<created, capture, pools, starved>>

SetupPreview ==
  /\ SetupStep("preview", "draw")
  /\ UNCHANGED <<setup, pools, starved>>

\* A setup call fails: main returns -1.
SetupFails ==
  /\ \E at \in {"camPool", "encPool", "encEnable", "outEnable", "preview"} : SetupStep(at, "exit")
  /\ UNCHANGED <<setup, pools, starved>>

-----------------------------------------------------------------------------
(* main: the drawing loop *)

DrawStep(from, to) ==
  /\ Alive
  /\ main = from
  /\ main' = to
  /\ UNCHANGED <<setup, pools, camCb, outCb, work, latched, starved>>

DrawOverlayVisible == DrawStep("draw", "flip") /\ drawing' = overlay /\ UNCHANGED <<overlay, slept>>

\* main draws to the buffer overlay does not name ...
DrawOverlay == DrawStep("draw", "flip") /\ drawing' = 1 - overlay /\ UNCHANGED <<overlay, slept>>

\* ... then makes it the one the camera callback uses, and sleeps for 30 ms.
FlipOverlay == DrawStep("flip", "sleep") /\ overlay' = drawing /\ drawing' = None /\ UNCHANGED slept

\* The sleep began after the callback's choice if the buffers were swapped since.
Sleep ==
  /\ DrawStep("sleep", "draw")
  /\ slept' = (slept \/ overlay # latched)
  /\ UNCHANGED <<overlay, drawing>>

MainStep ==
  \/ SetupCamera \/ FillPort("cam", "camFill", "capture") \/ StartCapture \/ CreateInputPool
  \/ EnableInput \/ CreateOutputPool \/ EnableOutput \/ FillPort("out", "outFill", "preview")
  \/ SetupPreview \/ DrawOverlay \/ FlipOverlay \/ Sleep

-----------------------------------------------------------------------------
(* camera_video_buffer_callback *)

Ready == main \in {"preview", "draw", "flip", "sleep"}

\* The camera has filled a buffer: the library runs the callback, during the rest
\* of the setup too.
CameraFrame ==
  /\ Alive /\ capture /\ camCb = "idle" /\ port["cam"] > 0
  /\ camCb' = "get"
  /\ port' = [port EXCEPT !["cam"] = @ - 1]
  /\ held' = [held EXCEPT !["cam"] = @ + 1]
  /\ UNCHANGED <<main, setup, queue, lost, outCb, work, text, starved>>

CamStep(from, to) ==
  /\ Alive
  /\ camCb = from
  /\ camCb' = to
  /\ UNCHANGED <<main, setup, outCb, work, overlay, drawing>>

\* output_buffer = mmal_queue_get(userdata->encoder_input_pool->queue), through
\* a NULL pointer as long as setup_encoder has not stored the pool.
GetEncoderBuffer ==
  \/ /\ "inp" \notin created
     /\ CamStep("get", "segv")
     /\ UNCHANGED <<pools, latched, slept, starved>>
  \/ /\ "inp" \in created
     /\ CamStep("get", "latch")
     /\ IF queue["inp"] > 0
          THEN /\ queue' = [queue EXCEPT !["inp"] = @ - 1]
               /\ held' = [held EXCEPT !["inp"] = @ + 1]
          ELSE UNCHANGED <<queue, held>>
     /\ UNCHANGED <<port, lost, latched, slept, starved>>

\* local_overlay_buffer is chosen; without an encoder buffer the frame is dropped.
LatchOverlay ==
  /\ CamStep("latch", IF held["inp"] > 0 THEN "copy" ELSE "release")
  /\ latched' = overlay /\ slept' = FALSE
  /\ UNCHANGED <<pools, starved>>

CopyFrame ==
  /\ CamStep("copy", "send")
  /\ UNCHANGED <<pools, latched, slept, starved>>

\* A buffer that cannot be sent to the encoder is not given back to its pool.
SendFrame ==
  /\ CamStep("send", "release")
  /\ held' = [held EXCEPT !["inp"] = @ - 1]
  /\ Send("inp")
  /\ UNCHANGED <<queue, latched, slept, starved>>

\* The camera's buffer goes back to its pool ...
ReleaseFrame ==
  /\ CamStep("release", "return")
  /\ Release("cam")
  /\ UNCHANGED <<latched, slept, starved>>

ReturnFrameForgets ==
  /\ CamStep("return", "idle")
  /\ UNCHANGED <<pools, latched, slept, starved>>

\* ... and one buffer goes back to the camera.
ReturnFrame ==
  /\ CamStep("return", "idle")
  /\ GetAndSend("cam")
  /\ UNCHANGED <<held, latched, slept>>

CameraCallback ==
  \/ GetEncoderBuffer \/ LatchOverlay \/ CopyFrame \/ SendFrame \/ ReleaseFrame \/ ReturnFrame

-----------------------------------------------------------------------------
(* The encoder and its callbacks *)

\* The encoder has read an input buffer; encoder_input_buffer_callback releases it.
EncoderInput ==
  /\ Alive /\ port["inp"] > 0 /\ work < MaxWork
  /\ port' = [port EXCEPT !["inp"] = @ - 1]
  /\ queue' = [queue EXCEPT !["inp"] = @ + 1]
  /\ work' = work + 1
  /\ UNCHANGED <<main, setup, held, lost, camCb, outCb, text, starved>>

\* The encoder has filled an output buffer.
EncoderOutput ==
  /\ Alive /\ work > 0 /\ port["out"] > 0 /\ outCb = "idle"
  /\ work' = work - 1
  /\ port' = [port EXCEPT !["out"] = @ - 1]
  /\ held' = [held EXCEPT !["out"] = @ + 1]
  /\ outCb' = "write"
  /\ UNCHANGED <<main, setup, queue, lost, camCb, text, starved>>

OutStep(from, to) ==
  /\ Alive
  /\ outCb = from
  /\ outCb' = to
  /\ UNCHANGED <<main, setup, camCb, work, text>>

WriteOutput == OutStep("write", "release") /\ UNCHANGED <<pools, starved>>

ReleaseOutput == OutStep("release", "return") /\ Release("out") /\ UNCHANGED starved

ReturnOutput == OutStep("return", "idle") /\ GetAndSend("out") /\ UNCHANGED held

OutputCallback == WriteOutput \/ ReleaseOutput \/ ReturnOutput

Next ==
  \/ MainStep \/ SetupFails
  \/ CameraFrame \/ CameraCallback
  \/ EncoderInput \/ EncoderOutput \/ OutputCallback

\* The threads run, and camera and encoder work as long as they have buffers.
Fairness ==
  /\ WF_vars(MainStep) /\ WF_vars(CameraCallback) /\ WF_vars(OutputCallback)
  /\ WF_vars(CameraFrame) /\ WF_vars(EncoderInput) /\ WF_vars(EncoderOutput)

Spec == Init /\ [][Next]_vars /\ Fairness

-----------------------------------------------------------------------------
(* Properties *)

\* Neither fill_port_buffer nor a callback that returns a buffer to its port
\* ever finds the pool's queue empty, although the output pool is filled while
\* its callbacks already take from the same queue.
NeverStarved == ~ starved

\* Whenever a callback is done its port has every buffer of the pool again that
\* no failed mmal_port_send_buffer has dropped: none is parked in the queue,
\* where nothing would fetch it.  So with failing sends, too, and however the
\* filling of the output pool and its first callbacks interleave.
NoneParked ==
  /\ main \notin {"camPool", "camFill", "exit"} /\ camCb = "idle" => port["cam"] + lost["cam"] = Size["cam"]
  /\ Ready /\ outCb = "idle"
       => port["out"] + lost["out"] = Size["out"]

\* Two overlay buffers are enough for a copy that is shorter than main's usleep of
\* 30 ms: the camera callback, whenever it chose its buffer, does not read the one
\* main draws to before main has swapped the buffers and slept for all that time.
SteadyText == camCb = "copy" /\ drawing = latched => slept

\* video_record.c:525 "Update Draw to unused buffer that way there is no
\* flickering of the overlay text if the overlay update rate and video FPS are
\* not the same": a frame is never composed from the buffer being redrawn.
NoFlicker == ~ (camCb = "copy" /\ drawing = latched)

\* What ends the recording without ending main's loop, or ends the program: a
\* frame that came before the encoder's pool, a setup call that failed, or a pool
\* all of whose buffers were dropped by mmal_port_send_buffer.
Stopped ==
  \/ main = "exit" \/ camCb = "segv"
  \/ ~ capture /\ main \notin {"camPool", "camFill", "capture"}
  \/ \E p \in Pool : lost[p] = Size[p]

\* Nothing else does: encoded data keeps being written, however many frames the
\* callback drops and as long as one buffer of each pool is left.
RecordsForever == []<>(outCb = "write" \/ Stopped)
=============================================================================
