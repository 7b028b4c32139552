---------------------------- MODULE VideoProofs ----------------------------
(***************************************************************************)
(* Proofs about VideoRecord, for pools of any size.  The buffers of each    *)
(* pool are followed through setup, callbacks and components by one         *)
(* inductive invariant: what a queue holds is determined by how far main    *)
(* and the callback of the port are.                                        *)
(***************************************************************************)
EXTENDS VideoRecord, TLAPS

One(b) == IF b THEN 1 ELSE 0

Working == {"get", "latch", "copy", "send", "release", "segv"}
OutRunning == {"outFill"} \cup {"preview", "draw", "flip", "sleep"}
InpRunning == {"outPool", "outEnable"} \cup OutRunning

\* The camera's pool: filled before the capture starts; afterwards its queue
\* holds a buffer only between the release and the return of a callback.
CamInv ==
  main # "exit" =>
    /\ main \in {"camPool", "camFill", "capture"} => camCb = "idle" /\ capture = FALSE
    /\ main = "camFill" => queue["cam"] = left
    /\ main \notin {"camPool", "camFill"} => queue["cam"] = One(camCb = "return")
    /\ held["cam"] = One(camCb \in Working)

\* The encoder's input pool: a callback that copies or sends has a buffer.
InpInv ==
  main # "exit" => (camCb \in {"copy", "send"} => held["inp"] > 0)

\* The encoder's output pool: while it is being filled its queue holds what is
\* left to send and the buffer a callback is about to return.
OutInv ==
  main # "exit" =>
    /\ main \notin OutRunning => outCb = "idle" /\ port["out"] = 0
    /\ main = "outEnable" => queue["out"] = Size["out"]
    /\ main = "outFill" => queue["out"] = left + One(outCb = "return")
    /\ Ready => queue["out"] = One(outCb = "return")
    /\ held["out"] = One(outCb \in {"write", "release"})

\* How far main is decides which pools and ports there are.
SetupInv ==
  main # "exit" =>
    /\ main = "camPool" => created = {}
    /\ main # "camPool" => "cam" \in enabled
    /\ main \in {"encEnable"} \cup InpRunning <=> "inp" \in created
    /\ main \in InpRunning => "inp" \in enabled
    /\ main \in {"outEnable"} \cup OutRunning <=> "out" \in created
    /\ main \in OutRunning => "out" \in enabled

\* Every buffer of a pool is somewhere.
AccountInv ==
  \A p \in Pool :
    /\ p \in created => queue[p] + port[p] + held[p] + lost[p] = Size[p]
    /\ p \notin created => queue[p] = 0 /\ port[p] = 0 /\ held[p] = 0 /\ lost[p] = 0

PoolInv == CamInv /\ InpInv /\ OutInv /\ SetupInv /\ AccountInv

\* main only ever draws to the overlay buffer that is not in use.
TextInv ==
  drawing = IF main = "flip" THEN 1 - overlay ELSE None

IInv == TypeOK /\ PoolInv /\ TextInv /\ starved = FALSE

-----------------------------------------------------------------------------
\* main and the output callback both take a buffer from the output pool's queue
\* and send it; only what OutInv says of the two has to be looked at apart.
LEMMA SendOut ==
  ASSUME IInv, main \in OutRunning, queue["out"] > 0, Send("out"), starved' = FALSE,
         queue' = [queue EXCEPT !["out"] = @ - 1], left' \in Nat, outCb' \in OutSteps, OutInv',
         UNCHANGED <<main, created, enabled, capture, held, camCb, work, text>>
  PROVE  IInv'
<1> USE DEF Pool, OutRunning, text
<1>1. TypeOK'
  <2>1. port' \in [Pool -> Nat] /\ lost' \in [Pool -> Nat]
    BY DEF IInv, TypeOK, Send
  <2>2. queue' \in [Pool -> Nat]
    BY DEF IInv, TypeOK
  <2>3. starved' \in BOOLEAN
    OBVIOUS
  <2> QED  BY <2>1, <2>2, <2>3 DEF IInv, TypeOK
<1>2. CamInv' /\ InpInv' /\ SetupInv' /\ TextInv'
  BY DEF IInv, PoolInv, TypeOK, CamInv, InpInv, SetupInv, TextInv, Working
<1>3. "out" \in created
  BY DEF IInv, PoolInv, SetupInv
<1>4. AccountInv'
  BY <1>3, SizeAssumption DEF IInv, PoolInv, AccountInv, TypeOK, Send
<1> QED  BY <1>1, <1>2, <1>4 DEF IInv, PoolInv

\* Every step of main, of a callback or of a component keeps the invariant.
LEMMA NextKeeps == IInv /\ [Next]_vars => IInv'
<1> SUFFICES ASSUME IInv, [Next]_vars PROVE IInv'
  OBVIOUS
<1> USE SizeAssumption DEF None, MaxWork, Pool, MainSteps, CamSteps, OutSteps, Ready, One, Working,
        OutRunning, InpRunning, IInv, PoolInv, TypeOK, CamInv, InpInv, OutInv, SetupInv, AccountInv,
        TextInv, setup, pools, text, Alive
<1>1. CASE SetupCamera
  BY <1>1 DEF SetupCamera, SetupStep, CreatePool
<1>2. CASE FillPort("cam", "camFill", "capture")
  BY <1>2 DEF FillPort, GetAndSend, Send
<1>3. CASE StartCapture
  <2>1. main = "capture" /\ main' = "encPool" /\ capture' \in BOOLEAN
        /\ UNCHANGED <<left, created, enabled, pools, camCb, outCb, work, text, starved>>
    BY <1>3 DEF StartCapture, SetupStep
  <2> QED  BY <2>1
<1>4. CASE CreateInputPool
  BY <1>4 DEF CreateInputPool, SetupStep, CreatePool
<1>5. CASE EnableInput
  BY <1>5 DEF EnableInput, SetupStep
<1>6. CASE CreateOutputPool
  BY <1>6 DEF CreateOutputPool, SetupStep, CreatePool
<1>7. CASE EnableOutput
  BY <1>7 DEF EnableOutput, SetupStep
<1>8. CASE FillPort("out", "outFill", "preview")
  <2>0. main = "outFill" /\ "out" \in enabled /\ "out" \in created
        /\ queue["out"] = left + One(outCb = "return")
        /\ UNCHANGED <<created, enabled, capture, held, camCb, outCb, work, text>>
    BY <1>8 DEF FillPort, GetAndSend, Send
  <2>1. CASE left > 0
    <3>1. left' = left - 1 /\ main' = main /\ queue' = [queue EXCEPT !["out"] = @ - 1]
          /\ starved' = FALSE /\ Send("out")
      BY <1>8, <2>0, <2>1 DEF FillPort, GetAndSend
    <3>2. main \in OutRunning /\ queue["out"] > 0 /\ left' \in Nat /\ outCb' \in OutSteps
      BY <2>0, <2>1, <3>1
    <3>3. OutInv'
      BY <2>0, <2>1, <3>1
    <3> QED  BY <2>0, <3>1, <3>2, <3>3, SendOut
  <2>2. CASE left = 0
    <3>1. main' = "preview" /\ UNCHANGED <<left, queue, port, lost, starved>>
      BY <1>8, <2>2 DEF FillPort
    <3> QED  BY <2>0, <2>2, <3>1
  <2>3. left > 0 \/ left = 0
    OBVIOUS
  <2> QED  BY <2>1, <2>2, <2>3, Zenon
<1>9. CASE SetupPreview
  BY <1>9 DEF SetupPreview, SetupStep
<1>10. CASE SetupFails
  BY <1>10 DEF SetupFails, SetupStep
<1>11. CASE DrawOverlay
  BY <1>11 DEF DrawOverlay, DrawStep
<1>12. CASE FlipOverlay
  BY <1>12 DEF FlipOverlay, DrawStep
<1>13. CASE Sleep
  BY <1>13 DEF Sleep, DrawStep
<1>14. CASE CameraFrame
  BY <1>14 DEF CameraFrame
<1>15. CASE GetEncoderBuffer
  <2>0. camCb = "get" /\ main \notin {"camPool", "camFill", "capture", "exit"}
    BY <1>15 DEF GetEncoderBuffer, CamStep
  <2>1. CASE "inp" \in created /\ queue["inp"] > 0
    <3>1. /\ queue' = [queue EXCEPT !["inp"] = @ - 1]
          /\ held' = [held EXCEPT !["inp"] = @ + 1]
          /\ camCb' = "latch"
          /\ UNCHANGED <<main, setup, port, lost, outCb, work, text, starved>>
      BY <1>15, <2>1 DEF GetEncoderBuffer, CamStep
    <3> QED  BY <2>0, <2>1, <3>1
  <2>2. CASE ~ ("inp" \in created /\ queue["inp"] > 0)
    <3>1. /\ camCb' \in {"latch", "segv"}
          /\ UNCHANGED <<main, setup, pools, outCb, work, text, starved>>
      BY <1>15, <2>2 DEF GetEncoderBuffer, CamStep
    <3> QED  BY <2>0, <3>1
  <2> QED  BY <2>1, <2>2
<1>16. CASE LatchOverlay
  <2>1. /\ camCb = "latch" /\ main \notin {"camPool", "camFill", "capture", "exit"}
        /\ camCb' \in {"copy", "release"} /\ (camCb' = "copy" => held["inp"] > 0)
        /\ latched' = overlay /\ slept' \in BOOLEAN
        /\ UNCHANGED <<main, setup, pools, outCb, work, overlay, drawing, starved>>
    BY <1>16 DEF LatchOverlay, CamStep
  <2> QED  BY <2>1
<1>17. CASE CopyFrame
  BY <1>17 DEF CopyFrame, CamStep
<1>18. CASE SendFrame
  BY <1>18 DEF SendFrame, CamStep, Send
<1>19. CASE ReleaseFrame
  <2>0. held["cam"] = 1 /\ queue["cam"] = 0 /\ "cam" \in created
    BY <1>19 DEF ReleaseFrame, CamStep, Release
  <2>1. held' = [held EXCEPT !["cam"] = 0] /\ queue' = [queue EXCEPT !["cam"] = 1]
    BY <1>19, <2>0 DEF ReleaseFrame, Release
  <2>2. camCb' = "return" /\ UNCHANGED <<main, setup, port, lost, outCb, work, text, starved>>
    BY <1>19 DEF ReleaseFrame, CamStep, Release
  <2>3. camCb = "release" /\ main \notin {"camPool", "camFill", "capture", "exit"}
    BY <1>19 DEF ReleaseFrame, CamStep, Release
  <2> QED  BY <2>0, <2>1, <2>2, <2>3
<1>20. CASE ReturnFrame
  BY <1>20 DEF ReturnFrame, CamStep, GetAndSend, Send
<1>21. CASE EncoderInput
  <2>1. /\ port["inp"] > 0 /\ port' = [port EXCEPT !["inp"] = @ - 1]
        /\ queue' = [queue EXCEPT !["inp"] = @ + 1]
        /\ work' \in 0..MaxWork
        /\ UNCHANGED <<main, setup, held, lost, camCb, outCb, text, starved>>
    BY <1>21 DEF EncoderInput
  <2>2. AccountInv'
    BY <2>1
  <2>3. TypeOK'
    BY <2>1
  <2>4. CamInv' /\ InpInv' /\ OutInv' /\ SetupInv' /\ TextInv'
    BY <2>1
  <2> QED  BY <2>1, <2>2, <2>3, <2>4
<1>22. CASE EncoderOutput
  BY <1>22 DEF EncoderOutput
<1>23. CASE WriteOutput
  BY <1>23 DEF WriteOutput, OutStep
<1>24. CASE ReleaseOutput
  BY <1>24 DEF ReleaseOutput, OutStep, Release
<1>25. CASE ReturnOutput
  <2>1. outCb = "return" /\ outCb' = "idle" /\ main \in OutRunning /\ queue["out"] > 0
        /\ "out" \in created
    BY <1>25 DEF OutStep, ReturnOutput
  <2>2. queue' = [queue EXCEPT !["out"] = @ - 1] /\ starved' = FALSE /\ Send("out")
        /\ UNCHANGED <<main, setup, held, camCb, work, text>>
    BY <1>25, <2>1 DEF ReturnOutput, OutStep, GetAndSend, Send
  <2>3. OutInv'
    BY <2>1, <2>2 DEF Send
  <2>4. left' \in Nat /\ outCb' \in OutSteps
    BY <2>1, <2>2
  <2> QED  BY <2>1, <2>2, <2>3, <2>4, SendOut
<1>26. CASE UNCHANGED vars
  BY <1>26 DEF vars
<1> QED
  BY <1>1, <1>2, <1>3, <1>4, <1>5, <1>6, <1>7, <1>8, <1>9, <1>10, <1>11, <1>12, <1>13,
     <1>14, <1>15, <1>16, <1>17, <1>18, <1>19, <1>20, <1>21, <1>22, <1>23, <1>24, <1>25,
     <1>26 DEF Next, MainStep, CameraCallback, OutputCallback

LEMMA Invariance == Spec => []IInv
<1>1. Init => IInv
  <2> SUFFICES ASSUME Init PROVE IInv
    OBVIOUS
  <2>1. TypeOK
    <3>1. Zero \in [Pool -> Nat]
      BY DEF Zero
    <3>2. queue = Zero /\ port = Zero /\ held = Zero /\ lost = Zero
      BY DEF Init
    <3>3. left \in Nat /\ work \in 0..MaxWork /\ created \subseteq Pool /\ enabled \subseteq created
      BY DEF Init, MaxWork
    <3>4. main \in MainSteps /\ camCb \in CamSteps /\ outCb \in OutSteps
      BY DEF Init, MainSteps, CamSteps, OutSteps
    <3>5. capture \in BOOLEAN /\ slept \in BOOLEAN /\ starved \in BOOLEAN
          /\ overlay \in {0, 1} /\ latched \in {0, 1} /\ drawing \in {0, 1, None}
      BY DEF Init
    <3> QED  BY <3>1, <3>2, <3>3, <3>4, <3>5 DEF TypeOK
  <2>2. CamInv /\ InpInv /\ OutInv
    BY DEF Init, Zero, Pool, CamInv, InpInv, OutInv, Ready, One, Working, OutRunning
  <2>3. SetupInv /\ AccountInv /\ TextInv /\ starved = FALSE
    BY DEF Init, Zero, SetupInv, AccountInv, TextInv, InpRunning, OutRunning
  <2> QED  BY <2>1, <2>2, <2>3 DEF IInv, PoolInv
<1> QED  BY <1>1, NextKeeps, PTL DEF Spec

\* Whatever the sizes of the pools and whichever calls fail, the variables keep
\* their types, no one who returns a buffer to a port finds the queue empty, and
\* no buffer stays behind in a queue once a callback is done.
THEOREM Served == Spec => [](TypeOK /\ NeverStarved /\ NoneParked)
<1>1. IInv => TypeOK /\ NeverStarved
  BY DEF IInv, NeverStarved
<1>2. IInv => NoneParked
  <2> SUFFICES ASSUME IInv PROVE NoneParked
    OBVIOUS
  <2>1. ASSUME main \notin {"camPool", "camFill", "exit"}, camCb = "idle"
        PROVE  port["cam"] + lost["cam"] = Size["cam"]
    <3>1. queue["cam"] = 0 /\ held["cam"] = 0 /\ "cam" \in created
      BY <2>1 DEF IInv, PoolInv, CamInv, SetupInv, TypeOK, One, Working
    <3> QED  BY <3>1, SizeAssumption DEF IInv, PoolInv, AccountInv, TypeOK, Pool
  <2>2. ASSUME Ready, outCb = "idle"
        PROVE  port["out"] + lost["out"] = Size["out"]
    <3>1. queue["out"] = 0 /\ held["out"] = 0 /\ "out" \in created
      BY <2>2 DEF IInv, PoolInv, OutInv, SetupInv, TypeOK, One, OutRunning, Ready
    <3> QED  BY <3>1, SizeAssumption DEF IInv, PoolInv, AccountInv, TypeOK, Pool
  <2> QED  BY <2>1, <2>2 DEF NoneParked
<1> QED  BY <1>1, <1>2, Invariance, PTL

\* Type correctness on its own, for pools of any size and whichever calls fail.
THEOREM VideoTypes == Spec => []TypeOK
  BY Served, PTL

\* The callbacks and fill_port_buffer, which take buffers from one queue, always
\* find the one they are about to send.
THEOREM AlwaysABuffer == Spec => []NeverStarved
  BY Served, PTL

-----------------------------------------------------------------------------
\* A copy works on the latest text, or main has swapped the buffers since and is
\* still in the sleep after that, or has slept.
CopyInv == camCb = "copy" /\ latched # overlay => main = "sleep" \/ slept

LEMMA CopyStep == ASSUME IInv, CopyInv, [Next]_vars PROVE CopyInv'
<1> USE DEF CopyInv, setup, pools, text, Alive
<1>1. CASE UNCHANGED vars
  BY <1>1 DEF vars
<1>2. CASE MainStep \/ SetupFails
  BY <1>2 DEF SetupFails, MainStep, SetupStep, SetupCamera, StartCapture, CreateInputPool,
     EnableInput, CreateOutputPool, EnableOutput, SetupPreview, FillPort, DrawStep, DrawOverlay,
     FlipOverlay, Sleep
<1>3. CASE CameraFrame \/ CameraCallback
  BY <1>3 DEF CameraFrame, CameraCallback, CamStep, GetEncoderBuffer, LatchOverlay, CopyFrame,
     SendFrame, ReleaseFrame, ReturnFrame
<1>4. CASE EncoderInput \/ EncoderOutput \/ OutputCallback
  BY <1>4 DEF EncoderInput, EncoderOutput, OutputCallback, OutStep, WriteOutput, ReleaseOutput,
     ReturnOutput
<1> QED  BY <1>1, <1>2, <1>3, <1>4 DEF Next

\* Two overlay buffers are enough for every copy shorter than main's usleep of 30 ms:
\* before main has swapped them and slept for a whole usleep since the callback made
\* its choice, the callback never reads the buffer main draws to.
THEOREM TextSteady == Spec => []SteadyText
<1>1. Init => CopyInv
  BY DEF Init, CopyInv
<1>2. CopyInv /\ IInv /\ [Next]_vars => CopyInv'
  BY CopyStep
<1>3. IInv /\ CopyInv => SteadyText
  BY DEF IInv, TypeOK, TextInv, CopyInv, SteadyText, None
<1> QED  BY <1>1, <1>2, <1>3, Invariance, PTL DEF Spec
=============================================================================
