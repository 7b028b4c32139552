---------------------------- MODULE FrameProofs ----------------------------
(* Proofs about FrameThreads, for any number of threads and packets and any *)
(* codec.                                                                   *)
EXTENDS FrameThreads, TLAPS

\* How far thread t is from next_finished on the ring.
Dist(t) == IF t >= next_finished THEN t - next_finished ELSE t - next_finished + ThreadCount

\* The packet of t has not come back; t still has something to do or to give back.
Live(t) == avpkt[t] > delivered
Inside(t) == Live(t) \/ state[t] # "INPUT_READY"

\* The thread that has the last packet.
Latest == IF main = "serve" THEN at ELSE prev_thread

Submitting == {"lock", "release", "submit", "serve"}

\* Where Main is on the ring.
PlaceInv ==
  /\ main \in Submitting => at = next_decoding
  /\ main \in Submitting \cup {"collect"} => call \in {"packet", "drain"}
  /\ main # "collect" => next_decoding \in Thread
  /\ main = "collect" /\ call = "packet" => ~ delaying /\ prev_thread # None
  /\ prev_thread = None => next_decoding = 0 /\ next_finished = 0
  /\ main # "serve" /\ prev_thread # None => Wrap(next_decoding) = Wrap(prev_thread + 1)
  /\ delaying => next_finished <= next_decoding /\ next_decoding \in Thread

\* What is inside lies between next_finished and the last packet.
RingInv ==
  /\ \A t \in Thread : Inside(t) => Latest # None /\ Dist(t) <= Dist(Latest)
  /\ next_decoding = next_finished /\ main # "serve" /\ (main = "collect" => delaying)
       => \A t \in Thread : ~ Inside(t)
  /\ main = "collect" => \A t \in Thread : Dist(t) < Dist(at) => ~ Inside(t)
  /\ main = "park" => \A t \in Thread : t < at => state[t] = "INPUT_READY"
  /\ main = "create" => \A t \in Thread : state[t] = "INPUT_READY"

\* The packets inside are the last ones, in the order of the ring.
PacketInv ==
  /\ delivered <= accepted
  /\ \A k \in Nat : delivered < k /\ k <= accepted => \E t \in Thread : avpkt[t] = k
  /\ \A t \in Thread :
       /\ avpkt[t] <= accepted
       /\ Live(t) => accepted - avpkt[t] <= Dist(Latest) - Dist(t)
       /\ got_frame[t] => Live(t)
       /\ state[t] # "INPUT_READY" => Live(t)
  /\ \A t, u \in Thread : Live(t) /\ Live(u) /\ Dist(t) < Dist(u) => avpkt[t] < avpkt[u]

SettingUp(t) == state[t] \in {"SETTING_UP"} \cup Request

\* Where a worker is and what its state says.
StateInv ==
  \A t \in Thread :
    /\ worker[t] = "setup" => state[t] = "SETTING_UP"
    /\ worker[t] = "request" => SettingUp(t)
    /\ worker[t] \in {"decode", "finish"} => state[t] = "SETUP_FINISHED"
    /\ worker[t] \in {"none", "input", "loop", "dead"} => state[t] \in {"INPUT_READY", "SETTING_UP"}
    /\ SettingUp(t) /\ ~ codec.safe => main = "serve" /\ at = t
    /\ state[t] \in Request => ~ codec.safe

\* Only the last packet is being set up, and its context is the last one.
SetupInv ==
  /\ \A t \in Thread : SettingUp(t) => t = Latest
  /\ Latest # None /\ SettingUp(Latest) => avpkt[Latest] = accepted
  /\ ~ stale /\ Latest = None => setups[0] = accepted
  /\ ~ stale /\ Latest # None =>
       setups[Latest] = IF SettingUp(Latest) THEN accepted - 1 ELSE accepted

IInv == TypeOK /\ PlaceInv /\ RingInv /\ PacketInv /\ StateInv /\ SetupInv

Agent == Thread \cup {Main}
WaitSet == Cond \cup {Nothing}

-----------------------------------------------------------------------------
(* Facts about the operators *)

LEMMA SleepType ==
  ASSUME TypeOK, NEW a \in Agent, NEW c \in WaitSet, Sleep(a, c)
  PROVE  waits' \in [Agent -> WaitSet]
BY DEF TypeOK, Sleep, Agent, WaitSet

LEMMA WokenType ==
  ASSUME TypeOK, NEW S
  PROVE  Woken(S) \in [Agent -> WaitSet]
BY DEF TypeOK, Woken, Agent, WaitSet

LEMMA SignalType ==
  ASSUME TypeOK, NEW c, Signal(c)
  PROVE  waits' \in [Agent -> WaitSet]
<1>1. waits \in [Agent -> WaitSet]
  BY DEF TypeOK, Agent, WaitSet
<1> QED BY <1>1, WokenType DEF Signal

LEMMA DistType ==
  ASSUME next_finished \in Thread, NEW t \in Thread
  PROVE  Dist(t) \in 0 .. ThreadCount - 1 /\ Dist(t) \in Int
BY FrameAssumption DEF Dist, Thread

LEMMA DistInjective ==
  ASSUME next_finished \in Thread, NEW t \in Thread, NEW u \in Thread, Dist(t) = Dist(u)
  PROVE  t = u
BY FrameAssumption DEF Dist, Thread

\* One step further on the ring.
LEMMA DistNext ==
  ASSUME next_finished \in Thread, NEW t \in Thread
  PROVE  /\ Wrap(t + 1) \in Thread
         /\ Wrap(t + 1) # next_finished => Dist(Wrap(t + 1)) = Dist(t) + 1
         /\ Wrap(t + 1) = next_finished => Dist(t) = ThreadCount - 1
BY FrameAssumption DEF Dist, Thread, Wrap

LEMMA DistFirst ==
  ASSUME next_finished \in Thread
  PROVE  Dist(next_finished) = 0
BY FrameAssumption DEF Dist, Thread

LEMMA WrapInjective ==
  ASSUME NEW t \in Thread, NEW u \in Thread, Wrap(t + 1) = Wrap(u + 1)
  PROVE  t = u
BY FrameAssumption DEF Thread, Wrap

\* The ring seen from the thread after u.
LEMMA DistMove ==
  ASSUME next_finished \in Thread, NEW t \in Thread, NEW u \in Thread,
         next_finished' = Wrap(u + 1)
  PROVE  Dist(t)' = IF Dist(t) > Dist(u) THEN Dist(t) - Dist(u) - 1
                    ELSE Dist(t) - Dist(u) - 1 + ThreadCount
BY FrameAssumption DEF Dist, Thread, Wrap

\* In the place of Wrap(n), for what next_decoding can be.
LEMMA WrapThread ==
  ASSUME NEW n \in Thread
  PROVE  Wrap(n) = n
BY FrameAssumption DEF Thread, Wrap

-----------------------------------------------------------------------------
(* The inductive invariant *)

LEMMA InitInv == Init => IInv
<1> SUFFICES ASSUME Init PROVE IInv
  OBVIOUS
<1> USE FrameAssumption DEF Init
<1>1. 0 \in Thread /\ Main \notin Thread /\ 0 \in 0 .. ThreadCount
  BY DEF Thread, Main
<1>2. TypeOK
  BY <1>1 DEF TypeOK, State
<1>3. \A t \in Thread : ~ Live(t) /\ ~ Inside(t) /\ ~ SettingUp(t)
  BY DEF Live, Inside, SettingUp, Request
<1>4. Latest = None
  BY DEF Latest
<1>5. PlaceInv
  BY <1>1 DEF PlaceInv, Submitting
<1>6. RingInv
  BY <1>3 DEF RingInv
<1>7. PacketInv
  BY <1>3 DEF PacketInv
<1>8. StateInv /\ SetupInv
  BY <1>1, <1>3, <1>4 DEF StateInv, SetupInv, Request
<1> QED BY <1>2, <1>5, <1>6, <1>7, <1>8 DEF IInv

\* A step that moves neither Main nor a packet and hands nothing over.
LEMMA WorkerMove ==
  ASSUME IInv,
         UNCHANGED <<prev_thread, next_decoding, next_finished, delaying, main, call, at,
                     avpkt, accepted, delivered>>,
         \A t \in Thread : state'[t] # "INPUT_READY" => state[t] # "INPUT_READY",
         \A t \in Thread : got_frame'[t] => Live(t)
  PROVE  PlaceInv' /\ RingInv' /\ PacketInv'
<1>1. /\ Latest' = Latest /\ (\A t : Dist(t)' = Dist(t)) /\ Dist(Latest)' = Dist(Latest)
      /\ Dist(at)' = Dist(at)
      /\ \A t \in Thread : (Live(t)' <=> Live(t)) /\ (Inside(t)' => Inside(t))
  BY DEF Latest, Dist, Live, Inside
<1>2. PlaceInv'
  BY DEF IInv, PlaceInv, Wrap
<1>3. RingInv'
  BY <1>1 DEF IInv, RingInv
<1>4. PacketInv'
  BY <1>1 DEF IInv, PacketInv
<1> QED BY <1>2, <1>3, <1>4

\* A step of Main between its calls, or on its way to submit_packet.
LEMMA MainMove ==
  ASSUME IInv, TypeOK', main \notin {"serve", "collect"}, main' # "serve",
         main' = "create" => main = "create",
         main' \in Submitting => at' = next_decoding,
         main' \in Submitting \cup {"collect"} => call' \in {"packet", "drain"},
         main' = "collect" => call' = "drain" /\ at' = next_finished,
         main' = "park" => \A t \in Thread : t < at' => state[t] = "INPUT_READY",
         UNCHANGED <<codec, prev_thread, next_decoding, next_finished, delaying, state, avpkt,
                     accepted, delivered>>,
         stale => stale', \A t \in Thread : got_frame'[t] => got_frame[t],
         \A t \in Thread : worker'[t] # worker[t] => worker'[t] = "input" /\ state[t] = "INPUT_READY",
         prev_thread = None => setups'[0] = setups[0],
         prev_thread # None => setups'[prev_thread] = setups[prev_thread]
  PROVE  IInv'
<1>1. /\ Latest = prev_thread /\ Latest' = prev_thread
      /\ (\A t : Dist(t)' = Dist(t)) /\ Dist(Latest)' = Dist(Latest)
      /\ \A t \in Thread : (Live(t)' <=> Live(t)) /\ (Inside(t)' <=> Inside(t))
                           /\ (SettingUp(t)' <=> SettingUp(t))
      /\ (SettingUp(Latest)' <=> SettingUp(Latest))
  BY DEF Latest, Dist, Live, Inside, SettingUp
<1>2. PlaceInv'
  <2>1. main' # "collect" => next_decoding \in Thread
    BY DEF IInv, PlaceInv
  <2> QED BY <2>1 DEF IInv, PlaceInv, Wrap
<1>3. RingInv'
  <2>1. main' = "collect" => Dist(at)' = 0
    BY <1>1, DistFirst DEF IInv, TypeOK, Dist
  <2>2. \A t \in Thread : Dist(t) \in Int /\ Dist(t) >= 0
    BY DistType, FrameAssumption DEF IInv, TypeOK
  <2> QED BY <1>1, <2>1, <2>2 DEF IInv, RingInv
<1>4. PacketInv'
  BY <1>1 DEF IInv, PacketInv
<1>5. StateInv'
  <2>1. \A t \in Thread : ~ (SettingUp(t) /\ ~ codec.safe)
    BY DEF IInv, StateInv
  <2> QED BY <1>1, <2>1 DEF IInv, StateInv
<1>6. SetupInv'
  BY <1>1 DEF IInv, SetupInv
<1> QED BY <1>2, <1>3, <1>4, <1>5, <1>6 DEF IInv

-----------------------------------------------------------------------------
(* The workers *)

\* The parts of the type invariant that a worker's step can disturb.
LEMMA WorkerTypes ==
  ASSUME TypeOK, UNCHANGED <<codec, stale, order, main, call, at, avpkt, pictures>>,
         waits' \in [Agent -> WaitSet],
         buffer_mutex' \in Thread \cup {None}, state' \in [Thread -> State],
         got_frame' \in [Thread -> BOOLEAN], released_buffers' \in [Thread -> BOOLEAN],
         setups' \in [Thread -> Nat], asked' \in [Thread -> SUBSET Request],
         worker' \in [Thread -> {"none", "input", "loop", "setup", "request", "decode",
                                 "finish", "dead"}]
  PROVE  TypeOK'
BY DEF TypeOK, order, pictures, Agent, WaitSet

\* A step that changes nothing but who sleeps and where a worker is outside its work.
LEMMA IdleStep ==
  ASSUME IInv, TypeOK',
         UNCHANGED <<codec, stale, prev_thread, next_decoding, next_finished, delaying, main, call, at,
                     avpkt, accepted, delivered, state, setups>>,
         \A t \in Thread : got_frame'[t] => Live(t),
         \A t \in Thread :
           \/ worker'[t] = worker[t]
           \/ worker[t] \in {"input", "loop"} /\ worker'[t] \in {"input", "dead"}
           \/ worker[t] \in {"input", "loop"} /\ worker'[t] = "setup" /\ state[t] # "INPUT_READY"
           \/ worker[t] = "decode" /\ worker'[t] = "finish"
           \/ worker[t] = "request" /\ worker'[t] = "setup" /\ state[t] = "SETTING_UP"
  PROVE  IInv'
<1>1. PlaceInv' /\ RingInv' /\ PacketInv'
  BY WorkerMove
<1>2. /\ Latest' = Latest /\ (\A t \in Thread : SettingUp(t)' <=> SettingUp(t))
      /\ (SettingUp(Latest)' <=> SettingUp(Latest))
  BY DEF Latest, SettingUp
<1>3. StateInv'
  <2> SUFFICES ASSUME NEW t \in Thread
               PROVE  /\ worker'[t] = "setup" => state[t] = "SETTING_UP"
                      /\ worker'[t] = "request" => SettingUp(t)
                      /\ worker'[t] \in {"decode", "finish"} => state[t] = "SETUP_FINISHED"
                      /\ worker'[t] \in {"none", "input", "loop", "dead"}
                           => state[t] \in {"INPUT_READY", "SETTING_UP"}
    BY <1>2 DEF IInv, StateInv
  <2> QED BY DEF IInv, StateInv, Request
<1>4. SetupInv'
  BY <1>2 DEF IInv, SetupInv
<1> QED BY <1>1, <1>3, <1>4 DEF IInv

LEMMA LoopStep == ASSUME IInv, NEW t \in Thread, Loop(t) PROVE IInv'
<1>1. /\ worker[t] \in {"input", "loop"}
      /\ UNCHANGED <<codec, stale, order, buffer_mutex, state, avpkt, released_buffers, setups, asked,
                     main, call, at, pictures>>
  BY DEF Loop
<1>2. PICK l \in {"dead", "input", "setup"} :
        /\ worker' = [worker EXCEPT ![t] = l]
        /\ l = "setup" => state[t] # "INPUT_READY"
        /\ waits' = waits \/ Sleep(t, <<"input", t>>)
        /\ got_frame' = got_frame \/ got_frame' = [got_frame EXCEPT ![t] = FALSE]
  BY DEF Loop, Go
<1>3. waits' \in [Agent -> WaitSet]
  <2>1. t \in Agent /\ <<"input", t>> \in WaitSet
    BY DEF Agent, WaitSet, Cond
  <2> QED BY <1>2, <2>1, SleepType DEF IInv, TypeOK, Agent, WaitSet
<1>4. got_frame' \in [Thread -> BOOLEAN] /\ \A u \in Thread : got_frame'[u] => got_frame[u]
  BY <1>2 DEF IInv, TypeOK
<1>5. /\ worker' \in [Thread -> {"none", "input", "loop", "setup", "request", "decode",
                                 "finish", "dead"}]
      /\ worker'[t] = l /\ \A u \in Thread : u # t => worker'[u] = worker[u]
  BY <1>2 DEF IInv, TypeOK
<1>6. TypeOK'
  <2>1. TypeOK
    BY DEF IInv
  <2>2. /\ buffer_mutex' \in Thread \cup {None} /\ state' \in [Thread -> State]
        /\ released_buffers' \in [Thread -> BOOLEAN]
        /\ setups' \in [Thread -> Nat] /\ asked' \in [Thread -> SUBSET Request]
    BY <1>1, <2>1 DEF TypeOK
  <2> QED BY <1>1, <1>3, <1>4, <1>5, <2>1, <2>2, WorkerTypes
<1>7. \A u \in Thread : got_frame'[u] => Live(u)
  BY <1>4 DEF IInv, PacketInv
<1> QED BY <1>1, <1>2, <1>5, <1>6, <1>7, IdleStep DEF order, pictures

\* Worker t moves on in its setup; its state stays one of the setup, or ends it with
\* the context of its packet.
LEMMA SetupStep ==
  ASSUME IInv, TypeOK', NEW t \in Thread, NEW l, NEW s,
         UNCHANGED <<codec, stale, prev_thread, next_decoding, next_finished, delaying, main, call, at,
                     avpkt, got_frame, accepted, delivered>>,
         worker' = [worker EXCEPT ![t] = l], state' = [state EXCEPT ![t] = s],
         SettingUp(t),
         \/ /\ l \in {"request", worker[t]} /\ s \in {"SETTING_UP"} \cup Request
            /\ s \in Request => ~ codec.safe
            /\ worker[t] \in {"setup", "request"} /\ (l = "setup" => s = "SETTING_UP")
            /\ setups' = setups
         \/ /\ l = "decode" /\ s = "SETUP_FINISHED"
            /\ setups' = [setups EXCEPT ![t] = avpkt[t]]
  PROVE  IInv'
<1>1. /\ worker'[t] = l /\ state'[t] = s
      /\ \A u \in Thread : u # t => worker'[u] = worker[u] /\ state'[u] = state[u]
  BY DEF IInv, TypeOK
<1>2. PlaceInv' /\ RingInv' /\ PacketInv'
  <2>1. state[t] # "INPUT_READY"
    BY DEF SettingUp, Request
  <2>2. \A u \in Thread : state'[u] # "INPUT_READY" => state[u] # "INPUT_READY"
    BY <1>1, <2>1
  <2>3. \A u \in Thread : got_frame'[u] => Live(u)
    BY DEF IInv, PacketInv
  <2> QED BY <2>2, <2>3, WorkerMove
<1>3. /\ Latest' = Latest /\ t = Latest
      /\ \A u \in Thread : u # t => (SettingUp(u)' <=> SettingUp(u))
  BY <1>1 DEF Latest, SettingUp, IInv, SetupInv
<1>4. SettingUp(t)' <=> s \in {"SETTING_UP"} \cup Request
  BY <1>1 DEF SettingUp
<1>5. StateInv'
  <2> SUFFICES ASSUME NEW u \in Thread
               PROVE  /\ worker'[u] = "setup" => state'[u] = "SETTING_UP"
                      /\ worker'[u] = "request" => SettingUp(u)'
                      /\ worker'[u] \in {"decode", "finish"} => state'[u] = "SETUP_FINISHED"
                      /\ worker'[u] \in {"none", "input", "loop", "dead"}
                           => state'[u] \in {"INPUT_READY", "SETTING_UP"}
                      /\ SettingUp(u)' /\ ~ codec.safe => main = "serve" /\ at = u
                      /\ state'[u] \in Request => ~ codec.safe
    BY DEF StateInv
  <2>1. CASE u # t
    BY <2>1, <1>1, <1>3 DEF IInv, StateInv
  <2>2. CASE u = t
    <3>1. ~ codec.safe => main = "serve" /\ at = t
      BY DEF IInv, StateInv
    <3> QED BY <2>2, <3>1, <1>1, <1>4 DEF Request
  <2> QED BY <2>1, <2>2
<1>6. SetupInv'
  <2>1. \A u \in Thread : SettingUp(u)' => u = Latest'
    BY <1>3 DEF IInv, SetupInv
  <2>2. Latest # None /\ Latest \in Thread
    BY <1>3, FrameAssumption DEF Thread, None
  <2>3. avpkt[t] = accepted /\ (~ stale => setups[t] = accepted - 1)
    BY <1>3, <2>2 DEF IInv, SetupInv
  <2>4. ~ stale => setups'[t] = IF SettingUp(t)' THEN accepted - 1 ELSE accepted
    <3>1. CASE setups' = setups /\ SettingUp(t)'
      BY <2>3, <3>1
    <3>2. CASE s = "SETUP_FINISHED" /\ setups' = [setups EXCEPT ![t] = avpkt[t]]
      <4>1. ~ SettingUp(t)' /\ setups'[t] = avpkt[t]
        BY <3>2, <1>4 DEF IInv, TypeOK, Request
      <4> QED BY <4>1, <2>3
    <3> QED BY <3>1, <3>2, <1>4
  <2>5. (SettingUp(Latest)' <=> SettingUp(t)') /\ avpkt'[Latest'] = avpkt[t]
        /\ setups'[Latest'] = setups'[t]
    BY <1>3 DEF SettingUp
  <2> QED BY <2>1, <2>2, <2>3, <2>4, <2>5, <1>3 DEF SetupInv
<1> QED BY <1>2, <1>5, <1>6 DEF IInv

\* FinishSetup as SetupStep sees it.
LEMMA FinishSetupStep ==
  ASSUME IInv, NEW t \in Thread, SettingUp(t), FinishSetup(t),
         buffer_mutex' \in Thread \cup {None},
         UNCHANGED <<codec, stale, order, avpkt, got_frame, released_buffers, main, call, at, pictures>>
  PROVE  IInv'
<1> USE DEF FinishSetup, Go
<1>1. waits' \in [Agent -> WaitSet]
  BY WokenType DEF IInv
<1>2. /\ state' \in [Thread -> State] /\ setups' \in [Thread -> Nat]
      /\ asked' \in [Thread -> SUBSET Request]
      /\ worker' \in [Thread -> {"none", "input", "loop", "setup", "request", "decode",
                                 "finish", "dead"}]
      /\ got_frame' \in [Thread -> BOOLEAN] /\ released_buffers' \in [Thread -> BOOLEAN]
  <2>1. TypeOK
    BY DEF IInv
  <2>2. "SETUP_FINISHED" \in State
    BY DEF State
  <2>3. state' \in [Thread -> State]
    BY <2>1, <2>2 DEF TypeOK
  <2> QED BY <2>1, <2>3 DEF TypeOK
<1>3. TypeOK'
  BY <1>1, <1>2, WorkerTypes DEF IInv
<1> QED BY <1>3, SetupStep DEF order, pictures

LEMMA AskStep == ASSUME IInv, NEW t \in Thread, NEW r \in Request, Ask(t, r) PROVE IInv'
<1>1. /\ worker[t] = "setup" /\ ~ codec.safe /\ state[t] = "SETTING_UP"
      /\ asked' = [asked EXCEPT ![t] = @ \cup {r}]
      /\ buffer_mutex' \in {buffer_mutex, t}
      /\ state' = [state EXCEPT ![t] = r] /\ worker' = [worker EXCEPT ![t] = "request"]
      /\ waits' = [Woken(Sleepers(<<"progress", t>>)) EXCEPT ![t] = <<"progress", t>>]
      /\ UNCHANGED <<codec, stale, order, avpkt, got_frame, released_buffers, setups, main, call,
                     at, pictures>>
  BY DEF Ask, Go
<1>2. waits' \in [Agent -> WaitSet]
  <2>1. Woken(Sleepers(<<"progress", t>>)) \in [Agent -> WaitSet]
    BY WokenType DEF IInv
  <2>2. t \in Agent /\ <<"progress", t>> \in WaitSet
    BY DEF Agent, WaitSet, Cond
  <2> QED BY <1>1, <2>1, <2>2
<1>3. TypeOK'
  <2>1. TypeOK
    BY DEF IInv
  <2>2. r \in State
    BY DEF State
  <2>3. /\ state' \in [Thread -> State] /\ setups' \in [Thread -> Nat]
        /\ asked' \in [Thread -> SUBSET Request] /\ buffer_mutex' \in Thread \cup {None}
        /\ worker' \in [Thread -> {"none", "input", "loop", "setup", "request", "decode",
                                   "finish", "dead"}]
        /\ got_frame' \in [Thread -> BOOLEAN] /\ released_buffers' \in [Thread -> BOOLEAN]
    <3>1. state' \in [Thread -> State]
      BY <1>1, <2>1, <2>2 DEF TypeOK
    <3>2. asked' \in [Thread -> SUBSET Request]
      BY <1>1, <2>1 DEF TypeOK
    <3> QED BY <3>1, <3>2, <1>1, <2>1 DEF TypeOK
  <2> QED BY <1>1, <1>2, <2>1, <2>3, WorkerTypes
<1>4. SettingUp(t) /\ r \in {"SETTING_UP"} \cup Request
  BY <1>1 DEF SettingUp
<1> QED BY <1>1, <1>3, <1>4, SetupStep DEF order, pictures

LEMMA GrantedStep == ASSUME IInv, NEW t \in Thread, Granted(t) PROVE IInv'
<1>1. /\ worker[t] = "request"
      /\ UNCHANGED <<codec, stale, order, avpkt, got_frame, released_buffers, main, call, at, pictures>>
  BY DEF Granted
<1>2. TypeOK /\ \A u \in Thread : got_frame'[u] => Live(u)
  BY <1>1 DEF IInv, PacketInv
<1>3. CASE /\ Sleep(t, <<"progress", t>>)
           /\ UNCHANGED <<state, setups, asked, worker, buffer_mutex>>
  <2>1. t \in Agent /\ <<"progress", t>> \in WaitSet
    BY DEF Agent, WaitSet, Cond
  <2>2. waits' \in [Agent -> WaitSet]
    BY <1>2, <1>3, <2>1, SleepType
  <2>3. TypeOK'
    BY <1>1, <1>2, <1>3, <2>2, WorkerTypes DEF TypeOK
  <2> QED BY <1>1, <1>2, <1>3, <2>3, IdleStep DEF order, pictures
<1>4. CASE state[t] = "SETTING_UP" /\ buffer_mutex' = IF buffer_mutex = t THEN None ELSE buffer_mutex
  <2>1. buffer_mutex' \in Thread \cup {None}
    BY <1>2, <1>4 DEF TypeOK
  <2>2. CASE FinishSetup(t)
    BY <1>1, <1>4, <2>1, <2>2, FinishSetupStep DEF SettingUp
  <2>3. CASE Go(t, "setup") /\ UNCHANGED <<state, setups, asked, waits>>
    <3>1. /\ worker' \in [Thread -> {"none", "input", "loop", "setup", "request", "decode",
                                     "finish", "dead"}]
          /\ worker'[t] = "setup" /\ \A u \in Thread : u # t => worker'[u] = worker[u]
      BY <1>2, <2>3 DEF Go, TypeOK
    <3>2. waits' \in [Agent -> WaitSet]
      BY <1>2, <2>3 DEF TypeOK, Agent, WaitSet
    <3>3. TypeOK'
      BY <1>1, <1>2, <2>1, <2>3, <3>1, <3>2, WorkerTypes DEF TypeOK
    <3> QED BY <1>1, <1>2, <1>4, <2>3, <3>1, <3>3, IdleStep DEF order, pictures
  <2> QED BY <1>3, <1>4, <2>2, <2>3 DEF Granted
<1> QED BY <1>3, <1>4 DEF Granted

LEMMA SetUpStep == ASSUME IInv, NEW t \in Thread, SetUp(t) PROVE IInv'
<1>1. SettingUp(t)
  BY DEF SetUp, IInv, StateInv, SettingUp
<1>2. buffer_mutex' \in Thread \cup {None}
  BY DEF SetUp, IInv, TypeOK
<1> QED BY <1>1, <1>2, FinishSetupStep DEF SetUp

\* A step that changes only who sleeps.
LEMMA SleepStep ==
  ASSUME IInv, waits' \in [Agent -> WaitSet],
         UNCHANGED <<codec, stale, order, threads, main, call, at, worker, pictures>>
  PROVE  IInv'
<1>1. UNCHANGED <<buffer_mutex, state, avpkt, got_frame, released_buffers, setups, asked>>
  BY DEF threads
<1>2. TypeOK /\ \A u \in Thread : got_frame'[u] => Live(u)
  BY <1>1 DEF IInv, PacketInv
<1>3. TypeOK'
  BY <1>1, <1>2, WorkerTypes DEF TypeOK
<1> QED BY <1>1, <1>2, <1>3, IdleStep DEF order, pictures

LEMMA ReleaseBufferStep == ASSUME IInv, NEW t \in Thread, ReleaseBuffer(t) PROVE IInv'
<1>1. /\ released_buffers' = [released_buffers EXCEPT ![t] = TRUE]
      /\ UNCHANGED <<codec, stale, order, buffer_mutex, state, avpkt, got_frame, setups, asked,
                     main, call, at, worker, waits, pictures>>
  BY DEF ReleaseBuffer
<1>2. TypeOK /\ \A u \in Thread : got_frame'[u] => Live(u)
  BY <1>1 DEF IInv, PacketInv
<1>3. TypeOK'
  <2>1. released_buffers' \in [Thread -> BOOLEAN] /\ waits' \in [Agent -> WaitSet]
    BY <1>1, <1>2 DEF TypeOK, Agent, WaitSet
  <2> QED BY <1>1, <1>2, <2>1, WorkerTypes DEF TypeOK
<1> QED BY <1>1, <1>2, <1>3, IdleStep DEF order, pictures

LEMMA AwaitProgressStep == ASSUME IInv, NEW t \in Thread, AwaitProgress(t) PROVE IInv'
<1>1. PICK owner \in Thread : Sleep(t, <<"progress", owner>>)
  BY DEF AwaitProgress
<1>2. t \in Agent /\ <<"progress", owner>> \in WaitSet
  BY DEF Agent, WaitSet, Cond
<1>3. waits' \in [Agent -> WaitSet]
  BY <1>1, <1>2, SleepType DEF IInv
<1> QED BY <1>3, SleepStep DEF AwaitProgress

LEMMA ReportProgressStep == ASSUME IInv, NEW t \in Thread, ReportProgress(t) PROVE IInv'
<1>1. /\ worker[t] = "decode" /\ worker' = [worker EXCEPT ![t] = "finish"]
      /\ waits' = Woken(Sleepers(<<"progress", t>>))
      /\ UNCHANGED <<codec, stale, order, buffer_mutex, state, avpkt, got_frame, released_buffers,
                     setups, asked, main, call, at, pictures>>
  BY DEF ReportProgress, Go, threads
<1>2. TypeOK /\ \A u \in Thread : got_frame'[u] => Live(u)
  BY <1>1 DEF IInv, PacketInv
<1>3. waits' \in [Agent -> WaitSet]
  BY <1>1, <1>2, WokenType
<1>4. /\ worker' \in [Thread -> {"none", "input", "loop", "setup", "request", "decode",
                                 "finish", "dead"}]
      /\ worker'[t] = "finish" /\ \A u \in Thread : u # t => worker'[u] = worker[u]
  BY <1>1, <1>2 DEF TypeOK
<1>5. TypeOK'
  BY <1>1, <1>2, <1>3, <1>4, WorkerTypes DEF TypeOK
<1> QED BY <1>1, <1>2, <1>4, <1>5, IdleStep DEF order, pictures

LEMMA SpuriousStep == ASSUME IInv, SpuriousWakeup PROVE IInv'
<1>1. waits' \in [Agent -> WaitSet]
  BY WokenType DEF SpuriousWakeup, IInv
<1> QED BY <1>1, SleepStep DEF SpuriousWakeup

LEMMA WaitStep == ASSUME IInv, Wait PROVE IInv'
<1>1. Main \in Agent /\ <<"output", at>> \in WaitSet
  BY DEF Agent, WaitSet, Cond, IInv, TypeOK
<1>2. waits' \in [Agent -> WaitSet]
  BY <1>1, SleepType DEF Wait, AwaitOutput, IInv
<1> QED BY <1>2, SleepStep DEF Wait

LEMMA FinishStep == ASSUME IInv, NEW t \in Thread, Finish(t) PROVE IInv'
<1>1. PICK got \in BOOLEAN :
        /\ worker[t] = "finish"
        /\ got_frame' = [got_frame EXCEPT ![t] = got]
        /\ state' = [state EXCEPT ![t] = "INPUT_READY"]
        /\ worker' = [worker EXCEPT ![t] = "loop"]
        /\ waits' = Woken(Sleepers(<<"progress", t>>) \cup Sleepers(<<"output", t>>))
        /\ UNCHANGED <<codec, stale, order, buffer_mutex, avpkt, released_buffers, setups, asked,
                       main, call, at, pictures>>
  BY DEF Finish, Go
<1>2. TypeOK
  BY DEF IInv
<1>3. waits' \in [Agent -> WaitSet]
  BY <1>1, <1>2, WokenType
<1>4. /\ worker' \in [Thread -> {"none", "input", "loop", "setup", "request", "decode",
                                 "finish", "dead"}]
      /\ worker'[t] = "loop" /\ \A u \in Thread : u # t => worker'[u] = worker[u]
  BY <1>1, <1>2 DEF TypeOK
<1>5. /\ state' \in [Thread -> State] /\ state'[t] = "INPUT_READY"
      /\ \A u \in Thread : u # t => state'[u] = state[u]
  BY <1>1, <1>2 DEF TypeOK, State
<1>6. /\ got_frame' \in [Thread -> BOOLEAN] /\ got_frame'[t] = got
      /\ \A u \in Thread : u # t => got_frame'[u] = got_frame[u]
  BY <1>1, <1>2 DEF TypeOK
<1>7. TypeOK'
  <2>1. /\ buffer_mutex' \in Thread \cup {None} /\ released_buffers' \in [Thread -> BOOLEAN]
        /\ setups' \in [Thread -> Nat] /\ asked' \in [Thread -> SUBSET Request]
    BY <1>1, <1>2 DEF TypeOK
  <2> QED BY <1>1, <1>2, <1>3, <1>4, <1>5, <1>6, <2>1, WorkerTypes
<1>8. state[t] = "SETUP_FINISHED"
  BY <1>1 DEF IInv, StateInv
<1>9. PlaceInv' /\ RingInv' /\ PacketInv'
  <2>1. Live(t)
    BY <1>8 DEF IInv, PacketInv
  <2>2. \A u \in Thread : got_frame'[u] => Live(u)
    BY <2>1, <1>1, <1>6 DEF IInv, PacketInv
  <2>3. \A u \in Thread : state'[u] # "INPUT_READY" => state[u] # "INPUT_READY"
    BY <1>5
  <2> QED BY <2>2, <2>3, <1>1, WorkerMove DEF order, pictures
<1>10. Latest' = Latest /\ \A u \in Thread : SettingUp(u)' <=> SettingUp(u)
  BY <1>1, <1>5, <1>8 DEF Latest, SettingUp, Request, order
<1>11. StateInv'
  BY <1>1, <1>4, <1>5, <1>10 DEF IInv, StateInv, Request
<1>12. SetupInv'
  <2>1. Latest # None => Latest \in Thread
    BY <1>2 DEF Latest, TypeOK
  <2>2. Latest # None => (SettingUp(Latest)' <=> SettingUp(Latest))
    BY <2>1, <1>10 DEF SettingUp
  <2> QED BY <2>1, <2>2, <1>1, <1>10 DEF IInv, SetupInv, pictures
<1> QED BY <1>7, <1>9, <1>11, <1>12 DEF IInv

LEMMA ServeStep == ASSUME IInv, Serve PROVE IInv'
<1>1. /\ main = "serve" /\ ~ codec.safe
      /\ UNCHANGED <<codec, stale, order, buffer_mutex, avpkt, got_frame, released_buffers, setups,
                     asked, main, call, at, worker, pictures>>
  BY DEF Serve, MainAt
<1>2. TypeOK
  BY DEF IInv
<1>3. CASE Sleep(Main, <<"progress", at>>) /\ UNCHANGED state
  <2>1. Main \in Agent /\ <<"progress", at>> \in WaitSet
    BY <1>2 DEF Agent, WaitSet, Cond, TypeOK
  <2>2. waits' \in [Agent -> WaitSet]
    BY <1>2, <1>3, <2>1, SleepType
  <2> QED BY <1>1, <1>3, <2>2, SleepStep DEF threads
<1>4. CASE state[at] \in Request /\ Grant
  <2>1. waits' \in [Agent -> WaitSet]
    BY <1>2, <1>4, SignalType DEF Grant
  <2>0. PICK t \in Thread : at = t
    BY <1>2 DEF TypeOK
  <2>2. state' = [state EXCEPT ![t] = "SETTING_UP"] /\ state' \in [Thread -> State]
    BY <1>2, <1>4, <2>0 DEF Grant, TypeOK, State
  <2>3. TypeOK'
    BY <1>1, <1>2, <2>1, <2>2, WorkerTypes DEF TypeOK
  <2>4. worker[t] = "request" /\ SettingUp(t)
    BY <1>2, <1>4, <2>0 DEF TypeOK, IInv, StateInv, SettingUp, Request
  <2>5. worker' = [worker EXCEPT ![t] = worker[t]]
    BY <1>1, <1>2 DEF TypeOK
  <2>6. "SETTING_UP" \notin Request
    BY DEF Request
  <2> QED BY <1>1, <2>1, <2>2, <2>3, <2>4, <2>5, <2>6, SetupStep DEF order, pictures
<1> QED BY <1>3, <1>4 DEF Serve

-----------------------------------------------------------------------------
(* Main between its calls *)

\* The parts of the type invariant that a step of MainMove can disturb.
LEMMA MainTypes ==
  ASSUME TypeOK, UNCHANGED <<codec, prev_thread, next_decoding, next_finished, delaying,
                             buffer_mutex, state, avpkt, asked, pictures>>,
         die' \in BOOLEAN, waits' \in [Agent -> WaitSet],
         main' = "user" => next_decoding \in Thread,
         main' \in {"create", "user", "lock", "release", "submit", "serve", "collect", "park",
                    "kill", "join", "freed"},
         call' \in {"none", "packet", "drain", "flush", "free"}, at' \in Thread,
         got_frame' \in [Thread -> BOOLEAN], released_buffers' \in [Thread -> BOOLEAN],
         setups' \in [Thread -> Nat], stale' \in BOOLEAN,
         worker' \in [Thread -> {"none", "input", "loop", "setup", "request", "decode",
                                 "finish", "dead"}]
  PROVE  TypeOK'
BY DEF TypeOK, pictures, Agent, WaitSet

\* Main moves and leaves the threads alone.
LEMMA MainOnly ==
  ASSUME IInv, main \notin {"serve", "collect"}, main' # "serve",
         main' = "create" => main = "create",
         main' \in {"create", "user", "lock", "release", "submit", "collect", "park",
                    "kill", "join", "freed"},
         call' \in {"none", "packet", "drain", "flush", "free"}, at' \in Thread,
         main' \in Submitting => at' = next_decoding,
         main' \in Submitting \cup {"collect"} => call' \in {"packet", "drain"},
         main' = "collect" => call' = "drain" /\ at' = next_finished,
         main' = "park" => at' = 0,
         UNCHANGED <<codec, stale, order, buffer_mutex, state, avpkt, got_frame, setups, asked, worker,
                     pictures>>,
         released_buffers' \in [Thread -> BOOLEAN], waits' \in [Agent -> WaitSet]
  PROVE  IInv'
<1>1. TypeOK /\ next_decoding \in Thread
  BY DEF IInv, PlaceInv
<1>2. UNCHANGED <<prev_thread, next_decoding, next_finished, delaying, die, accepted, delivered>>
  BY DEF order, pictures
<1>3. TypeOK'
  <2>1. /\ die' \in BOOLEAN /\ got_frame' \in [Thread -> BOOLEAN] /\ setups' \in [Thread -> Nat]
        /\ worker' \in [Thread -> {"none", "input", "loop", "setup", "request", "decode",
                                   "finish", "dead"}]
        /\ stale' \in BOOLEAN
    BY <1>1, <1>2 DEF TypeOK
  <2> QED BY <2>1, <1>1, <1>2, MainTypes
<1>4. \A t \in Thread : ~ (t < 0)
  BY FrameAssumption DEF Thread
<1> QED BY <1>2, <1>3, <1>4, MainMove

LEMMA ZeroThread == 0 \in Thread /\ None \notin Thread
BY FrameAssumption DEF Thread, None

LEMMA DecodeCallStep == ASSUME IInv, DecodeCall PROVE IInv'
<1>1. /\ main = "user" /\ UNCHANGED <<codec, stale, order, threads, worker, waits, pictures>>
      /\ call' \in {"packet", "drain"}
      /\ \/ main' = "lock" /\ at' = next_decoding
         \/ main' = "collect" /\ at' = next_finished /\ call' = "drain"
  BY DEF DecodeCall, Enter
<1>2. TypeOK /\ next_decoding \in Thread /\ next_finished \in Thread
  BY <1>1 DEF IInv, TypeOK
<1>3. waits' \in [Agent -> WaitSet] /\ released_buffers' \in [Thread -> BOOLEAN]
  BY <1>1, <1>2 DEF TypeOK, threads, Agent, WaitSet
<1> QED BY <1>1, <1>2, <1>3, MainOnly DEF threads, Submitting

LEMMA FlushOrFreeStep == ASSUME IInv, FlushOrFreeCall PROVE IInv'
<1>1. /\ main = "user" /\ main' = "park" /\ call' \in {"flush", "free"} /\ at' = 0
      /\ UNCHANGED <<codec, stale, order, threads, worker, waits, pictures>>
  BY DEF FlushOrFreeCall, Enter
<1>2. waits' \in [Agent -> WaitSet] /\ released_buffers' \in [Thread -> BOOLEAN]
  BY <1>1 DEF IInv, TypeOK, threads, Agent, WaitSet
<1> QED BY <1>1, <1>2, ZeroThread, MainOnly DEF threads, Submitting

LEMMA LockStep == ASSUME IInv, Lock PROVE IInv'
<1>1. /\ main = "lock" /\ main' = "release" /\ at' = at /\ call' = call
      /\ UNCHANGED <<codec, stale, order, threads, worker, waits, pictures>>
  BY DEF Lock
<1>2. waits' \in [Agent -> WaitSet] /\ released_buffers' \in [Thread -> BOOLEAN]
  BY <1>1 DEF IInv, TypeOK, threads, Agent, WaitSet
<1>3. at = next_decoding /\ call \in {"packet", "drain"} /\ at \in Thread
  BY <1>1 DEF IInv, TypeOK, PlaceInv, Submitting
<1> QED BY <1>1, <1>2, <1>3, MainOnly DEF threads, Submitting

LEMMA ReleaseStep == ASSUME IInv, Release PROVE IInv'
<1>1. /\ main = "release" /\ main' = "submit" /\ at' = at /\ call' = call
      /\ released_buffers' = [released_buffers EXCEPT ![at] = FALSE]
      /\ UNCHANGED <<codec, stale, order, buffer_mutex, state, avpkt, got_frame, setups, asked,
                     worker, waits, pictures>>
  BY DEF Release
<1>2. waits' \in [Agent -> WaitSet] /\ released_buffers' \in [Thread -> BOOLEAN]
  BY <1>1 DEF IInv, TypeOK, Agent, WaitSet
<1>3. at = next_decoding /\ call \in {"packet", "drain"} /\ at \in Thread
  BY <1>1 DEF IInv, TypeOK, PlaceInv, Submitting
<1> QED BY <1>1, <1>2, <1>3, MainOnly DEF Submitting

LEMMA SubmitFailsStep == ASSUME IInv, SubmitFails PROVE IInv'
<1>1. /\ main = "submit" /\ main' = "user" /\ call' = "none" /\ at' = 0
      /\ UNCHANGED <<codec, stale, order, threads, worker, waits, pictures>>
  BY DEF SubmitFails, Return, MainAt
<1>2. waits' \in [Agent -> WaitSet] /\ released_buffers' \in [Thread -> BOOLEAN]
  BY <1>1 DEF IInv, TypeOK, threads, Agent, WaitSet
<1> QED BY <1>1, <1>2, ZeroThread, MainOnly DEF threads, Submitting

LEMMA CreateFailsStep == ASSUME IInv, CreateFails PROVE IInv'
<1>1. /\ main = "create" /\ main' = "park" /\ call' = call /\ at' = 0
      /\ UNCHANGED <<codec, stale, order, threads, worker, waits, pictures>>
  BY DEF CreateFails
<1>2. /\ waits' \in [Agent -> WaitSet] /\ released_buffers' \in [Thread -> BOOLEAN]
      /\ call \in {"none", "packet", "drain", "flush", "free"}
  BY <1>1 DEF IInv, TypeOK, threads, Agent, WaitSet
<1> QED BY <1>1, <1>2, ZeroThread, MainOnly DEF threads, Submitting

LEMMA KillStep == ASSUME IInv, Kill PROVE IInv'
<1>1. /\ main = "kill" /\ main' = "join" /\ call' = call /\ at' = at
      /\ Signal(<<"input", at>>)
      /\ UNCHANGED <<codec, stale, order, threads, worker, pictures>>
  BY DEF Kill
<1>2. waits' \in [Agent -> WaitSet]
  BY <1>1, SignalType DEF IInv
<1>3. /\ released_buffers' \in [Thread -> BOOLEAN] /\ at \in Thread
      /\ call \in {"none", "packet", "drain", "flush", "free"}
  BY <1>1 DEF IInv, TypeOK, threads
<1> QED BY <1>1, <1>2, <1>3, MainOnly DEF threads, Submitting

LEMMA JoinStep == ASSUME IInv, Join PROVE IInv'
<1>1. /\ main = "join" /\ main' \in {"freed", "kill"} /\ call' = call
      /\ at = ThreadCount - 1 => at' = at
      /\ at # ThreadCount - 1 => at' = at + 1
      /\ released_buffers' = [released_buffers EXCEPT ![at] = FALSE]
      /\ UNCHANGED <<codec, stale, order, buffer_mutex, state, avpkt, got_frame, setups, asked,
                     worker, waits, pictures>>
  BY DEF Join
<1>2. /\ waits' \in [Agent -> WaitSet] /\ released_buffers' \in [Thread -> BOOLEAN]
      /\ call \in {"none", "packet", "drain", "flush", "free"}
  BY <1>1 DEF IInv, TypeOK, Agent, WaitSet
<1>3. at' \in Thread
  BY <1>1, FrameAssumption DEF IInv, TypeOK, Thread
<1> QED BY <1>1, <1>2, <1>3, MainOnly DEF Submitting

LEMMA CreateStep == ASSUME IInv, Create PROVE IInv'
<1>1. /\ main = "create" /\ worker' = [worker EXCEPT ![at] = "input"]
      /\ main' \in {"create", "user"} /\ call' \in {call, "none"}
      /\ at' = 0 \/ (at # ThreadCount - 1 /\ at' = at + 1)
      /\ UNCHANGED <<codec, stale, order, threads, waits, pictures>>
  BY DEF Create, Return
<1>2. UNCHANGED <<prev_thread, next_decoding, next_finished, delaying, die, accepted, delivered,
                  buffer_mutex, state, avpkt, got_frame, released_buffers, setups, asked>>
  BY <1>1 DEF order, pictures, threads
<1>3. TypeOK /\ next_decoding \in Thread
  BY <1>1 DEF IInv, PlaceInv
<1>4. at' \in Thread
  BY <1>1, <1>3, FrameAssumption DEF TypeOK, Thread
<1>5. /\ worker' \in [Thread -> {"none", "input", "loop", "setup", "request", "decode",
                                 "finish", "dead"}]
      /\ \A t \in Thread : worker'[t] # worker[t] => worker'[t] = "input"
  BY <1>1, <1>3 DEF TypeOK
<1>6. TypeOK'
  <2>1. /\ waits' \in [Agent -> WaitSet] /\ die' \in BOOLEAN /\ got_frame' \in [Thread -> BOOLEAN]
        /\ released_buffers' \in [Thread -> BOOLEAN] /\ setups' \in [Thread -> Nat]
        /\ call' \in {"none", "packet", "drain", "flush", "free"} /\ stale' \in BOOLEAN
    BY <1>1, <1>2, <1>3 DEF TypeOK, Agent, WaitSet
  <2> QED BY <2>1, <1>1, <1>2, <1>3, <1>4, <1>5, MainTypes
<1>7. \A t \in Thread : state[t] = "INPUT_READY"
  BY <1>1 DEF IInv, RingInv
<1> QED BY <1>1, <1>2, <1>5, <1>6, <1>7, MainMove DEF Submitting

LEMMA ParkStep == ASSUME IInv, Park PROVE IInv'
<1>1. /\ main = "park" /\ state[at] = "INPUT_READY" /\ at < ThreadCount - 1
      /\ got_frame' = [got_frame EXCEPT ![at] = FALSE] /\ at' = at + 1
      /\ UNCHANGED <<codec, stale, order, buffer_mutex, state, avpkt, released_buffers, setups, asked,
                     main, call, worker, waits, pictures>>
  BY DEF Park, MainAt
<1>2. UNCHANGED <<prev_thread, next_decoding, next_finished, delaying, die, accepted, delivered>>
  BY <1>1 DEF order, pictures
<1>3. TypeOK
  BY DEF IInv
<1>4. at' \in Thread /\ \A t \in Thread : t < at' => t < at \/ t = at
  BY <1>1, <1>3, FrameAssumption DEF TypeOK, Thread
<1>5. got_frame' \in [Thread -> BOOLEAN] /\ \A t \in Thread : got_frame'[t] => got_frame[t]
  BY <1>1, <1>3 DEF TypeOK
<1>6. TypeOK'
  <2>1. waits' \in [Agent -> WaitSet]
    BY <1>1, <1>3 DEF TypeOK, Agent, WaitSet
  <2> QED BY <2>1, <1>1, <1>2, <1>3, <1>4, <1>5, MainTypes DEF TypeOK
<1>7. \A t \in Thread : t < at' => state[t] = "INPUT_READY"
  BY <1>1, <1>4 DEF IInv, RingInv
<1> QED BY <1>1, <1>2, <1>5, <1>6, <1>7, MainMove DEF Submitting

LEMMA DieStep == ASSUME IInv, Die PROVE IInv'
<1>1. /\ main = "park" /\ Unroll /\ main' = "kill" /\ at' = 0 /\ die' = TRUE
      /\ got_frame' = [got_frame EXCEPT ![at] = FALSE]
      /\ UNCHANGED <<codec, prev_thread, next_decoding, next_finished, delaying, buffer_mutex,
                     state, avpkt, released_buffers, asked, call, worker, waits, pictures>>
  BY DEF Die, MainAt
<1>2. TypeOK
  BY DEF IInv
<1>3. /\ setups' \in [Thread -> Nat] /\ (prev_thread = None => setups'[0] = setups[0])
      /\ stale' \in BOOLEAN /\ (stale => stale')
      /\ prev_thread # None => setups'[prev_thread] = setups[prev_thread]
  BY <1>1, <1>2, ZeroThread DEF Unroll, TypeOK
<1>4. got_frame' \in [Thread -> BOOLEAN] /\ \A t \in Thread : got_frame'[t] => got_frame[t]
  BY <1>1, <1>2 DEF TypeOK
<1>5. TypeOK'
  <2>1. waits' \in [Agent -> WaitSet]
    BY <1>1, <1>2 DEF TypeOK, Agent, WaitSet
  <2> QED BY <2>1, <1>1, <1>2, <1>3, <1>4, ZeroThread, MainTypes DEF TypeOK
<1> QED BY <1>1, <1>3, <1>4, <1>5, MainMove DEF Submitting, pictures

-----------------------------------------------------------------------------
(* A packet goes in *)

\* submit_packet hands a packet only to a thread with nothing inside, behind all
\* others on the ring.
LEMMA SubmitFacts ==
  ASSUME IInv, main = "submit"
  PROVE  /\ at = next_decoding /\ at \in Thread /\ Latest = prev_thread
         /\ \A t \in Thread : Inside(t) => Dist(t) < Dist(at)
         /\ \A t \in Thread : Live(t) => accepted - avpkt[t] < Dist(at) - Dist(t)
         /\ ~ Inside(at)
<1>1. at = next_decoding /\ at \in Thread /\ Latest = prev_thread /\ next_finished \in Thread
  BY DEF IInv, TypeOK, PlaceInv, Submitting, Latest
<1>2. ASSUME NEW t \in Thread, Inside(t)
      PROVE  /\ prev_thread \in Thread /\ Dist(t) <= Dist(prev_thread)
             /\ Dist(at) = Dist(prev_thread) + 1 /\ Dist(t) \in Int /\ Dist(prev_thread) \in Int
  <2>1. prev_thread # None /\ Dist(t) <= Dist(prev_thread) /\ next_decoding # next_finished
    BY <1>1, <1>2 DEF IInv, RingInv
  <2>2. prev_thread \in Thread
    BY <2>1 DEF IInv, TypeOK
  <2>3. Wrap(prev_thread + 1) = at
    <3>1. Wrap(next_decoding) = next_decoding
      BY <1>1, WrapThread
    <3> QED BY <3>1, <2>1, <1>1 DEF IInv, PlaceInv
  <2> QED BY <2>1, <2>2, <2>3, <1>1, <1>2, DistNext, DistType
<1>3. \A t \in Thread : Inside(t) => Dist(t) < Dist(at)
  BY <1>2
<1>4. ASSUME NEW t \in Thread, Live(t) PROVE accepted - avpkt[t] < Dist(at) - Dist(t)
  <2>1. Inside(t)
    BY <1>4 DEF Inside
  <2>2. accepted - avpkt[t] <= Dist(prev_thread) - Dist(t)
    BY <1>1, <1>4 DEF IInv, PacketInv
  <2>3. accepted - avpkt[t] \in Int
    BY DEF IInv, TypeOK
  <2> QED BY <2>1, <2>2, <2>3, <1>2
<1>5. ~ Inside(at)
  <2>1. Dist(at) \in Int
    BY <1>1, DistType
  <2> QED BY <2>1, <1>1, <1>3
<1> QED BY <1>1, <1>3, <1>4, <1>5

\* There is room for another packet.
LEMMA SubmitRoom ==
  ASSUME IInv, main = "submit"
  PROVE  accepted - delivered < ThreadCount
<1> USE FrameAssumption
<1>1. accepted \in Nat /\ delivered \in Nat /\ delivered <= accepted /\ next_finished \in Thread
  BY DEF IInv, TypeOK, PacketInv
<1>2. CASE delivered = accepted
  BY <1>1, <1>2
<1>3. CASE delivered < accepted
  <2>1. delivered + 1 \in Nat /\ delivered < delivered + 1 /\ delivered + 1 <= accepted
    BY <1>1, <1>3
  <2>2. PICK t \in Thread : avpkt[t] = delivered + 1
    BY <2>1 DEF IInv, PacketInv
  <2>3. Live(t)
    BY <2>1, <2>2 DEF Live
  <2>4. accepted - avpkt[t] < Dist(at) - Dist(t) /\ at \in Thread
    BY <2>3, SubmitFacts
  <2>5. Dist(t) \in 0 .. ThreadCount - 1 /\ Dist(at) \in 0 .. ThreadCount - 1
    BY <2>4, <1>1, DistType
  <2> QED BY <2>2, <2>4, <2>5, <1>1
<1> QED BY <1>1, <1>2, <1>3

LEMMA SubmitStep == ASSUME IInv, Submit PROVE IInv'
<1> USE FrameAssumption
<1>1. main = "submit" /\ UNCHANGED <<codec, stale, order, buffer_mutex, got_frame, released_buffers,
                                     asked, call, at, worker, delivered>>
  BY DEF Submit, MainAt
<1>2. TypeOK /\ UNCHANGED <<prev_thread, next_decoding, next_finished, delaying, die>>
  BY <1>1 DEF IInv, order
<1>3. CASE prev_thread # None /\ state[prev_thread] = "SETTING_UP"
  <2>1. Main \in Agent /\ <<"progress", prev_thread>> \in WaitSet
    BY <1>2, <1>3 DEF Agent, WaitSet, Cond, TypeOK
  <2>2. Sleep(Main, <<"progress", prev_thread>>) /\ UNCHANGED <<main, state, avpkt, setups, accepted>>
    BY <1>3 DEF Submit
  <2>3. waits' \in [Agent -> WaitSet]
    BY <1>2, <2>1, <2>2, SleepType
  <2> QED BY <1>1, <2>2, <2>3, SleepStep DEF threads, pictures
<1>4. CASE ~ (prev_thread # None /\ state[prev_thread] = "SETTING_UP")
  <2>1. PICK a \in Thread : at = a
    BY <1>2 DEF TypeOK
  <2> DEFINE packet == accepted + 1
  <2>2. /\ setups' = [setups EXCEPT ![a] = IF prev_thread = None THEN @ ELSE setups[prev_thread]]
        /\ accepted' = accepted + 1
        /\ avpkt' = [avpkt EXCEPT ![a] = packet]
        /\ state' = [state EXCEPT ![a] = "SETTING_UP"]
        /\ Signal(<<"input", at>>) /\ main' = "serve"
    BY <1>4, <2>1 DEF Submit
  <2>3. accepted \in Nat /\ packet \in Nat /\ accepted' \in Nat /\ delivered \in Nat
    BY <1>2, <2>2 DEF TypeOK
  <2>4. /\ a = next_decoding /\ Latest = prev_thread /\ ~ Inside(a)
        /\ \A t \in Thread : Inside(t) => Dist(t) < Dist(a)
        /\ \A t \in Thread : Live(t) => accepted - avpkt[t] < Dist(a) - Dist(t)
    BY <1>1, <2>1, SubmitFacts
  <2>5. /\ state' \in [Thread -> State] /\ state'[a] = "SETTING_UP"
        /\ \A t \in Thread : t # a => state'[t] = state[t]
    BY <1>2, <2>2 DEF TypeOK, State
  <2>6. /\ avpkt' \in [Thread -> Nat] /\ avpkt'[a] = packet
        /\ \A t \in Thread : t # a => avpkt'[t] = avpkt[t]
    BY <1>2, <2>2, <2>3 DEF TypeOK
  <2>7. /\ setups' \in [Thread -> Nat]
        /\ setups'[a] = IF prev_thread = None THEN setups[a] ELSE setups[prev_thread]
    BY <1>2, <2>2 DEF TypeOK
  <2>8. TypeOK'
    <3>1. waits' \in [Agent -> WaitSet]
      BY <1>2, <2>2, SignalType
    <3> QED BY <3>1, <1>1, <1>2, <2>2, <2>3, <2>5, <2>6, <2>7 DEF TypeOK, Agent, WaitSet
  <2>9. /\ Latest' = a /\ (\A t : Dist(t)' = Dist(t))
        /\ \A t \in Thread : t # a => (Live(t)' <=> Live(t)) /\ (Inside(t)' <=> Inside(t))
        /\ Live(a)' /\ packet = accepted'
        /\ delivered <= accepted
    <3>1. delivered <= accepted
      BY DEF IInv, PacketInv
    <3>2. Live(a)' <=> packet > delivered
      BY <1>1, <2>6 DEF Live
    <3>3. packet > delivered
      BY <2>3, <3>1
    <3> QED BY <3>1, <3>2, <3>3, <1>1, <1>2, <2>1, <2>2, <2>5, <2>6 DEF Latest, Dist, Live, Inside
  <2>10. PlaceInv'
    <3>1. next_decoding \in Thread /\ call \in {"packet", "drain"}
      BY <1>1 DEF IInv, PlaceInv, Submitting
    <3> QED BY <3>1, <1>1, <1>2, <2>1, <2>2, <2>4 DEF IInv, PlaceInv, Submitting
  <2>11. \A t \in Thread : Dist(t) \in Int
    BY <1>2, DistType DEF TypeOK
  <2>12. RingInv'
    <3>1. \A t \in Thread : Inside(t)' => Dist(t) <= Dist(a)
      BY <2>4, <2>9, <2>11
    <3>2. Dist(Latest)' = Dist(a)
      BY <1>2, <2>9 DEF Dist
    <3> QED BY <3>1, <3>2, <2>2, <2>9, ZeroThread DEF RingInv
  <2>13. PacketInv'
    <3>1. ~ Live(a) /\ Dist(Latest)' = Dist(a)
      BY <1>2, <2>4, <2>9 DEF Dist, Inside
    <3>2. delivered' <= accepted'
      BY <1>1, <2>2, <2>3, <2>9
    <3>3. ASSUME NEW k \in Nat, delivered < k, k <= accepted'
          PROVE  \E t \in Thread : avpkt'[t] = k
      <4>1. CASE k <= accepted
        <5>1. PICK t \in Thread : avpkt[t] = k
          BY <3>3, <4>1 DEF IInv, PacketInv
        <5>2. Live(t)
          BY <3>3, <5>1 DEF Live
        <5> QED BY <5>1, <5>2, <3>1, <2>6
      <4>2. CASE ~ (k <= accepted)
        <5>1. k = accepted + 1
          BY <3>3, <4>2, <2>2, <2>3
        <5> QED BY <5>1, <2>6
      <4> QED BY <4>1, <4>2
    <3>4. ASSUME NEW t \in Thread
          PROVE  /\ avpkt'[t] <= accepted'
                 /\ Live(t)' => accepted' - avpkt'[t] <= Dist(a) - Dist(t)
                 /\ got_frame[t] => Live(t)'
                 /\ state'[t] # "INPUT_READY" => Live(t)'
      <4>1. CASE t = a
        <5>1. ~ got_frame[a]
          BY <3>1 DEF IInv, PacketInv
        <5>2. avpkt'[a] <= accepted' /\ (Live(a)' => accepted' - avpkt'[a] = 0)
          BY <2>2, <2>3, <2>6, <2>9
        <5> QED BY <4>1, <5>1, <5>2, <2>9, <2>11
      <4>2. CASE t # a
        <5>1. avpkt[t] <= accepted /\ avpkt[t] \in Nat
          BY <1>2 DEF IInv, PacketInv, TypeOK
        <5>2. avpkt'[t] <= accepted'
          BY <4>2, <5>1, <2>2, <2>3, <2>6
        <5>3. Live(t)' => accepted' - avpkt'[t] <= Dist(a) - Dist(t)
          BY <4>2, <5>1, <2>2, <2>3, <2>4, <2>6, <2>9, <2>11
        <5> QED BY <4>2, <5>2, <5>3, <2>5, <2>6, <2>9 DEF IInv, PacketInv
      <4> QED BY <4>1, <4>2
    <3>5. ASSUME NEW t \in Thread, NEW u \in Thread, Live(t)', Live(u)', Dist(t) < Dist(u)
          PROVE  avpkt'[t] < avpkt'[u]
      <4>1. t # a
        <5>1. u # a => Inside(u)
          BY <3>5, <2>9 DEF Inside
        <5> QED BY <3>5, <5>1, <2>4, <2>11
      <4>2. Live(t) /\ avpkt[t] <= accepted /\ avpkt[t] \in Nat
        BY <4>1, <3>5, <1>2, <2>9 DEF IInv, PacketInv, TypeOK
      <4>3. CASE u = a
        BY <4>1, <4>2, <4>3, <3>5, <2>2, <2>3, <2>6, <2>9
      <4>4. CASE u # a
        BY <4>1, <4>2, <4>4, <3>5, <2>6, <2>9 DEF IInv, PacketInv
      <4> QED BY <4>3, <4>4
    <3> QED BY <3>1, <3>2, <3>3, <3>4, <3>5, <1>1, <2>9 DEF PacketInv
  <2>14. \A t \in Thread : ~ SettingUp(t)
    <3>1. \A t \in Thread : state[t] \notin Request
      BY <1>1 DEF IInv, StateInv, SettingUp
    <3>2. ASSUME NEW t \in Thread, SettingUp(t) PROVE FALSE
      <4>1. t = prev_thread /\ prev_thread # None
        BY <3>2, <2>4, ZeroThread DEF IInv, SetupInv
      <4> QED BY <4>1, <3>1, <3>2, <1>4 DEF SettingUp
    <3> QED BY <3>2
  <2>15. StateInv'
    <3>1. state[a] = "INPUT_READY"
      BY <2>4 DEF Inside
    <3>2. worker[a] \in {"none", "input", "loop", "dead"}
      BY <3>1, <1>2 DEF TypeOK, IInv, StateInv, SettingUp, Request
    <3>3. \A t \in Thread : t # a => ~ SettingUp(t)' /\ state'[t] \notin Request
      BY <2>5, <2>14 DEF SettingUp
    <3>4. state'[a] \notin Request
      BY <2>5 DEF Request
    <3>5. ASSUME NEW t \in Thread, t # a
          PROVE  /\ worker[t] = "setup" => state'[t] = "SETTING_UP"
                 /\ worker[t] # "request"
                 /\ worker[t] \in {"decode", "finish"} => state'[t] = "SETUP_FINISHED"
                 /\ worker[t] \in {"none", "input", "loop", "dead"}
                      => state'[t] \in {"INPUT_READY", "SETTING_UP"}
      BY <3>5, <2>5, <2>14 DEF IInv, StateInv
    <3> QED BY <3>2, <3>3, <3>4, <3>5, <1>1, <2>1, <2>2, <2>5 DEF StateInv
  <2>16. SetupInv'
    <3>1. \A t \in Thread : SettingUp(t)' => t = a
      BY <2>5, <2>14 DEF SettingUp
    <3>2. ~ stale => setups'[a] = accepted
      <4>1. CASE prev_thread = None
        <5>1. a = 0
          BY <4>1, <2>4 DEF IInv, PlaceInv
        <5> QED BY <4>1, <5>1, <2>4, <2>7 DEF IInv, SetupInv
      <4>2. CASE prev_thread # None
        <5>1. ~ SettingUp(prev_thread)
          BY <4>2, <1>2, <2>14 DEF TypeOK
        <5> QED BY <4>2, <5>1, <2>4, <2>7 DEF IInv, SetupInv
      <4> QED BY <4>1, <4>2
    <3>3. avpkt'[a] = accepted' /\ (~ stale => setups'[a] = accepted' - 1)
      BY <3>2, <2>2, <2>3, <2>6
    <3>4. SettingUp(Latest)'
      BY <2>5, <2>9 DEF SettingUp
    <3>5. a # None
      BY ZeroThread
    <3> QED BY <3>1, <3>3, <3>4, <3>5, <1>1, <2>9 DEF SetupInv
  <2> QED BY <2>8, <2>10, <2>12, <2>13, <2>15, <2>16 DEF IInv
<1> QED BY <1>3, <1>4

LEMMA SubmittedStep == ASSUME IInv, Submitted PROVE IInv'
<1> USE FrameAssumption
<1>1. /\ main = "serve" /\ (codec.safe \/ state[at] \in {"SETUP_FINISHED", "INPUT_READY"})
      /\ prev_thread' = at /\ next_decoding' = next_decoding + 1
      /\ delaying' = (delaying /\ next_decoding' <= ThreadCount - 1 - (IF codec.ffv1 THEN 1 ELSE 0))
      /\ \/ delaying' /\ main' = "user" /\ call' = "none" /\ at' = 0
         \/ /\ main' = "collect" /\ at' = next_finished /\ call' = call
            /\ call = "packet" => ~ delaying'
      /\ UNCHANGED <<codec, stale, next_finished, die, threads, worker, waits, pictures>>
  BY DEF Submitted, Return, MainAt
<1>2. UNCHANGED <<accepted, delivered, buffer_mutex, state, avpkt, got_frame, released_buffers,
                  setups, asked>>
  BY <1>1 DEF threads, pictures
<1>3. TypeOK /\ at = next_decoding /\ at \in Thread /\ call \in {"packet", "drain"}
      /\ next_finished \in Thread /\ at # None
  BY <1>1, ZeroThread DEF IInv, TypeOK, PlaceInv, Submitting
<1>4. /\ next_decoding' \in 0 .. ThreadCount /\ delaying' \in BOOLEAN
      /\ delaying' => next_decoding' \in Thread /\ next_finished < next_decoding' /\ delaying
  <2>1. delaying => next_finished <= next_decoding
    BY DEF IInv, PlaceInv
  <2>2. delaying \in BOOLEAN /\ next_decoding \in 0 .. ThreadCount - 1
    BY <1>3 DEF TypeOK, Thread
  <2>3. next_decoding' \in 0 .. ThreadCount /\ next_decoding' = next_decoding + 1
    BY <1>1, <2>2
  <2>4. delaying' => delaying /\ next_decoding' <= ThreadCount - 1
    <3>1. delaying' => delaying /\ next_decoding' <= ThreadCount - 1 - (IF codec.ffv1 THEN 1 ELSE 0)
      BY <1>1
    <3> QED BY <3>1, <2>3
  <2>5. delaying' \in BOOLEAN
    BY <1>1
  <2> QED BY <2>1, <2>2, <2>3, <2>4, <2>5, <1>3 DEF Thread
<1>5. TypeOK'
  BY <1>1, <1>2, <1>3, <1>4, ZeroThread DEF TypeOK
<1>6. /\ Latest = at /\ Latest' = at /\ (\A t : Dist(t)' = Dist(t))
      /\ Dist(Latest)' = Dist(Latest)
      /\ \A t \in Thread : (Live(t)' <=> Live(t)) /\ (Inside(t)' <=> Inside(t))
                           /\ (SettingUp(t)' <=> SettingUp(t))
      /\ SettingUp(Latest)' <=> SettingUp(Latest)
  BY <1>1, <1>2 DEF Latest, Dist, Live, Inside, SettingUp
<1>7. PlaceInv'
  <2>1. Wrap(next_decoding') = Wrap(prev_thread' + 1)
    BY <1>1, <1>3
  <2>2. delaying' => next_finished' <= next_decoding' /\ next_decoding' \in Thread
    <3>1. delaying' => next_finished <= next_decoding'
      BY <1>3, <1>4 DEF Thread
    <3> QED BY <3>1, <1>1, <1>4
  <2>3. main' # "collect" => next_decoding' \in Thread
    BY <1>1, <1>4
  <2>4. prev_thread' # None /\ main' # "serve" /\ main' \notin Submitting
    BY <1>1, <1>3 DEF Submitting
  <2> QED BY <2>1, <2>2, <2>3, <2>4, <1>1, <1>3 DEF PlaceInv, Wrap
<1>8. RingInv'
  <2>1. delaying' => next_decoding' # next_finished'
    BY <1>1, <1>3, <1>4 DEF Thread
  <2>2. main' = "collect" => Dist(at)' = 0
    BY <1>1, <1>3, DistFirst DEF Dist
  <2>3. \A t \in Thread : Dist(t) \in Int /\ Dist(t) >= 0
    BY <1>3, DistType
  <2>4. \A t \in Thread : Inside(t) => Latest # None /\ Dist(t) <= Dist(Latest)
    BY DEF IInv, RingInv
  <2> QED BY <2>1, <2>2, <2>3, <2>4, <1>1, <1>6 DEF RingInv
<1>9. PacketInv'
  BY <1>2, <1>6 DEF IInv, PacketInv
<1>10. StateInv'
  <2>1. \A t \in Thread : ~ (SettingUp(t) /\ ~ codec.safe)
    <3>1. \A t \in Thread : SettingUp(t) => t = at
      BY <1>6 DEF IInv, SetupInv
    <3> QED BY <3>1, <1>1 DEF SettingUp, Request
  <2> QED BY <1>1, <1>2, <1>6, <2>1 DEF IInv, StateInv
<1>11. SetupInv'
  BY <1>1, <1>2, <1>3, <1>6 DEF IInv, SetupInv
<1> QED BY <1>5, <1>7, <1>8, <1>9, <1>10, <1>11 DEF IInv

-----------------------------------------------------------------------------
(* A result comes out *)

\* The thread Main collects from holds the oldest packet that is left, if it holds
\* one at all.
LEMMA CollectFacts ==
  ASSUME IInv, Collect, NEW a \in Thread, at = a
  PROVE  /\ main = "collect" /\ state[a] = "INPUT_READY" /\ ~ got_frame'[a]
         /\ Latest = prev_thread /\ next_finished \in Thread
         /\ Live(a) => delivered' = delivered + 1 /\ avpkt[a] = delivered + 1
         /\ ~ Live(a) => delivered' = delivered
         /\ \A t \in Thread : Live(t)' <=> Live(t) /\ t # a
         /\ \A t \in Thread : Inside(t)' <=> Inside(t) /\ t # a
         /\ \A t \in Thread : Inside(t) /\ t # a => Dist(t) > Dist(a)
<1>1. /\ main = "collect" /\ state[a] = "INPUT_READY"
      /\ got_frame' = [got_frame EXCEPT ![a] = FALSE] /\ UNCHANGED <<state, avpkt>>
      /\ delivered' = IF got_frame[a] \/ avpkt[a] > delivered THEN avpkt[a] ELSE delivered
  BY DEF Collect, MainAt, GotFrameTaken
<1>2. TypeOK /\ next_finished \in Thread /\ Latest = prev_thread
  BY <1>1 DEF IInv, TypeOK, Latest
<1>3. ~ got_frame'[a]
  BY <1>1, <1>2 DEF TypeOK
<1>4. \A t \in Thread : Dist(t) \in Int /\ avpkt[t] \in Nat /\ delivered \in Nat
  BY <1>2, DistType DEF TypeOK
<1>5. \A t \in Thread : Inside(t) /\ t # a => Dist(t) > Dist(a)
  <2> SUFFICES ASSUME NEW t \in Thread, Inside(t), t # a PROVE Dist(t) > Dist(a)
    OBVIOUS
  <2>1. ~ (Dist(t) < Dist(a))
    BY <1>1 DEF IInv, RingInv
  <2>2. Dist(t) # Dist(a)
    BY <1>2, DistInjective
  <2> QED BY <2>1, <2>2, <1>4
<1>6. Live(a) => avpkt[a] = delivered + 1
  <2> SUFFICES ASSUME Live(a) PROVE avpkt[a] = delivered + 1
    OBVIOUS
  <2>1. delivered + 1 \in Nat /\ delivered < delivered + 1 /\ delivered + 1 <= accepted
    BY <1>2, <1>4 DEF TypeOK, IInv, PacketInv, Live
  <2>2. PICK t \in Thread : avpkt[t] = delivered + 1
    BY <2>1 DEF IInv, PacketInv
  <2>3. Live(t)
    BY <2>1, <2>2 DEF Live
  <2>4. CASE t # a
    <3>1. Dist(a) < Dist(t)
      BY <2>3, <2>4, <1>4, <1>5 DEF Inside
    <3>2. avpkt[a] < avpkt[t]
      BY <2>3, <3>1 DEF IInv, PacketInv
    <3> QED BY <3>2, <2>2, <1>4 DEF Live
  <2> QED BY <2>2, <2>4
<1>7. /\ Live(a) => delivered' = delivered + 1
      /\ ~ Live(a) => delivered' = delivered
  <2>1. got_frame[a] => Live(a)
    BY DEF IInv, PacketInv
  <2> QED BY <2>1, <1>1, <1>6 DEF Live
<1>8. ASSUME NEW t \in Thread PROVE Live(t)' <=> Live(t) /\ t # a
  <2>1. Live(t)' <=> avpkt[t] > delivered'
    BY <1>1 DEF Live
  <2>2. CASE t = a
    BY <2>1, <2>2, <1>4, <1>6, <1>7 DEF Live
  <2>3. CASE t # a
    <3>1. Live(t) /\ Live(a) => avpkt[a] < avpkt[t]
      <4>1. Live(t) => Dist(a) < Dist(t)
        BY <2>3, <1>4, <1>5 DEF Inside
      <4> QED BY <4>1 DEF IInv, PacketInv
    <3> QED BY <3>1, <2>1, <2>3, <1>4, <1>6, <1>7 DEF Live
  <2> QED BY <2>2, <2>3
<1>9. \A t \in Thread : Inside(t)' <=> Inside(t) /\ t # a
  BY <1>1, <1>8 DEF Inside
<1> QED BY <1>1, <1>2, <1>3, <1>5, <1>6, <1>7, <1>8, <1>9

LEMMA CollectPackets ==
  ASSUME IInv, Collect, NEW a \in Thread, at = a,
         \A t \in Thread : Inside(t) /\ t # a => Dist(Latest)' - Dist(t)' = Dist(Latest) - Dist(t),
         \A t, u \in Thread : Inside(t) /\ Inside(u) /\ t # a /\ u # a =>
           (Dist(t)' < Dist(u)' <=> Dist(t) < Dist(u))
  PROVE  PacketInv'
<1>1. /\ Live(a) => delivered' = delivered + 1 /\ avpkt[a] = delivered + 1
      /\ ~ Live(a) => delivered' = delivered
      /\ \A t \in Thread : Live(t)' <=> Live(t) /\ t # a
      /\ state[a] = "INPUT_READY" /\ ~ got_frame'[a]
  BY CollectFacts
<1>2. /\ UNCHANGED <<accepted, avpkt, state>> /\ accepted \in Nat /\ delivered \in Nat
      /\ \A t \in Thread : t # a => got_frame'[t] = got_frame[t]
  BY DEF Collect, GotFrameTaken, IInv, TypeOK
<1>3. \A t \in Thread : Live(t) => Inside(t)
  BY DEF Inside
<1>4. delivered' <= accepted' /\ delivered' \in Nat /\ delivered <= delivered'
  BY <1>1, <1>2 DEF IInv, PacketInv
<1>5. \A k \in Nat : delivered' < k /\ k <= accepted' => \E t \in Thread : avpkt'[t] = k
  <2>1. \A k \in Nat : delivered' < k => delivered < k
    BY <1>2, <1>4
  <2> QED BY <2>1, <1>2 DEF IInv, PacketInv
<1>6. ASSUME NEW t \in Thread
      PROVE  /\ avpkt'[t] <= accepted'
             /\ Live(t)' => accepted' - avpkt'[t] <= Dist(Latest)' - Dist(t)'
             /\ got_frame'[t] => Live(t)'
             /\ state'[t] # "INPUT_READY" => Live(t)'
  <2>1. CASE t = a
    BY <2>1, <1>1, <1>2 DEF IInv, PacketInv
  <2>2. CASE t # a
    BY <2>2, <1>1, <1>2, <1>3 DEF IInv, PacketInv
  <2> QED BY <2>1, <2>2
<1>7. \A t, u \in Thread : Live(t)' /\ Live(u)' /\ Dist(t)' < Dist(u)' => avpkt'[t] < avpkt'[u]
  BY <1>1, <1>2, <1>3 DEF IInv, PacketInv
<1> QED BY <1>4, <1>5, <1>6, <1>7 DEF PacketInv

LEMMA CollectStep == ASSUME IInv, Collect PROVE IInv'
<1> USE FrameAssumption
<1>1. PICK a \in Thread : at = a
  BY DEF IInv, TypeOK
<1> DEFINE finished == Wrap(a + 1)
<1>2. /\ main = "collect" /\ state[a] = "INPUT_READY" /\ ~ got_frame'[a]
      /\ Latest = prev_thread /\ next_finished \in Thread
      /\ Live(a) => delivered' = delivered + 1 /\ avpkt[a] = delivered + 1
      /\ ~ Live(a) => delivered' = delivered
      /\ \A t \in Thread : Live(t)' <=> Live(t) /\ t # a
      /\ \A t \in Thread : Inside(t)' <=> Inside(t) /\ t # a
      /\ \A t \in Thread : Inside(t) /\ t # a => Dist(t) > Dist(a)
  BY <1>1, CollectFacts
<1>3. /\ got_frame' = [got_frame EXCEPT ![a] = FALSE]
      /\ \/ /\ call = "drain" /\ ~ got_frame[a] /\ finished # next_finished
            /\ at' = finished /\ UNCHANGED <<main, call, next_finished, next_decoding>>
         \/ /\ ~ (call = "drain" /\ ~ got_frame[a] /\ finished # next_finished)
            /\ next_finished' = finished /\ next_decoding' = Wrap(next_decoding)
            /\ main' = "user" /\ call' = "none" /\ at' = 0
      /\ UNCHANGED <<codec, stale, prev_thread, delaying, die, buffer_mutex, state, avpkt,
                     released_buffers, setups, asked, worker, waits, accepted>>
  BY <1>1 DEF Collect, GotFrameTaken, SkipOn, Return
<1>4. TypeOK /\ finished \in Thread /\ delivered' \in Nat
  BY <1>2, DistNext DEF IInv, TypeOK
<1>5. Latest' = prev_thread /\ (prev_thread # None => prev_thread \in Thread)
  BY <1>2, <1>3, <1>4 DEF Latest, TypeOK
<1>6. \A t \in Thread : Dist(t) \in 0 .. ThreadCount - 1 /\ Dist(t) \in Int
  BY <1>2, DistType
<1>7. \A t \in Thread : Inside(t) => prev_thread \in Thread /\ Dist(t) <= Dist(prev_thread)
  BY <1>2, <1>5 DEF IInv, RingInv
<1>8. StateInv'
  <2>1. \A t \in Thread : ~ (SettingUp(t) /\ ~ codec.safe)
    BY <1>2 DEF IInv, StateInv
  <2>2. \A t \in Thread : SettingUp(t)' <=> SettingUp(t)
    BY <1>3 DEF SettingUp
  <2> QED BY <2>1, <2>2, <1>3 DEF IInv, StateInv
<1>9. SetupInv'
  <2>1. \A t \in Thread : SettingUp(t)' <=> SettingUp(t)
    BY <1>3 DEF SettingUp
  <2>2. SettingUp(Latest)' <=> SettingUp(Latest)
    BY <1>2, <1>3, <1>5 DEF SettingUp
  <2> QED BY <2>1, <2>2, <1>2, <1>3, <1>5 DEF IInv, SetupInv
<1>10. got_frame' \in [Thread -> BOOLEAN]
  BY <1>3, <1>4 DEF TypeOK
<1>11. CASE /\ call = "drain" /\ ~ got_frame[a] /\ finished # next_finished
            /\ at' = finished /\ UNCHANGED <<main, call, next_finished, next_decoding>>
  <2>1. TypeOK'
    BY <1>3, <1>4, <1>10, <1>11 DEF TypeOK
  <2>2. \A t : Dist(t)' = Dist(t)
    BY <1>11 DEF Dist
  <2>3. Dist(Latest)' = Dist(Latest) /\ Dist(at)' = Dist(a) + 1
    <3>1. Dist(finished) = Dist(a) + 1
      BY <1>2, <1>11, DistNext
    <3> QED BY <3>1, <1>2, <1>5, <1>11 DEF Dist
  <2>4. PlaceInv'
    BY <1>2, <1>3, <1>11 DEF IInv, PlaceInv, Submitting, Wrap
  <2>5. RingInv'
    <3>1. \A t \in Thread : Dist(t) < Dist(a) + 1 => ~ Inside(t)'
      BY <1>2, <1>6
    <3>2. \A t \in Thread : Inside(t)' => Latest' # None /\ Dist(t)' <= Dist(Latest)'
      BY <2>2, <2>3, <1>2, <1>5 DEF IInv, RingInv
    <3>3. next_decoding' = next_finished' /\ delaying' => \A t \in Thread : ~ Inside(t)'
      BY <1>2, <1>3, <1>11 DEF IInv, RingInv
    <3> QED BY <3>1, <3>2, <3>3, <2>2, <2>3, <1>2, <1>11 DEF RingInv
  <2>6. PacketInv'
    <3>1. \A t \in Thread : Dist(Latest)' - Dist(t)' = Dist(Latest) - Dist(t)
      BY <2>2, <2>3
    <3>2. \A t, u \in Thread : Dist(t)' < Dist(u)' <=> Dist(t) < Dist(u)
      BY <2>2
    <3> QED BY <3>1, <3>2, <1>1, CollectPackets
  <2> QED BY <2>1, <2>4, <2>5, <2>6, <1>8, <1>9 DEF IInv
<1>12. CASE /\ ~ (call = "drain" /\ ~ got_frame[a] /\ finished # next_finished)
            /\ next_finished' = finished /\ next_decoding' = Wrap(next_decoding)
            /\ main' = "user" /\ call' = "none" /\ at' = 0
  <2>1. next_decoding' \in Thread /\ Wrap(next_decoding') = Wrap(next_decoding)
    BY <1>4, <1>12 DEF TypeOK, Wrap, Thread
  <2>2. TypeOK'
    <3>1. next_decoding' \in 0 .. ThreadCount
      BY <2>1 DEF Thread
    <3> QED BY <3>1, <2>1, <1>3, <1>4, <1>10, <1>12, ZeroThread DEF TypeOK
  <2>3. call \in {"packet", "drain"} /\ (got_frame[a] => Inside(a))
    BY <1>2 DEF IInv, PlaceInv, PacketInv, Inside
  <2>4. prev_thread = None => next_decoding' = 0 /\ next_finished' = 0
    <3> SUFFICES ASSUME prev_thread = None PROVE next_decoding' = 0 /\ next_finished' = 0
      OBVIOUS
    <3>1. next_decoding = 0 /\ next_finished = 0 /\ call # "packet"
      BY <1>2 DEF IInv, PlaceInv
    <3>2. ~ got_frame[a]
      BY <2>3, <1>7, ZeroThread
    <3>3. finished = next_finished
      BY <3>1, <3>2, <2>3, <1>12
    <3>4. Wrap(0) = 0
      BY ZeroThread, WrapThread
    <3> QED BY <3>1, <3>3, <3>4, <1>12
  <2>5. delaying => next_finished' <= next_decoding'
    <3> SUFFICES ASSUME delaying PROVE finished <= next_decoding
      <4>1. delaying => next_decoding \in Thread
        BY DEF IInv, PlaceInv
      <4> QED BY <4>1, <1>12, WrapThread
    <3>1. next_finished <= next_decoding /\ next_decoding \in Thread /\ call = "drain"
      BY <1>2, <2>3 DEF IInv, PlaceInv
    <3>2. CASE finished = next_finished
      BY <3>1, <3>2
    <3>3. CASE finished # next_finished
      <4>1. Inside(a)
        BY <3>1, <3>3, <2>3, <1>12
      <4>2. prev_thread \in Thread /\ Dist(a) <= Dist(prev_thread)
        BY <4>1, <1>7
      <4>3. next_decoding # next_finished
        BY <4>1, <1>2 DEF IInv, RingInv
      <4>4. Wrap(prev_thread + 1) = next_decoding
        <5>1. Wrap(next_decoding) = next_decoding
          BY <3>1, WrapThread
        <5> QED BY <5>1, <4>2, <1>2, ZeroThread DEF IInv, PlaceInv
      <4> QED BY <4>2, <4>3, <4>4, <3>1, <1>2 DEF Dist, Wrap, Thread
    <3> QED BY <3>2, <3>3
  <2>6. PlaceInv'
    <3>1. prev_thread # None => Wrap(next_decoding) = Wrap(prev_thread + 1)
      BY <1>2 DEF IInv, PlaceInv
    <3> QED BY <3>1, <2>1, <2>4, <2>5, <1>3, <1>12 DEF PlaceInv, Submitting, Wrap
  <2>7. ASSUME NEW t \in Thread, Inside(t), t # a
        PROVE  /\ Dist(t)' = Dist(t) - Dist(a) - 1
               /\ Dist(prev_thread)' = Dist(prev_thread) - Dist(a) - 1
               /\ prev_thread \in Thread /\ Dist(t) <= Dist(prev_thread)
               /\ Dist(a) < Dist(prev_thread)
    <3>1. Dist(t) > Dist(a)
      BY <2>7, <1>2
    <3>2. PICK p \in Thread : prev_thread = p /\ Dist(t) <= Dist(p)
      BY <2>7, <1>7
    <3>3. Dist(p) > Dist(a)
      BY <3>1, <3>2, <1>6
    <3>4. Dist(t)' = Dist(t) - Dist(a) - 1 /\ Dist(p)' = Dist(p) - Dist(a) - 1
      BY <3>1, <3>3, <1>2, <1>12, DistMove
    <3>5. Dist(prev_thread)' = Dist(p)' /\ Dist(prev_thread) = Dist(p)
      BY <3>2, <1>3 DEF Dist
    <3> QED BY <3>2, <3>3, <3>4, <3>5, <1>6
  <2>8. RingInv'
    <3>1. ASSUME NEW t \in Thread, Inside(t)'
          PROVE  /\ Latest' # None /\ Dist(t)' <= Dist(Latest)'
                 /\ next_decoding' # next_finished'
      <4>1. Inside(t) /\ t # a
        BY <3>1, <1>2
      <4>2. Dist(Latest)' = Dist(prev_thread)'
        BY <1>3, <1>5 DEF Dist
      <4>3. Dist(t)' <= Dist(Latest)' /\ prev_thread \in Thread /\ prev_thread # a
        BY <4>1, <4>2, <2>7, <1>6
      <4>4. next_decoding' # next_finished'
        <5>1. next_decoding' = Wrap(prev_thread + 1)
          BY <4>3, <1>2, <1>12, ZeroThread DEF IInv, PlaceInv
        <5> QED BY <5>1, <4>3, <1>12, WrapInjective
      <4> QED BY <4>3, <4>4, <1>5, ZeroThread
    <3> QED BY <3>1, <1>12 DEF RingInv
  <2>9. PacketInv'
    <3>1. \A t \in Thread : Inside(t) /\ t # a =>
            Dist(Latest)' - Dist(t)' = Dist(Latest) - Dist(t)
      <4>1. Dist(Latest)' = Dist(prev_thread)' /\ Dist(Latest) = Dist(prev_thread)
        BY <1>2, <1>3, <1>5 DEF Dist
      <4> QED BY <4>1, <2>7, <1>6
    <3>2. \A t, u \in Thread : Inside(t) /\ Inside(u) /\ t # a /\ u # a =>
            (Dist(t)' < Dist(u)' <=> Dist(t) < Dist(u))
      BY <2>7, <1>6
    <3> QED BY <3>1, <3>2, <1>1, CollectPackets
  <2> QED BY <2>2, <2>6, <2>8, <2>9, <1>8, <1>9 DEF IInv
<1> QED BY <1>3, <1>11, <1>12

LEMMA FlushStep == ASSUME IInv, Flush PROVE IInv'
<1> USE FrameAssumption
<1>1. /\ main = "park" /\ state[at] = "INPUT_READY" /\ at = ThreadCount - 1 /\ Unroll
      /\ next_decoding' = 0 /\ next_finished' = 0 /\ delaying' = TRUE /\ prev_thread' = None
      /\ got_frame' = [t \in Thread |-> FALSE] /\ released_buffers' = [t \in Thread |-> FALSE]
      /\ delivered' = accepted /\ main' = "user" /\ call' = "none" /\ at' = 0
      /\ UNCHANGED <<codec, die, buffer_mutex, state, avpkt, asked, worker, waits, accepted>>
  BY DEF Flush, MainAt, Return
<1>2. TypeOK
  BY DEF IInv
<1>3. \A t \in Thread : state[t] = "INPUT_READY"
  <2>1. \A t \in Thread : t < at \/ t = at
    BY <1>1 DEF Thread
  <2> QED BY <2>1, <1>1 DEF IInv, RingInv
<1>4. \A t \in Thread : ~ SettingUp(t) /\ ~ SettingUp(t)' /\ ~ Live(t)' /\ ~ Inside(t)'
  <2>1. \A t \in Thread : avpkt[t] <= accepted /\ avpkt[t] \in Nat /\ accepted \in Nat
    BY <1>2 DEF IInv, PacketInv, TypeOK
  <2> QED BY <2>1, <1>1, <1>3 DEF SettingUp, Live, Inside, Request
<1>5. setups' \in [Thread -> Nat] /\ stale' \in BOOLEAN /\ (~ stale' => setups'[0] = accepted)
  <2>1. ~ stale => IF prev_thread = None THEN setups[0] = accepted ELSE setups[prev_thread] = accepted
    <3>1. Latest = prev_thread /\ (prev_thread # None => ~ SettingUp(prev_thread))
      BY <1>1, <1>2, <1>4 DEF Latest, TypeOK
    <3> QED BY <3>1 DEF IInv, SetupInv
  <2> QED BY <2>1, <1>1, <1>2, ZeroThread DEF Unroll, TypeOK
<1>6. TypeOK'
  <2>1. 0 \in 0 .. ThreadCount
    OBVIOUS
  <2> QED BY <2>1, <1>1, <1>2, <1>5, ZeroThread DEF TypeOK
<1>7. Latest' = None
  BY <1>1 DEF Latest
<1>8. PlaceInv'
  BY <1>1, ZeroThread DEF PlaceInv, Submitting
<1>9. RingInv'
  BY <1>1, <1>4 DEF RingInv
<1>10. PacketInv'
  <2>1. \A t \in Thread : avpkt[t] <= accepted
    BY DEF IInv, PacketInv
  <2>2. accepted \in Nat /\ delivered' <= accepted' /\ \A k \in Nat : ~ (delivered' < k /\ k <= accepted')
    BY <1>1, <1>2 DEF TypeOK
  <2> QED BY <2>1, <2>2, <1>1, <1>3, <1>4 DEF PacketInv
<1>11. StateInv'
  BY <1>1, <1>4 DEF IInv, StateInv
<1>12. SetupInv'
  BY <1>1, <1>4, <1>5, <1>7 DEF SetupInv
<1> QED BY <1>6, <1>8, <1>9, <1>10, <1>11, <1>12 DEF IInv

LEMMA NextInv == ASSUME IInv, [Next]_vars PROVE IInv'
<1>1. CASE MainStep
  BY <1>1, LockStep, ReleaseStep, SubmitStep, SubmitFailsStep, ServeStep, SubmittedStep,
     WaitStep, CollectStep, ParkStep, FlushStep, DieStep, KillStep, JoinStep DEF MainStep
<1>2. ASSUME NEW t \in Thread, WorkerStep(t) \/ ReleaseBuffer(t) PROVE IInv'
  BY <1>2, LoopStep, AskStep, GrantedStep, SetUpStep, AwaitProgressStep, ReportProgressStep,
     FinishStep, ReleaseBufferStep DEF WorkerStep
<1>3. CASE UNCHANGED vars
  <2>1. waits' \in [Agent -> WaitSet]
    BY <1>3 DEF vars, IInv, TypeOK, Agent, WaitSet
  <2> QED BY <2>1, <1>3, SleepStep DEF vars
<1> QED BY <1>1, <1>2, <1>3, CreateStep, CreateFailsStep, DecodeCallStep, FlushOrFreeStep,
           SpuriousStep DEF Next

LEMMA Invariance == Spec => []IInv
BY InitInv, NextInv, PTL DEF Spec

-----------------------------------------------------------------------------
(* The theorems *)

\* The fields of FrameThreadContext and of every PerThreadContext stay what their
\* declarations say; next_decoding is an index of threads[] whenever a call begins.
THEOREM FrameTypes == Spec => []TypeOK
<1>1. IInv => TypeOK
  BY DEF IInv
<1> QED BY <1>1, Invariance, PTL

\* update_context_from_thread gives every packet, an empty one included, the context
\* all packets before have left, for any number of threads and after any flush whose
\* update did not fail: only the thread with the last packet is ever in its setup.
THEOREM FrameSetupInOrder == Spec => []SetupInOrder
<1>1. IInv => SetupInOrder
  <2> SUFFICES ASSUME IInv, ~ stale, NEW t \in Thread, worker[t] \in {"setup", "request"}
               PROVE  setups[t] = avpkt[t] - 1
    BY DEF SetupInOrder
  <2>1. SettingUp(t)
    BY DEF IInv, StateInv, SettingUp
  <2>2. t = Latest /\ t # None
    BY <2>1, ZeroThread DEF IInv, SetupInv
  <2> QED BY <2>1, <2>2 DEF IInv, SetupInv
<1> QED BY <1>1, Invariance, PTL

\* The steps that change what has come back or gone in.
LEMMA PicturesKept ==
  ASSUME [Next]_vars, ~ Submit, ~ Collect, ~ Flush
  PROVE  UNCHANGED pictures
<1>1. CASE MainStep
  BY <1>1 DEF MainStep, Lock, Release, SubmitFails, Serve, Submitted, Wait, Park, Die, Kill, Join
<1>2. ASSUME NEW t \in Thread, WorkerStep(t) \/ ReleaseBuffer(t) PROVE UNCHANGED pictures
  BY <1>2 DEF WorkerStep, ReleaseBuffer, Loop, Ask, Granted, SetUp, AwaitProgress,
              ReportProgress, Finish
<1>3. CASE Create \/ CreateFails \/ DecodeCall \/ FlushOrFreeCall \/ SpuriousWakeup
  BY <1>3 DEF Create, CreateFails, DecodeCall, FlushOrFreeCall, SpuriousWakeup
<1>4. CASE UNCHANGED vars
  BY <1>4 DEF vars
<1> QED BY <1>1, <1>2, <1>3, <1>4 DEF Next

\* Frame threading implements the ordered codec: submit_packet accepts, the
\* collecting loop of ff_thread_decode_frame delivers the next packet's result or
\* nothing, ff_thread_flush discards, and no other step shows.
THEOREM FrameInOrder == Spec => InOrder
<1>1. Init => Ordered!Init
  BY DEF Init, Ordered!Init
<1>2. IInv /\ [Next]_vars => [Ordered!Next]_(Ordered!vars)
  <2> SUFFICES ASSUME IInv, [Next]_vars
               PROVE  Ordered!Next \/ UNCHANGED Ordered!vars
    BY DEF Ordered!vars
  <2>1. CASE Submit
    <3>1. accepted - delivered < ThreadCount
      BY <2>1, SubmitRoom DEF Submit, MainAt
    <3>2. delivered' = delivered /\ accepted' \in {accepted, accepted + 1}
      BY <2>1 DEF Submit
    <3> QED BY <3>1, <3>2 DEF Ordered!Next, Ordered!Accept, Ordered!vars
  <2>2. CASE Collect
    <3>1. PICK a \in Thread : at = a
      BY DEF IInv, TypeOK
    <3>2. /\ Live(a) => delivered' = delivered + 1 /\ avpkt[a] = delivered + 1
          /\ ~ Live(a) => delivered' = delivered
          /\ accepted' = accepted
      BY <2>2, <3>1, CollectFacts DEF Collect
    <3>3. avpkt[a] <= accepted /\ accepted \in Nat /\ delivered \in Nat
      BY <3>1 DEF IInv, PacketInv, TypeOK
    <3> QED BY <3>2, <3>3 DEF Ordered!Next, Ordered!Deliver, Ordered!vars
  <2>3. CASE Flush
    BY <2>3 DEF Flush, Ordered!Next, Ordered!Flush
  <2>4. CASE ~ Submit /\ ~ Collect /\ ~ Flush
    BY <2>4, PicturesKept DEF pictures, Ordered!vars
  <2> QED BY <2>1, <2>2, <2>3, <2>4
<1> QED BY <1>1, <1>2, Invariance, PTL DEF Spec, InOrder, Ordered!Spec

\* avcodec_decode_video2 without a packet says "no picture" only after a whole
\* round over the threads, and then the result of every packet has come back, also
\* of the empty ones for which a codec with AV_CODEC_CAP_DELAY returns pictures.
THEOREM FrameEndOfStream == Spec => EndOfStream
<1> DEFINE Ends == main = "collect" /\ main' = "user" /\ call = "drain" /\ ~ got_frame[at]
                     => delivered' = accepted
<1>1. IInv /\ [Next]_vars => [Ends]_vars
  <2> SUFFICES ASSUME IInv, [Next]_vars,
                      main = "collect", main' = "user", call = "drain", ~ got_frame[at]
               PROVE  delivered' = accepted
    OBVIOUS
  <2>1. Collect
    <3>1. ASSUME NEW t \in Thread, WorkerStep(t) \/ ReleaseBuffer(t) PROVE FALSE
      BY <3>1 DEF WorkerStep, ReleaseBuffer, Loop, Ask, Granted, SetUp, AwaitProgress,
                  ReportProgress, Finish
    <3>2. ~ UNCHANGED vars
      BY DEF vars
    <3>3. ~ (Create \/ CreateFails \/ DecodeCall \/ FlushOrFreeCall \/ SpuriousWakeup)
      BY DEF Create, CreateFails, DecodeCall, FlushOrFreeCall, SpuriousWakeup, Enter
    <3>4. MainStep
      BY <3>1, <3>2, <3>3 DEF Next
    <3> QED BY <3>4 DEF MainStep, Lock, Release, Submit, SubmitFails, Serve, Submitted, Wait,
                        Park, Flush, Die, Kill, Join, MainAt
  <2>2. PICK a \in Thread : at = a
    BY DEF IInv, TypeOK
  <2>3. Wrap(a + 1) = next_finished
    BY <2>1, <2>2 DEF Collect, SkipOn
  <2>4. next_finished \in Thread /\ Dist(a) = ThreadCount - 1
    BY <2>2, <2>3, DistNext DEF IInv, TypeOK
  <2>5. \A t \in Thread : ~ Live(t)'
    <3> SUFFICES ASSUME NEW t \in Thread, Live(t)' PROVE FALSE
      OBVIOUS
    <3>1. Live(t) /\ t # a
      BY <2>1, <2>2, CollectFacts
    <3>2. Dist(t) > Dist(a)
      BY <3>1, <2>1, <2>2, CollectFacts DEF Inside
    <3>3. Dist(t) \in 0 .. ThreadCount - 1
      BY <2>4, DistType
    <3> QED BY <3>2, <3>3, <2>4, FrameAssumption
  <2>6. TypeOK' /\ PacketInv' /\ accepted' = accepted
    BY <2>1, CollectStep DEF IInv, Collect
  <2>7. accepted' \in Nat /\ delivered' \in Nat /\ delivered' <= accepted'
    BY <2>6 DEF TypeOK, PacketInv
  <2>8. CASE delivered' < accepted'
    <3>1. PICK t \in Thread : avpkt'[t] = accepted'
      BY <2>6, <2>7, <2>8 DEF PacketInv
    <3>2. Live(t)'
      BY <3>1, <2>7, <2>8 DEF Live
    <3> QED BY <3>2, <2>5
  <2> QED BY <2>6, <2>7, <2>8
<1> QED BY <1>1, Invariance, PTL DEF Spec, EndOfStream
=============================================================================
