---------------------------- MODULE FrameThreads ----------------------------
(***************************************************************************)
(* libavcodec/pthread_frame.c: consecutive packets decoded by consecutive   *)
(* threads, the results returned in the order of the packets.  The caller's *)
(* thread (Main) hands packet k to threads[next_decoding] once the thread   *)
(* before has finished its setup, and collects from threads[next_finished]. *)
(*                                                                          *)
(* p->mutex is held by a worker from the moment it wakes up until it waits  *)
(* for input again; a section under p->progress_mutex is one step.  The     *)
(* codec itself is external: it may ask for a format and a buffer during    *)
(* its setup, finish the setup, wait for the picture before and report its  *)
(* own progress.                                                            *)
(* Both callbacks of the caller are thread safe, or none is.                *)
(***************************************************************************)
EXTENDS Integers, FiniteSets

CONSTANTS
  ThreadCount,   \* thread_count
  MaxPackets,    \* bound on the number of packets, empty ones included
  Codecs         \* the codecs and callers considered, see Codec

Thread == 0 .. ThreadCount - 1
Main == ThreadCount   \* the caller's thread
None == -1

\* update: the codec has update_thread_context; safe: THREAD_SAFE_CALLBACKS;
\* delay: AV_CODEC_CAP_DELAY; ffv1: AV_CODEC_ID_FFV1.
Codec == [update : BOOLEAN, safe : BOOLEAN, delay : BOOLEAN, ffv1 : BOOLEAN]

ASSUME FrameAssumption ==
  /\ ThreadCount \in Nat /\ ThreadCount > 1
  /\ MaxPackets \in Nat
  /\ Codecs \subseteq Codec

Request == {"GET_BUFFER", "GET_FORMAT"}
State == {"INPUT_READY", "SETTING_UP", "SETUP_FINISHED"} \cup Request

\* The condition variables of each thread.
Cond == {"input", "progress", "output"} \X Thread
Nothing == <<>>

VARIABLES
  codec,
  \* FrameThreadContext
  prev_thread, next_decoding, next_finished, delaying, die,
  buffer_mutex,     \* the worker that holds it, or None
  \* PerThreadContext
  state,
  avpkt,            \* number of the packet
  got_frame,
  released_buffers, \* whether frames wait for their release
  setups,           \* number of the last packet whose setup the context has seen
  stale,            \* whether a flush has left the first thread with an old context
  \* the threads
  main,             \* where Main is
  call,             \* what the caller has called
  at,               \* the thread Main is at
  worker,           \* where each worker is
  asked,            \* what the codec has asked for during this packet's setup
  waits,            \* the condition variable each thread sleeps on, or Nothing
  \* the pictures
  accepted,         \* number of the last packet handed over
  delivered         \* number of the packet whose picture or failure came back last

order == <<prev_thread, next_decoding, next_finished, delaying, die>>
pictures == <<accepted, delivered>>
threads == <<buffer_mutex, state, avpkt, got_frame, released_buffers, setups, asked>>
vars == <<codec, order, threads, stale, main, call, at, worker, waits, pictures>>

TypeOK ==
  /\ codec \in Codecs
  /\ prev_thread \in Thread \cup {None} /\ next_decoding \in 0 .. ThreadCount
  /\ main = "user" => next_decoding \in Thread
  /\ next_finished \in Thread /\ delaying \in BOOLEAN /\ die \in BOOLEAN
  /\ buffer_mutex \in Thread \cup {None}
  /\ state \in [Thread -> State]
  /\ avpkt \in [Thread -> Nat]
  /\ got_frame \in [Thread -> BOOLEAN]
  /\ released_buffers \in [Thread -> BOOLEAN]
  /\ setups \in [Thread -> Nat] /\ stale \in BOOLEAN
  /\ main \in {"create", "user", "lock", "release", "submit", "serve", "collect", "park",
               "kill", "join", "freed"}
  /\ call \in {"none", "packet", "drain", "flush", "free"}
  /\ at \in Thread
  /\ worker \in [Thread -> {"none", "input", "loop", "setup", "request", "decode", "finish", "dead"}]
  /\ asked \in [Thread -> SUBSET Request]
  /\ waits \in [Thread \cup {Main} -> Cond \cup {Nothing}]
  /\ accepted \in Nat /\ delivered \in Nat

Init ==
  /\ codec \in Codecs
  /\ prev_thread = None /\ next_decoding = 0 /\ next_finished = 0
  /\ delaying = TRUE /\ die = FALSE
  /\ buffer_mutex = None
  /\ state = [t \in Thread |-> "INPUT_READY"]
  /\ avpkt = [t \in Thread |-> 0]
  /\ got_frame = [t \in Thread |-> FALSE]
  /\ released_buffers = [t \in Thread |-> FALSE]
  /\ setups = [t \in Thread |-> 0] /\ stale = FALSE
  /\ main = "create" /\ call = "free" /\ at = 0
  /\ worker = [t \in Thread |-> "none"]
  /\ asked = [t \in Thread |-> {}]
  /\ waits = [a \in Thread \cup {Main} |-> Nothing]
  /\ accepted = 0 /\ delivered = 0

-----------------------------------------------------------------------------
(* Condition variables: the set of new values of waits *)

Awake(a) == waits[a] = Nothing
Sleep(a, c) == waits' = [waits EXCEPT ![a] = c]

Sleepers(c) == {a \in DOMAIN waits : waits[a] = c}
Woken(set) == [a \in DOMAIN waits |-> IF a \in set THEN Nothing ELSE waits[a]]

\* pthread_cond_signal wakes one of the sleepers.
Signal(c) ==
  \/ Sleepers(c) = {} /\ UNCHANGED waits
  \/ \E a \in Sleepers(c) : waits' = Woken({a})

\* Main holds p->mutex of the thread it submits to.
MainHolds(t) == at = t /\ main \in {"release", "submit"}
WorkerHolds(t) == worker[t] \notin {"none", "input", "dead"}

MainAt(l) == main = l /\ Awake(Main)

-----------------------------------------------------------------------------
(* submit_packet *)

Enter(c, t, l) == main = "user" /\ main' = l /\ call' = c /\ at' = t
Return == main' = "user" /\ call' = "none" /\ at' = 0

\* ff_thread_decode_frame with a packet, or with an empty one, which only a codec
\* with AV_CODEC_CAP_DELAY gets to see.
DecodeCall ==
  /\ \/ accepted < MaxPackets /\ Enter("packet", next_decoding, "lock")
     \/ codec.delay /\ accepted < MaxPackets /\ Enter("drain", next_decoding, "lock")
     \/ ~ codec.delay /\ Enter("drain", next_finished, "collect")
  /\ UNCHANGED <<codec, stale, order, threads, worker, waits, pictures>>

Lock ==
  /\ main = "lock" /\ ~ WorkerHolds(at)
  /\ main' = "release"
  /\ UNCHANGED <<codec, stale, order, threads, call, at, worker, waits, pictures>>

\* release_delayed_buffers.
Release ==
  /\ main = "release"
  /\ released_buffers[at] => buffer_mutex = None
  /\ released_buffers' = [released_buffers EXCEPT ![at] = FALSE]
  /\ main' = "submit"
  /\ UNCHANGED <<codec, stale, order, buffer_mutex, state, avpkt, got_frame, setups, asked,
                 call, at, worker, waits, pictures>>

\* Wait for the setup of the previous packet, take over its context, hand over
\* the packet and wake the worker.
Submit ==
  /\ MainAt("submit")
  /\ IF prev_thread # None /\ state[prev_thread] = "SETTING_UP"
     THEN /\ Sleep(Main, <<"progress", prev_thread>>)
          /\ UNCHANGED <<main, state, avpkt, setups, accepted>>
     ELSE /\ setups' = [setups EXCEPT ![at] = IF prev_thread = None THEN @ ELSE setups[prev_thread]]
          /\ accepted' = accepted + 1
          /\ avpkt' = [avpkt EXCEPT ![at] = accepted + 1]
          /\ state' = [state EXCEPT ![at] = "SETTING_UP"]
          /\ Signal(<<"input", at>>)
          /\ main' = "serve"
  /\ UNCHANGED <<codec, stale, order, buffer_mutex, got_frame, released_buffers, asked, call, at,
                 worker, delivered>>

\* update_context_from_thread failed: the call returns its error.
SubmitFails ==
  /\ MainAt("submit") /\ prev_thread # None /\ state[prev_thread] # "SETTING_UP"
  /\ codec.update
  /\ Return
  /\ UNCHANGED <<codec, stale, order, threads, worker, waits, pictures>>

GrantSilently == state' = [state EXCEPT ![at] = "SETTING_UP"] /\ UNCHANGED waits
Grant == state' = [state EXCEPT ![at] = "SETTING_UP"] /\ Signal(<<"progress", at>>)

\* The caller's callbacks are called here, in Main, until the setup is finished.
Serve ==
  /\ MainAt("serve") /\ ~ codec.safe
  /\ \/ /\ state[at] = "SETTING_UP"
        /\ Sleep(Main, <<"progress", at>>) /\ UNCHANGED state
     \/ state[at] \in Request /\ Grant
  /\ UNCHANGED <<codec, stale, order, buffer_mutex, avpkt, got_frame, released_buffers, setups, asked,
                 main, call, at, worker, pictures>>

\* While delaying, a call with a packet returns without a picture.
Submitted ==
  /\ MainAt("serve")
  /\ codec.safe \/ state[at] \in {"SETUP_FINISHED", "INPUT_READY"}
  /\ prev_thread' = at
  /\ next_decoding' = next_decoding + 1
  /\ delaying' = (delaying /\ next_decoding' <= ThreadCount - 1 - (IF codec.ffv1 THEN 1 ELSE 0))
  /\ IF delaying' /\ call = "packet" THEN Return
     ELSE main' = "collect" /\ at' = next_finished /\ UNCHANGED call
  /\ UNCHANGED <<codec, stale, next_finished, die, threads, worker, waits, pictures>>

-----------------------------------------------------------------------------
(* The rest of ff_thread_decode_frame *)

AwaitOutput == state[at] # "INPUT_READY" /\ Sleep(Main, <<"output", at>>)

WrapLate(n) == IF n > ThreadCount THEN 0 ELSE n
Wrap(n) == IF n >= ThreadCount THEN 0 ELSE n

GotFrameKept == UNCHANGED got_frame
GotFrameTaken == got_frame' = [got_frame EXCEPT ![at] = FALSE]

OnlyOne(finished) == FALSE

\* A call that drains skips the threads without a picture, once around.
SkipOn(finished) == call = "drain" /\ ~ got_frame[at] /\ finished # next_finished

\* The next result; without a packet, the next one that is a picture.
Collect ==
  /\ MainAt("collect") /\ state[at] = "INPUT_READY"
  /\ delivered' = IF got_frame[at] \/ avpkt[at] > delivered THEN avpkt[at] ELSE delivered
  /\ GotFrameTaken
  /\ LET finished == Wrap(at + 1) IN
       IF SkipOn(finished)
       THEN at' = finished /\ UNCHANGED <<main, call, next_finished, next_decoding>>
       ELSE next_finished' = finished /\ next_decoding' = Wrap(next_decoding) /\ Return
  /\ UNCHANGED <<codec, stale, prev_thread, delaying, die, buffer_mutex, state, avpkt,
                 released_buffers, setups, asked, worker, waits, accepted>>

-----------------------------------------------------------------------------
(* park_frame_worker_threads, ff_thread_flush, ff_frame_thread_free and _init *)

\* pthread_create of the threads one after the other.
Create ==
  /\ main = "create"
  /\ worker' = [worker EXCEPT ![at] = "input"]
  /\ IF at = ThreadCount - 1 THEN Return
     ELSE at' = at + 1 /\ UNCHANGED <<main, call>>
  /\ UNCHANGED <<codec, stale, order, threads, waits, pictures>>

CreateFails ==
  /\ main = "create"
  /\ main' = "park" /\ at' = 0
  /\ UNCHANGED <<codec, stale, order, threads, call, worker, waits, pictures>>

FlushOrFreeCall ==
  /\ \E c \in {"flush", "free"} : Enter(c, 0, "park")
  /\ UNCHANGED <<codec, stale, order, threads, worker, waits, pictures>>

\* Main sleeps until the thread it wants to collect from or to park is ready.
Wait ==
  /\ MainAt("collect") \/ MainAt("park")
  /\ AwaitOutput
  /\ UNCHANGED <<codec, stale, order, threads, main, call, at, worker, pictures>>

Park ==
  /\ MainAt("park") /\ state[at] = "INPUT_READY" /\ at < ThreadCount - 1
  /\ got_frame' = [got_frame EXCEPT ![at] = FALSE]
  /\ at' = at + 1
  /\ UNCHANGED <<codec, stale, order, buffer_mutex, state, avpkt, released_buffers, setups, asked,
                 main, call, worker, waits, pictures>>

UnrollNothing == UNCHANGED <<setups, stale>>

\* The context of the last packet goes back to the first thread, unless the codec's
\* update_thread_context fails, which ff_thread_flush ignores.
Unroll ==
  \/ /\ setups' = [setups EXCEPT ![0] = IF prev_thread = None THEN @ ELSE setups[prev_thread]]
     /\ UNCHANGED stale
  \/ /\ codec.update /\ prev_thread \notin {None, 0}
     /\ stale' = TRUE /\ UNCHANGED setups

Flush ==
  /\ MainAt("park") /\ call = "flush" /\ state[at] = "INPUT_READY" /\ at = ThreadCount - 1
  /\ Unroll
  /\ next_decoding' = 0 /\ next_finished' = 0 /\ delaying' = TRUE /\ prev_thread' = None
  /\ got_frame' = [t \in Thread |-> FALSE]
  /\ released_buffers' = [t \in Thread |-> FALSE]
  /\ delivered' = accepted
  /\ Return
  /\ UNCHANGED <<codec, die, buffer_mutex, state, avpkt, asked, worker, waits, accepted>>

Die ==
  /\ MainAt("park") /\ call = "free" /\ state[at] = "INPUT_READY" /\ at = ThreadCount - 1
  /\ Unroll
  /\ got_frame' = [got_frame EXCEPT ![at] = FALSE]
  /\ die' = TRUE
  /\ main' = "kill" /\ at' = 0
  /\ UNCHANGED <<codec, prev_thread, next_decoding, next_finished, delaying, buffer_mutex, state,
                 avpkt, released_buffers, asked, call, worker, waits, pictures>>

Kill ==
  /\ main = "kill" /\ ~ WorkerHolds(at)
  /\ Signal(<<"input", at>>)
  /\ main' = "join"
  /\ UNCHANGED <<codec, stale, order, threads, call, at, worker, pictures>>

Join ==
  /\ main = "join" /\ worker[at] \in {"none", "dead"}
  /\ released_buffers' = [released_buffers EXCEPT ![at] = FALSE]
  /\ IF at = ThreadCount - 1 THEN main' = "freed" /\ UNCHANGED at
     ELSE main' = "kill" /\ at' = at + 1
  /\ UNCHANGED <<codec, stale, order, buffer_mutex, state, avpkt, got_frame, setups, asked,
                 call, worker, waits, pictures>>

-----------------------------------------------------------------------------
(* frame_worker_thread *)

Go(t, l) == worker' = [worker EXCEPT ![t] = l]

\* With p->mutex: leave, wait for input, or begin to decode.
Loop(t) ==
  /\ worker[t] = "loop" \/ (worker[t] = "input" /\ Awake(t) /\ ~ MainHolds(t))
  /\ \/ die /\ Go(t, "dead") /\ UNCHANGED <<waits, got_frame>>
     \/ /\ ~ die /\ state[t] = "INPUT_READY"
        /\ Go(t, "input") /\ Sleep(t, <<"input", t>>) /\ UNCHANGED got_frame
     \/ /\ ~ die /\ state[t] # "INPUT_READY"
        /\ got_frame' = [got_frame EXCEPT ![t] = FALSE]
        /\ Go(t, "setup") /\ UNCHANGED waits
  /\ UNCHANGED <<codec, stale, order, buffer_mutex, state, avpkt, released_buffers, setups, asked,
                 main, call, at, pictures>>

\* thread_get_buffer_internal and ff_thread_get_format, when Main has to call the
\* caller's function: only during setup, and a buffer under buffer_mutex.
Ask(t, request) ==
  /\ worker[t] = "setup" /\ ~ codec.safe /\ state[t] = "SETTING_UP"
  /\ request \notin asked[t]
  /\ asked' = [asked EXCEPT ![t] = @ \cup {request}]
  /\ IF request = "GET_BUFFER" THEN buffer_mutex = None /\ buffer_mutex' = t
     ELSE UNCHANGED buffer_mutex
  /\ state' = [state EXCEPT ![t] = request]
  /\ waits' = [Woken(Sleepers(<<"progress", t>>)) EXCEPT ![t] = <<"progress", t>>]
  /\ Go(t, "request")
  /\ UNCHANGED <<codec, stale, order, avpkt, got_frame, released_buffers, setups, main, call,
                 at, pictures>>

\* The setup of the packet ends: state and context as the next thread sees them.
FinishSetup(t) ==
  /\ state' = [state EXCEPT ![t] = "SETUP_FINISHED"]
  /\ setups' = [setups EXCEPT ![t] = avpkt[t]]
  /\ asked' = [asked EXCEPT ![t] = {}]
  /\ waits' = Woken(Sleepers(<<"progress", t>>))
  /\ Go(t, "decode")

\* The request is granted; a buffer ends the setup of a codec that does not do it
\* by itself.
Granted(t) ==
  /\ worker[t] = "request" /\ Awake(t)
  /\ \/ state[t] # "SETTING_UP" /\ Sleep(t, <<"progress", t>>)
        /\ UNCHANGED <<state, setups, asked, worker, buffer_mutex>>
     \/ /\ state[t] = "SETTING_UP"
        /\ buffer_mutex' = IF buffer_mutex = t THEN None ELSE buffer_mutex
        /\ IF buffer_mutex = t /\ ~ codec.update THEN FinishSetup(t)
           ELSE Go(t, "setup") /\ UNCHANGED <<state, setups, asked, waits>>
  /\ UNCHANGED <<codec, stale, order, avpkt, got_frame, released_buffers, main, call, at, pictures>>

\* ff_thread_finish_setup, by the codec or by the worker when the codec did not.
SetUp(t) ==
  /\ worker[t] = "setup"
  /\ FinishSetup(t)
  /\ UNCHANGED <<codec, stale, order, buffer_mutex, avpkt, got_frame, released_buffers, main, call, at,
                 pictures>>

\* ff_thread_release_buffer, when only Main may call the caller's function.
ReleaseBuffer(t) ==
  /\ worker[t] = "decode" /\ Awake(t) /\ ~ codec.safe /\ buffer_mutex = None
  /\ released_buffers' = [released_buffers EXCEPT ![t] = TRUE]
  /\ UNCHANGED <<codec, stale, order, buffer_mutex, state, avpkt, got_frame, setups, asked,
                 main, call, at, worker, waits, pictures>>

\* The picture of packet k is owned by thread t and has not reported its progress.
Undecoded(t, k) == avpkt[t] = k /\ state[t] # "INPUT_READY" /\ worker[t] # "finish"

\* ff_thread_await_progress: wait for the picture of the packet before.
AwaitProgress(t) ==
  /\ worker[t] = "decode" /\ Awake(t) /\ codec.update
  /\ \E owner \in Thread :
       avpkt[t] > 1 /\ Undecoded(owner, avpkt[t] - 1) /\ Sleep(t, <<"progress", owner>>)
  /\ UNCHANGED <<codec, stale, order, threads, main, call, at, worker, pictures>>

\* ff_thread_report_progress of the whole picture, whether it needed the one before
\* or not.
ReportProgress(t) ==
  /\ worker[t] = "decode" /\ Awake(t)
  /\ waits' = Woken(Sleepers(<<"progress", t>>))
  /\ Go(t, "finish")
  /\ UNCHANGED <<codec, stale, order, threads, main, call, at, pictures>>

\* The codec returns, with a picture or without; for an empty packet the picture is
\* one it has kept back.
Finish(t) ==
  /\ worker[t] = "finish"
  /\ \E got \in BOOLEAN : got_frame' = [got_frame EXCEPT ![t] = got]
  /\ state' = [state EXCEPT ![t] = "INPUT_READY"]
  /\ waits' = Woken(Sleepers(<<"progress", t>>) \cup Sleepers(<<"output", t>>))
  /\ Go(t, "loop")
  /\ UNCHANGED <<codec, stale, order, buffer_mutex, avpkt, released_buffers, setups, asked,
                 main, call, at, pictures>>

\* pthread_cond_wait may return without a signal.  A worker in its wait for input
\* could only see die a little earlier, and is left alone.
SpuriousWakeup ==
  /\ \E a \in DOMAIN waits : ~ Awake(a) /\ waits[a][1] # "input" /\ waits' = Woken({a})
  /\ UNCHANGED <<codec, stale, order, threads, main, call, at, worker, pictures>>

-----------------------------------------------------------------------------
MainStep ==
  \/ Lock \/ Release \/ Submit \/ SubmitFails \/ Serve \/ Submitted \/ Wait \/ Collect
  \/ Park \/ Flush \/ Die \/ Kill \/ Join

WorkerStep(t) ==
  \/ Loop(t) \/ (\E request \in Request : Ask(t, request)) \/ Granted(t) \/ SetUp(t)
  \/ AwaitProgress(t) \/ ReportProgress(t) \/ Finish(t)

Next ==
  \/ Create \/ CreateFails \/ DecodeCall \/ FlushOrFreeCall \/ MainStep
  \/ \E t \in Thread : WorkerStep(t) \/ ReleaseBuffer(t)
  \/ SpuriousWakeup

\* A call that has begun goes on, the workers run and the codec returns; no one
\* has to call, and no one wakes up without a signal.
Spec == /\ Init /\ [][Next]_vars
        /\ WF_vars(MainStep) /\ \A t \in Thread : WF_vars(WorkerStep(t))

-----------------------------------------------------------------------------
(* Properties *)

\* However the workers overtake each other and in whatever order the caller
\* decodes, drains and flushes: results come back in the order of the packets, the
\* empty ones with which a codec is drained included, a picture never twice, with
\* at most thread_count packets inside.
Ordered == INSTANCE OrderedCodec WITH Depth <- ThreadCount, MayFlush <- TRUE
InOrder == Ordered!Spec

\* A decoder sets up a packet with the context all packets before have left, one
\* of another thread, after a flush as well, unless the update at a flush failed:
\* ff_thread_flush goes on as if it had not.
SetupInOrder ==
  ~ stale =>
    \A t \in Thread : worker[t] \in {"setup", "request"} /\ codec.update
                        => setups[t] = avpkt[t] - 1

\* A call that drains says "no picture" only when no thread holds another, be it
\* the picture of a packet or one the codec has returned for an empty packet: the
\* callers take it for the end of the stream.
EndOfStream ==
  [][main = "collect" /\ main' = "user" /\ call = "drain" /\ ~ got_frame[at]
       => delivered' = accepted]_vars

\* No signal is lost and nobody waits in a circle, Main serving the callbacks of
\* a worker included: every call returns, the one that joins the workers too.
CallsReturn == main \notin {"create", "user", "freed"} ~> main \in {"user", "freed"}
=============================================================================
