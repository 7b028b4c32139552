--------------------------- MODULE EncoderThreads ---------------------------
(***************************************************************************)
(* libavcodec/frame_thread_encoder.c: frames of an intra-only codec encoded *)
(* by a pool of workers.  The caller's thread (main) writes tasks to a FIFO *)
(* and collects the results, in order, from the ring finished_tasks; a task *)
(* carries the ring entry its result goes to.                               *)
(*                                                                          *)
(* A critical section is one step, and threads interleave wherever no mutex *)
(* is held.  A thread in pthread_cond_wait is asleep until it is signalled  *)
(* or, as POSIX allows, wakes up by itself.                                 *)
(***************************************************************************)
EXTENDS Integers, Sequences

CONSTANTS
  Worker,      \* the worker threads
  Threads,     \* thread_count
  BufferSize,  \* BUFFER_SIZE, the length of the ring: twice the threads at most allowed
  MaxFrames    \* bound on the number of frames

ASSUME EncoderAssumption ==
  /\ Threads \in Nat /\ BufferSize \in Nat /\ Threads + 1 < BufferSize
  /\ MaxFrames \in Nat

VARIABLES
  task_fifo,             \* tasks no worker has taken
  finished_tasks,        \* the outdata of each ring entry: a frame's number or Null
  task_index,            \* ring entry of the next task
  finished_task_index,   \* ring entry of the next result
  exit,
  main,                  \* where the caller's thread is
  wpc,                   \* where each worker is
  task,                  \* the task each worker is at
  accepted,              \* number of the last frame handed over
  delivered              \* number of the frame whose packet was returned last

ring == <<finished_tasks, task_index, finished_task_index>>
frames == <<accepted, delivered>>
vars == <<task_fifo, ring, exit, main, wpc, task, frames>>

Null == 0
Slot == 0 .. BufferSize - 1
Task == [index : Slot, frame : Nat \ {0}]

TypeOK ==
  /\ task_fifo \in Seq(Task)
  /\ finished_tasks \in [Slot -> Nat]
  /\ task_index \in Slot /\ finished_task_index \in Slot
  /\ exit \in BOOLEAN
  /\ main \in {"create", "user", "written", "collect", "asleep", "join", "freed"}
  /\ wpc \in [Worker -> {"none", "take", "asleep", "encode", "store", "closed"}]
  /\ task \in [Worker -> Task]
  /\ accepted \in Nat /\ delivered \in Nat

Init ==
  /\ task_fifo = <<>>
  /\ finished_tasks = [i \in Slot |-> Null]
  /\ task_index = 0 /\ finished_task_index = 0
  /\ exit = FALSE
  /\ main = "create"
  /\ wpc = [w \in Worker |-> "none"]
  /\ task = [w \in Worker |-> [index |-> 0, frame |-> 1]]
  /\ accepted = 0 /\ delivered = 0

Move(w, from, to) == wpc[w] = from /\ wpc' = [wpc EXCEPT ![w] = to]
MainMove(from, to) == main = from /\ main' = to

-----------------------------------------------------------------------------
(* ff_frame_thread_encoder_init and _free *)

CreateWorker(w) ==
  /\ main = "create"
  /\ Move(w, "none", "take")
  /\ main' = IF \E v \in Worker \ {w} : wpc[v] = "none" THEN "create" ELSE "user"
  /\ UNCHANGED <<task_fifo, ring, exit, task, frames>>

\* exit = 1 and a broadcast on task_fifo_cond, by the caller or because a thread
\* could not be created.
Free ==
  /\ main \in {"user", "create"} /\ main' = "join"
  /\ exit' = TRUE
  /\ wpc' = [w \in Worker |-> IF wpc[w] = "asleep" THEN "take" ELSE wpc[w]]
  /\ UNCHANGED <<task_fifo, ring, task, frames>>

Join ==
  /\ MainMove("join", "freed")
  /\ \A w \in Worker : wpc[w] \in {"none", "closed"}
  /\ UNCHANGED <<task_fifo, ring, exit, wpc, task, frames>>

-----------------------------------------------------------------------------
(* ff_thread_video_encode_frame *)

SuccNoWrap(i) == i + 1
Succ(i) == (i + 1) % BufferSize
UnderWay == (task_index - finished_task_index) % BufferSize

WriteTaskUnsignalled ==
  /\ MainMove("user", "written") /\ accepted < MaxFrames
  /\ task_fifo' = Append(task_fifo, [index |-> task_index, frame |-> accepted + 1])
  /\ task_index' = Succ(task_index)
  /\ accepted' = accepted + 1
  /\ UNCHANGED <<finished_tasks, finished_task_index, exit, wpc, task, delivered>>

\* A frame is handed over, and one sleeping worker, if there is one, woken up.
WriteTask ==
  /\ MainMove("user", "written") /\ accepted < MaxFrames
  /\ task_fifo' = Append(task_fifo, [index |-> task_index, frame |-> accepted + 1])
  /\ \/ \E w \in Worker : Move(w, "asleep", "take")
     \/ (\A w \in Worker : wpc[w] # "asleep") /\ UNCHANGED wpc
  /\ task_index' = Succ(task_index)
  /\ accepted' = accepted + 1
  /\ UNCHANGED <<finished_tasks, finished_task_index, exit, task, delivered>>

LookUnbounded ==
  /\ MainMove("written", IF finished_tasks[finished_task_index] = Null THEN "user" ELSE "collect")
  /\ UNCHANGED <<task_fifo, ring, exit, wpc, task, frames>>

\* With few tasks under way and no result ready the call returns.  The look at
\* the ring is without the mutex: it may miss a result that is just stored.
Look ==
  /\ \/ UnderWay <= Threads /\ MainMove("written", "user")
     \/ /\ UnderWay > Threads \/ finished_tasks[finished_task_index] # Null
        /\ MainMove("written", IF task_index = finished_task_index THEN "user" ELSE "collect")
  /\ UNCHANGED <<task_fifo, ring, exit, wpc, task, frames>>

\* A call without a frame: there is nothing to wait for when no task is under way.
Drain ==
  /\ MainMove("user", "collect") /\ task_index # finished_task_index
  /\ UNCHANGED <<task_fifo, ring, exit, wpc, task, frames>>

\* The loop around pthread_cond_wait(&finished_task_cond): sleep, or return the
\* packet and empty its ring entry.
Collect ==
  /\ main = "collect"
  /\ LET result == finished_tasks[finished_task_index] IN
       \/ /\ result = Null
          /\ main' = "asleep" /\ UNCHANGED <<ring, delivered>>
       \/ /\ result # Null
          /\ delivered' = result
          /\ finished_tasks' = [finished_tasks EXCEPT ![finished_task_index] = Null]
          /\ finished_task_index' = Succ(finished_task_index)
          /\ main' = "user" /\ UNCHANGED task_index
  /\ UNCHANGED <<task_fifo, exit, wpc, task, accepted>>

-----------------------------------------------------------------------------
(* worker *)

\* Under task_fifo_mutex: leave, sleep, or take the first task.
Take(w) ==
  /\ \/ exit /\ Move(w, "take", "closed") /\ UNCHANGED <<task_fifo, task>>
     \/ ~ exit /\ task_fifo = <<>> /\ Move(w, "take", "asleep") /\ UNCHANGED <<task_fifo, task>>
     \/ /\ ~ exit /\ task_fifo # <<>>
        /\ task' = [task EXCEPT ![w] = Head(task_fifo)]
        /\ task_fifo' = Tail(task_fifo)
        /\ Move(w, "take", "encode")
  /\ UNCHANGED <<ring, exit, main, frames>>

\* avcodec_encode_video2, with a packet or without, and av_frame_unref.
Encode(w) ==
  /\ Move(w, "encode", "store")
  /\ UNCHANGED <<task_fifo, ring, exit, main, task, frames>>

StoreAtNext(w) ==
  /\ Move(w, "store", "take")
  /\ finished_tasks' = [finished_tasks EXCEPT ![finished_task_index] = task[w].frame]
  /\ main' = IF main = "asleep" THEN "collect" ELSE main
  /\ UNCHANGED <<task_fifo, task_index, finished_task_index, exit, task, frames>>

\* The result goes to the task's ring entry, and finished_task_cond is signalled.
Store(w) ==
  /\ Move(w, "store", "take")
  /\ finished_tasks' = [finished_tasks EXCEPT ![task[w].index] = task[w].frame]
  /\ main' = IF main = "asleep" THEN "collect" ELSE main
  /\ UNCHANGED <<task_fifo, task_index, finished_task_index, exit, task, frames>>

\* pthread_cond_wait may return without a signal.
SpuriousWakeup ==
  /\ \/ MainMove("asleep", "collect") /\ UNCHANGED wpc
     \/ \E w \in Worker : Move(w, "asleep", "take") /\ UNCHANGED main
  /\ UNCHANGED <<task_fifo, ring, exit, task, frames>>

MainStep == Look \/ Collect \/ Join
WorkerStep(w) == Take(w) \/ Encode(w) \/ Store(w)

Next ==
  \/ \E w \in Worker : CreateWorker(w) \/ WorkerStep(w)
  \/ Free \/ WriteTask \/ Drain \/ MainStep
  \/ SpuriousWakeup

\* A call that has begun goes on and the workers run; no one has to call, and no
\* one wakes up without a signal.
Spec == /\ Init /\ [][Next]_vars
        /\ WF_vars(MainStep) /\ \A w \in Worker : WF_vars(WorkerStep(w))

-----------------------------------------------------------------------------
(* Properties *)

\* However the workers overtake each other, packets come back in the order of
\* the frames, each once, with at most thread_count + 1 frames inside.
Ordered == INSTANCE OrderedCodec WITH Depth <- Threads + 1, MayFlush <- FALSE
InOrder == Ordered!Spec

\* The ring is long enough: a worker never overwrites a result that has not been
\* collected, and the FIFO, written without a check, never holds more tasks than
\* it has room for (the wait in ff_thread_video_encode_frame bounds both).
RingSuffices ==
  /\ Len(task_fifo) <= BufferSize
  /\ \A w \in Worker : wpc[w] = "store" => finished_tasks[task[w].index] = Null

\* No signal is lost: every call of the caller returns, the last one, which joins
\* the workers, included.
CallsReturn == main \in {"written", "collect", "asleep", "join"} ~> main \in {"user", "freed"}
=============================================================================
