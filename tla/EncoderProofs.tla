--------------------------- MODULE EncoderProofs ---------------------------
(* Proofs about EncoderThreads, for any number of workers, ring and frames. *)
EXTENDS EncoderThreads, TLAPS

\* How far ring entry i lies ahead of the next one to be collected.
Ahead(i) == IF i >= finished_task_index THEN i - finished_task_index
            ELSE i - finished_task_index + BufferSize

\* A task or result of frame f in ring entry i is where frame f belongs.
Placed(f, i) == f > delivered /\ f <= accepted /\ Ahead(i) = f - delivered - 1

Busy(w) == wpc[w] \in {"encode", "store"}

\* The frames inside: as many as the ring indices say, never too many.
CountInv ==
  /\ delivered <= accepted
  /\ accepted <= delivered + Threads + 1
  /\ main \in {"create", "user", "join", "freed"} => accepted <= delivered + Threads
  /\ main = "written" => delivered < accepted
  /\ Ahead(task_index) = accepted - delivered

\* The FIFO holds the frames accepted last, in order.
FifoInv ==
  \A k \in 1 .. Len(task_fifo) :
    /\ task_fifo[k].frame = accepted - Len(task_fifo) + k
    /\ Placed(task_fifo[k].frame, task_fifo[k].index)

\* Workers hold earlier frames, each its own.
TaskInv ==
  \A w \in Worker : Busy(w) =>
    /\ Placed(task[w].frame, task[w].index)
    /\ task[w].frame <= accepted - Len(task_fifo)
    /\ \A v \in Worker \ {w} : Busy(v) => task[v].frame # task[w].frame

\* Results are of earlier frames no worker holds.
ResultInv ==
  \A i \in Slot : finished_tasks[i] # Null =>
    /\ Placed(finished_tasks[i], i)
    /\ finished_tasks[i] <= accepted - Len(task_fifo)
    /\ \A w \in Worker : Busy(w) => task[w].frame # finished_tasks[i]

IInv == TypeOK /\ CountInv /\ FifoInv /\ TaskInv /\ ResultInv

\* The ring's arithmetic without the modulus.
LEMMA SuccStep ==
  ASSUME NEW i \in Slot
  PROVE  Succ(i) = IF i + 1 = BufferSize THEN 0 ELSE i + 1
BY EncoderAssumption DEF Succ, Slot

LEMMA ModSmall ==
  ASSUME NEW B \in Nat \ {0}, NEW x \in 0 .. B - 1
  PROVE  x % B = x
BY SMT

LEMMA ModNegative ==
  ASSUME NEW B \in Nat \ {0}, NEW x \in 1 .. B - 1
  PROVE  (0 - x) % B = B - x
BY SMT

LEMMA UnderWayAhead ==
  ASSUME TypeOK
  PROVE  UnderWay = Ahead(task_index)
<1>1. task_index \in Int /\ finished_task_index \in Int /\ BufferSize \in Nat \ {0}
  BY EncoderAssumption DEF TypeOK, Slot
<1>2. CASE task_index >= finished_task_index
  <2> DEFINE d == task_index - finished_task_index
  <2>1. d \in 0 .. BufferSize - 1
    BY <1>1, <1>2 DEF TypeOK, Slot
  <2>2. d % BufferSize = d
    BY <2>1, <1>1, ModSmall
  <2> QED BY <2>2, <1>2 DEF UnderWay, Ahead
<1>3. CASE task_index < finished_task_index
  <2> DEFINE d == finished_task_index - task_index
  <2>1. d \in 1 .. BufferSize - 1 /\ task_index - finished_task_index = 0 - d
    BY <1>1, <1>3 DEF TypeOK, Slot
  <2>2. (0 - d) % BufferSize = BufferSize - d
    BY <2>1, <1>1, ModNegative
  <2> QED BY <2>1, <2>2, <1>1, <1>3 DEF UnderWay, Ahead
<1> QED BY <1>1, <1>2, <1>3

LEMMA InitInv == Init => IInv
<1> SUFFICES ASSUME Init PROVE IInv
  OBVIOUS
<1> USE EncoderAssumption
<1>1. TypeOK
  <2>1. 0 \in Slot
    BY DEF Slot
  <2> QED BY <2>1 DEF Init, TypeOK, Task, Null
<1>2. CountInv
  BY DEF Init, CountInv, Ahead
<1>3. FifoInv /\ TaskInv /\ ResultInv
  BY DEF Init, FifoInv, TaskInv, ResultInv, Busy, Null
<1> QED BY <1>1, <1>2, <1>3 DEF IInv

\* A step that moves threads about and leaves tasks, ring and frames alone.
LEMMA QuietStep ==
  ASSUME IInv, TypeOK', UNCHANGED <<task_fifo, ring, frames, task>>, CountInv',
         \A w \in Worker : Busy(w)' => Busy(w)
  PROVE  IInv'
BY DEF IInv, FifoInv, TaskInv, ResultInv, Placed, Ahead, ring, frames, Slot

LEMMA NextInv == IInv /\ [Next]_vars => IInv'
<1> SUFFICES ASSUME IInv, [Next]_vars PROVE IInv'
  OBVIOUS
<1> USE EncoderAssumption
<1> TypeOK /\ CountInv
  BY DEF IInv
<1>1. ASSUME NEW w \in Worker, CreateWorker(w) PROVE IInv'
  <2>1. TypeOK' /\ CountInv' /\ \A v \in Worker : Busy(v)' => Busy(v)
    BY <1>1 DEF CreateWorker, Move, TypeOK, CountInv, Ahead, ring, frames, Busy
  <2> QED BY <2>1, <1>1, QuietStep DEF CreateWorker
<1>2. CASE Free
  <2>1. TypeOK' /\ CountInv' /\ \A v \in Worker : Busy(v)' => Busy(v)
    BY <1>2 DEF Free, TypeOK, CountInv, Ahead, ring, frames, Busy
  <2> QED BY <2>1, <1>2, QuietStep DEF Free
<1>3. CASE Join
  <2>1. TypeOK' /\ CountInv' /\ \A v \in Worker : Busy(v)' => Busy(v)
    BY <1>3 DEF Join, MainMove, TypeOK, CountInv, Ahead, ring, frames, Busy
  <2> QED BY <2>1, <1>3, QuietStep DEF Join
<1>4. CASE WriteTask
  <2> DEFINE new == [index |-> task_index, frame |-> accepted + 1]
  <2>1. /\ main = "user" /\ main' = "written" /\ accepted' = accepted + 1
        /\ task_fifo' = Append(task_fifo, new) /\ task_index' = Succ(task_index)
        /\ UNCHANGED <<finished_tasks, finished_task_index, exit, task, delivered>>
    BY <1>4 DEF WriteTask, MainMove
  <2>2. wpc' \in [Worker -> {"none", "take", "asleep", "encode", "store", "closed"}]
        /\ \A v \in Worker : Busy(v)' <=> Busy(v)
    BY <1>4 DEF WriteTask, Move, TypeOK, Busy
  <2>3. task_index' \in Slot /\ Ahead(task_index)' = Ahead(task_index) + 1
    <3>1. task_index \in Slot /\ finished_task_index \in Slot /\ BufferSize \in Nat
          /\ Threads \in Nat /\ Threads + 1 < BufferSize
      BY DEF TypeOK
    <3>2. Ahead(task_index) <= Threads
      BY <2>1 DEF CountInv, TypeOK
    <3>3. task_index' = IF task_index + 1 = BufferSize THEN 0 ELSE task_index + 1
      BY <2>1, <3>1, SuccStep
    <3>4. Ahead(task_index)' = IF task_index' >= finished_task_index
                               THEN task_index' - finished_task_index
                               ELSE task_index' - finished_task_index + BufferSize
      BY <2>1 DEF Ahead
    <3>5. CASE task_index + 1 = BufferSize
      <4>1. task_index >= finished_task_index /\ task_index' = 0
        BY <3>1, <3>3, <3>5 DEF Slot
      <4>2. finished_task_index > 0
        BY <4>1, <3>1, <3>2, <3>5 DEF Slot, Ahead
      <4> QED BY <4>1, <4>2, <3>1, <3>4, <3>5 DEF Slot, Ahead
    <3>6. CASE task_index + 1 # BufferSize
      <4>1. task_index' = task_index + 1 /\ task_index + 1 # finished_task_index
        BY <3>1, <3>2, <3>3, <3>6 DEF Slot, Ahead
      <4> QED BY <4>1, <3>1, <3>4, <3>6 DEF Slot, Ahead
    <3> QED BY <3>5, <3>6
  <2>4. new \in Task /\ Len(task_fifo') = Len(task_fifo) + 1 /\ Len(task_fifo) \in Nat
        /\ task_fifo' \in Seq(Task)
        /\ task_fifo'[Len(task_fifo) + 1] = new
        /\ \A k \in 1 .. Len(task_fifo) : task_fifo'[k] = task_fifo[k]
    BY <2>1 DEF TypeOK, Task
  <2>5. TypeOK'
    BY <2>1, <2>2, <2>3, <2>4 DEF TypeOK
  <2>6. CountInv'
    BY <2>1, <2>3 DEF CountInv, TypeOK
  <2>7. FifoInv'
    <3> SUFFICES ASSUME NEW k \in 1 .. Len(task_fifo) + 1
                 PROVE  /\ task_fifo'[k].frame = accepted' - (Len(task_fifo) + 1) + k
                        /\ Placed(task_fifo[k].frame, task_fifo[k].index)'
      BY <2>4 DEF FifoInv
    <3>1. CASE k = Len(task_fifo) + 1
      <4>1. task_fifo'[k].frame = accepted + 1 /\ task_fifo'[k].index = task_index
        BY <3>1, <2>4
      <4>2. Ahead(task_fifo[k].index)' = Ahead(task_index)
        BY <4>1, <2>1 DEF Ahead
      <4> QED BY <4>1, <4>2, <3>1, <2>1, <2>4 DEF CountInv, TypeOK, Placed
    <3>2. CASE k # Len(task_fifo) + 1
      <4>1. k \in 1 .. Len(task_fifo) /\ task_fifo'[k] = task_fifo[k]
        BY <3>2, <2>4
      <4>2. task_fifo[k].frame = accepted - Len(task_fifo) + k
            /\ Placed(task_fifo[k].frame, task_fifo[k].index)
        BY <4>1 DEF IInv, FifoInv
      <4> QED BY <4>1, <4>2, <2>1, <2>4 DEF Placed, Ahead, TypeOK
    <3> QED BY <3>1, <3>2
  <2>8. TaskInv'
    BY <2>1, <2>2, <2>4 DEF TaskInv, IInv, Placed, Ahead, TypeOK, Task
  <2>9. ResultInv'
    BY <2>1, <2>2, <2>4 DEF ResultInv, IInv, Placed, Ahead, TypeOK
  <2> QED BY <2>5, <2>6, <2>7, <2>8, <2>9 DEF IInv
<1>5. CASE Look
  <2>1. TypeOK' /\ \A v \in Worker : Busy(v)' => Busy(v)
    BY <1>5 DEF Look, MainMove, TypeOK, ring, frames, Busy
  <2>2. CountInv'
    BY <1>5, UnderWayAhead DEF Look, MainMove, TypeOK, CountInv, Ahead, ring, frames, Slot
  <2> QED BY <2>1, <2>2, <1>5, QuietStep DEF Look
<1>6. CASE Drain
  <2>1. TypeOK' /\ CountInv' /\ \A v \in Worker : Busy(v)' => Busy(v)
    BY <1>6 DEF Drain, MainMove, TypeOK, CountInv, Ahead, ring, frames, Busy
  <2> QED BY <2>1, <1>6, QuietStep DEF Drain
<1>7. CASE Collect
  <2>1. CASE finished_tasks[finished_task_index] = Null
    <3>1. /\ main' = "asleep" /\ main = "collect"
          /\ UNCHANGED <<task_fifo, ring, exit, wpc, task, accepted, delivered>>
      BY <2>1, <1>7 DEF Collect
    <3>2. TypeOK' /\ CountInv' /\ \A v \in Worker : Busy(v)' => Busy(v)
      BY <3>1 DEF TypeOK, CountInv, Ahead, ring, Busy
    <3> QED BY <3>1, <3>2, QuietStep DEF frames
  <2>2. CASE finished_tasks[finished_task_index] # Null
    <3>1. /\ main' = "user" /\ main = "collect"
          /\ delivered' = finished_tasks[finished_task_index]
          /\ finished_tasks' = [finished_tasks EXCEPT ![finished_task_index] = Null]
          /\ finished_task_index' = Succ(finished_task_index)
          /\ UNCHANGED <<task_fifo, task_index, exit, wpc, task, accepted>>
      BY <2>2, <1>7 DEF Collect
    <3>2. delivered' = delivered + 1 /\ delivered < accepted
      BY <3>1, <2>2 DEF IInv, ResultInv, Placed, Ahead, TypeOK, Slot
    <3>3. finished_task_index' \in Slot
          /\ \A i \in Slot : Ahead(i) # 0 => Ahead(i)' = Ahead(i) - 1
      <4>1. finished_task_index \in Slot /\ BufferSize \in Nat
        BY DEF TypeOK
      <4>2. finished_task_index' = IF finished_task_index + 1 = BufferSize THEN 0
                                   ELSE finished_task_index + 1
        BY <3>1, <4>1, SuccStep
      <4>3. ASSUME NEW i \in Slot, Ahead(i) # 0 PROVE Ahead(i)' = Ahead(i) - 1
        <5>1. Ahead(i)' = IF i >= finished_task_index' THEN i - finished_task_index'
                          ELSE i - finished_task_index' + BufferSize
          BY DEF Ahead
        <5>2. i # finished_task_index
          BY <4>1, <4>3 DEF Ahead, Slot
        <5>3. CASE finished_task_index + 1 = BufferSize
          BY <5>1, <5>2, <5>3, <4>1, <4>2 DEF Ahead, Slot
        <5>4. CASE finished_task_index + 1 # BufferSize
          BY <5>1, <5>2, <5>4, <4>1, <4>2 DEF Ahead, Slot
        <5> QED BY <5>3, <5>4
      <4> QED BY <4>1, <4>2, <4>3 DEF Slot
    <3>4. TypeOK'
      BY <3>1, <3>2, <3>3 DEF TypeOK, Null
    <3>5. CountInv'
      <4>1. Ahead(task_index)' = Ahead(task_index) - 1
        BY <3>1, <3>2, <3>3 DEF CountInv, TypeOK, Ahead
      <4> QED BY <4>1, <3>1, <3>2 DEF CountInv, TypeOK
    <3>6. \A f \in Nat, i \in Slot : Placed(f, i) /\ f # delivered + 1 => Placed(f, i)'
      BY <3>1, <3>2, <3>3 DEF Placed, TypeOK
    <3>7. delivered + 1 <= accepted - Len(task_fifo)
          /\ \A w \in Worker : Busy(w) => task[w].frame # delivered + 1
      BY <3>1, <3>2, <2>2 DEF IInv, ResultInv, TypeOK
    <3>8. FifoInv'
      <4> SUFFICES ASSUME NEW k \in 1 .. Len(task_fifo)
                   PROVE  /\ task_fifo[k].frame = accepted - Len(task_fifo) + k
                          /\ Placed(task_fifo[k].frame, task_fifo[k].index)'
        BY <3>1 DEF FifoInv
      <4>1. task_fifo[k] \in Task /\ Len(task_fifo) \in Nat
        BY DEF TypeOK
      <4>2. task_fifo[k].frame = accepted - Len(task_fifo) + k
            /\ Placed(task_fifo[k].frame, task_fifo[k].index)
        BY DEF IInv, FifoInv
      <4>3. task_fifo[k].frame # delivered + 1
        BY <4>1, <4>2, <3>7 DEF TypeOK
      <4>4. Placed(task_fifo[k].frame, task_fifo[k].index)'
        <5>1. task_fifo[k].frame \in Nat /\ task_fifo[k].index \in Slot
          BY <4>1 DEF Task
        <5> QED BY <5>1, <4>2, <4>3, <3>6, <3>1 DEF Placed
      <4> QED BY <4>2, <4>4
    <3>9. TaskInv'
      BY <3>1, <3>6, <3>7 DEF IInv, TaskInv, Busy, TypeOK, Task, Placed, Ahead
    <3>10. ResultInv'
      <4> SUFFICES ASSUME NEW i \in Slot, finished_tasks'[i] # Null
                   PROVE  /\ Placed(finished_tasks[i], i)'
                          /\ finished_tasks'[i] <= accepted - Len(task_fifo)
                          /\ \A w \in Worker : Busy(w) => task[w].frame # finished_tasks'[i]
        BY <3>1 DEF ResultInv, Busy
      <4>1. i # finished_task_index /\ finished_tasks'[i] = finished_tasks[i]
        BY <3>1 DEF TypeOK
      <4>2. Placed(finished_tasks[i], i) /\ Ahead(i) # 0 /\ finished_tasks[i] \in Nat
        BY <4>1 DEF IInv, ResultInv, TypeOK, Ahead, Slot
      <4>3. Placed(finished_tasks[i], i)'
        BY <4>1, <4>2, <3>1, <3>2, <3>3 DEF Placed, TypeOK
      <4> QED BY <4>1, <4>3 DEF IInv, ResultInv
    <3> QED BY <3>4, <3>5, <3>8, <3>9, <3>10 DEF IInv
  <2> QED BY <2>1, <2>2
<1>8. ASSUME NEW w \in Worker, Take(w) PROVE IInv'
  <2>1. CASE exit \/ task_fifo = <<>>
    <3>1. /\ wpc[w] = "take" /\ \E l \in {"closed", "asleep"} : wpc' = [wpc EXCEPT ![w] = l]
          /\ UNCHANGED <<task_fifo, ring, exit, main, task, frames>>
      BY <2>1, <1>8 DEF Take, Move
    <3>2. TypeOK' /\ CountInv' /\ \A v \in Worker : Busy(v)' => Busy(v)
      BY <3>1 DEF TypeOK, CountInv, Ahead, ring, frames, Busy
    <3> QED BY <3>1, <3>2, QuietStep
  <2>2. CASE ~ exit /\ task_fifo # <<>>
    <3>1. /\ wpc[w] = "take" /\ wpc' = [wpc EXCEPT ![w] = "encode"]
          /\ task' = [task EXCEPT ![w] = Head(task_fifo)] /\ task_fifo' = Tail(task_fifo)
          /\ UNCHANGED <<ring, exit, main, frames>>
      BY <2>2, <1>8 DEF Take, Move
    <3>2. /\ Len(task_fifo) \in Nat /\ Len(task_fifo) > 0 /\ Head(task_fifo) = task_fifo[1]
          /\ task_fifo[1] \in Task /\ task_fifo' \in Seq(Task)
          /\ Len(task_fifo') = Len(task_fifo) - 1
          /\ \A k \in 1 .. Len(task_fifo) - 1 : task_fifo'[k] = task_fifo[k + 1]
      BY <3>1, <2>2 DEF TypeOK
    <3>3. TypeOK'
      BY <3>1, <3>2 DEF TypeOK, ring, frames
    <3>4. CountInv'
      BY <3>1 DEF CountInv, Ahead, ring, frames
    <3>5. task_fifo[1].frame = accepted - Len(task_fifo) + 1
          /\ Placed(task_fifo[1].frame, task_fifo[1].index)
      BY <3>2 DEF IInv, FifoInv
    <3>6. FifoInv'
      BY <3>1, <3>2 DEF IInv, FifoInv, Placed, Ahead, ring, frames, TypeOK
    <3>7. TaskInv'
      <4> SUFFICES ASSUME NEW v \in Worker, Busy(v)'
                   PROVE  /\ Placed(task[v].frame, task[v].index)'
                          /\ task'[v].frame <= accepted' - Len(task_fifo')
                          /\ \A u \in Worker \ {v} : Busy(u)' => task'[u].frame # task'[v].frame
        BY DEF TaskInv
      <4>1. /\ \A u \in Worker \ {w} : (Busy(u)' <=> Busy(u)) /\ task'[u] = task[u]
            /\ task'[w] = task_fifo[1]
        BY <3>1, <3>2 DEF Busy, TypeOK
      <4>2. \A u \in Worker \ {w} : Busy(u) => task[u].frame <= accepted - Len(task_fifo)
                                             /\ task[u].frame \in Nat
        BY DEF IInv, TaskInv, TypeOK, Task
      <4>3. CASE v = w
        BY <4>1, <4>2, <4>3, <3>1, <3>2, <3>5 DEF Placed, Ahead, ring, frames, TypeOK
      <4>4. CASE v # w
        BY <4>1, <4>2, <4>4, <3>1, <3>2, <3>5 DEF IInv, TaskInv, Placed, Ahead, ring, frames, TypeOK
      <4> QED BY <4>3, <4>4
    <3>8. ResultInv'
      BY <3>1, <3>2, <3>5 DEF IInv, ResultInv, Placed, Ahead, ring, frames, TypeOK, Busy
    <3> QED BY <3>3, <3>4, <3>6, <3>7, <3>8 DEF IInv
  <2> QED BY <2>1, <2>2
<1>9. ASSUME NEW w \in Worker, Encode(w) PROVE IInv'
  <2>1. TypeOK' /\ CountInv' /\ \A v \in Worker : Busy(v)' => Busy(v)
    BY <1>9 DEF Encode, Move, TypeOK, CountInv, Ahead, ring, frames, Busy
  <2> QED BY <2>1, <1>9, QuietStep DEF Encode
<1>10. ASSUME NEW w \in Worker, Store(w) PROVE IInv'
  <2>1. /\ wpc[w] = "store" /\ wpc' = [wpc EXCEPT ![w] = "take"]
        /\ finished_tasks' = [finished_tasks EXCEPT ![task[w].index] = task[w].frame]
        /\ main' = IF main = "asleep" THEN "collect" ELSE main
        /\ UNCHANGED <<task_fifo, task_index, finished_task_index, exit, task, frames>>
    BY <1>10 DEF Store, Move
  <2>2. task[w] \in Task /\ task[w].frame \in Nat \ {0} /\ task[w].index \in Slot
    BY DEF TypeOK, Task
  <2>3. TypeOK' /\ CountInv'
    BY <2>1, <2>2 DEF TypeOK, CountInv, Ahead, frames
  <2>4. ~ Busy(w)' /\ \A v \in Worker \ {w} : Busy(v)' <=> Busy(v)
    BY <2>1 DEF Busy, TypeOK
  <2>5. FifoInv' /\ TaskInv'
    BY <2>1, <2>4 DEF IInv, FifoInv, TaskInv, Placed, Ahead, frames
  <2>6. ResultInv'
    <3> SUFFICES ASSUME NEW i \in Slot, finished_tasks'[i] # Null
                 PROVE  /\ Placed(finished_tasks[i], i)'
                        /\ finished_tasks'[i] <= accepted' - Len(task_fifo')
                        /\ \A v \in Worker : Busy(v)' => task'[v].frame # finished_tasks'[i]
      BY DEF ResultInv
    <3>1. CASE i = task[w].index
      <4>1. finished_tasks'[i] = task[w].frame
        BY <3>1, <2>1 DEF TypeOK
      <4>2. Busy(w)
        BY <2>1 DEF Busy
      <4> QED BY <4>1, <4>2, <3>1, <2>1, <2>4 DEF IInv, TaskInv, Placed, Ahead, frames
    <3>2. CASE i # task[w].index
      <4>1. finished_tasks'[i] = finished_tasks[i]
        BY <3>2, <2>1 DEF TypeOK
      <4> QED BY <4>1, <2>1, <2>4 DEF IInv, ResultInv, Placed, Ahead, frames
    <3> QED BY <3>1, <3>2
  <2> QED BY <2>3, <2>5, <2>6 DEF IInv
<1>11. CASE SpuriousWakeup
  <2>1. TypeOK' /\ CountInv' /\ \A v \in Worker : Busy(v)' => Busy(v)
    BY <1>11 DEF SpuriousWakeup, MainMove, Move, TypeOK, CountInv, Ahead, ring, frames, Busy
  <2> QED BY <2>1, <1>11, QuietStep DEF SpuriousWakeup
<1>12. CASE UNCHANGED vars
  <2>1. TypeOK' /\ CountInv' /\ \A v \in Worker : Busy(v)' => Busy(v)
    BY <1>12 DEF vars, TypeOK, CountInv, Ahead, ring, frames, Busy
  <2> QED BY <2>1, <1>12, QuietStep DEF vars
<1> QED
  BY <1>1, <1>2, <1>3, <1>4, <1>5, <1>6, <1>7, <1>8, <1>9, <1>10, <1>11, <1>12
     DEF Next, MainStep, WorkerStep

LEMMA Invariance == Spec => []IInv
BY InitInv, NextInv, PTL DEF Spec

\* The variables keep their types: frame_thread_encoder.c's indices stay inside
\* the ring.
THEOREM EncoderTypes == Spec => []TypeOK
<1>1. IInv => TypeOK
  BY DEF IInv
<1> QED BY <1>1, Invariance, PTL

\* No worker overwrites a result and the FIFO never overflows, for any number of
\* threads below BUFFER_SIZE - 1.
THEOREM EncoderRing == Spec => []RingSuffices
<1>1. IInv => RingSuffices
  <2> SUFFICES ASSUME IInv PROVE RingSuffices
    OBVIOUS
  <2> USE EncoderAssumption
  <2>1. Len(task_fifo) <= BufferSize
    <3>1. Len(task_fifo) \in Nat /\ accepted \in Nat /\ delivered \in Nat
      BY DEF IInv, TypeOK
    <3>2. Len(task_fifo) > 0 => accepted - Len(task_fifo) + 1 > delivered
      <4> SUFFICES ASSUME Len(task_fifo) > 0
                   PROVE  accepted - Len(task_fifo) + 1 > delivered
        OBVIOUS
      <4>1. 1 \in 1 .. Len(task_fifo)
        BY <3>1
      <4>2. task_fifo[1].frame = accepted - Len(task_fifo) + 1 /\ task_fifo[1].frame > delivered
        BY <4>1 DEF IInv, FifoInv, Placed
      <4> QED BY <4>2
    <3> QED BY <3>1, <3>2 DEF IInv, CountInv
  <2>2. ASSUME NEW w \in Worker, wpc[w] = "store"
        PROVE  finished_tasks[task[w].index] = Null
    <3> DEFINE i == task[w].index
    <3>1. i \in Slot /\ task[w].frame \in Nat /\ finished_tasks[i] \in Nat /\ Busy(w)
      BY <2>2 DEF IInv, TypeOK, Task, Busy
    <3>2. Ahead(i) = task[w].frame - delivered - 1
      BY <3>1 DEF IInv, TaskInv, Placed
    <3>3. finished_tasks[i] # Null => finished_tasks[i] = task[w].frame
      BY <3>1, <3>2 DEF IInv, ResultInv, Placed, TypeOK
    <3> QED BY <3>1, <3>3 DEF IInv, ResultInv
  <2> QED BY <2>1, <2>2 DEF RingSuffices
<1> QED BY <1>1, Invariance, PTL

\* The worker pool implements the ordered codec: every step is a step of
\* OrderedCodec or changes nothing of what the caller sees.
THEOREM EncoderInOrder == Spec => InOrder
<1>1. Init => Ordered!Init
  BY DEF Init, Ordered!Init
<1>2. IInv /\ [Next]_vars => [Ordered!Next]_(Ordered!vars)
  <2> SUFFICES ASSUME IInv, [Next]_vars
               PROVE  Ordered!Next \/ UNCHANGED Ordered!vars
    BY DEF Ordered!vars
  <2> USE EncoderAssumption
  <2>1. CASE WriteTask
    BY <2>1 DEF WriteTask, MainMove, Ordered!Next, Ordered!Accept, IInv, CountInv, TypeOK
  <2>2. CASE Collect
    <3>1. CASE finished_tasks[finished_task_index] # Null
      <4>1. delivered' = finished_tasks[finished_task_index] /\ accepted' = accepted
        BY <2>2, <3>1 DEF Collect
      <4>2. finished_tasks[finished_task_index] = delivered + 1 /\ delivered < accepted
        BY <3>1 DEF IInv, ResultInv, Placed, Ahead, TypeOK, Slot
      <4> QED BY <4>1, <4>2 DEF Ordered!Next, Ordered!Deliver
    <3>2. CASE finished_tasks[finished_task_index] = Null
      BY <2>2, <3>2 DEF Collect, Ordered!vars
    <3> QED BY <3>1, <3>2
  <2>3. CASE Free \/ Join \/ Look \/ Drain \/ SpuriousWakeup
             \/ \E w \in Worker : CreateWorker(w) \/ WorkerStep(w)
    BY <2>3 DEF Free, Join, Look, Drain, SpuriousWakeup, CreateWorker, WorkerStep, Take,
                Encode, Store, frames, Ordered!vars
  <2>4. CASE UNCHANGED vars
    BY <2>4 DEF vars, frames, Ordered!vars
  <2> QED BY <2>1, <2>2, <2>3, <2>4 DEF Next, MainStep
<1> QED BY <1>1, <1>2, Invariance, PTL DEF Spec, InOrder, Ordered!Spec
=============================================================================
