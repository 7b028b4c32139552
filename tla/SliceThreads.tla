---------------------------- MODULE SliceThreads ----------------------------
(***************************************************************************)
(* libavcodec/pthread_slice.c: the jobs of one call of execute() shared out *)
(* among the workers, and the wavefront that the HEVC decoder runs on them  *)
(* (hevc.c, hls_decode_entry_wpp): one job is one row of a slice, and a row *)
(* stays two columns behind the row above.                                  *)
(*                                                                          *)
(* A section under current_job_lock or under a progress_mutex is one step;  *)
(* a thread in pthread_cond_wait sleeps until it is signalled or, as POSIX  *)
(* allows, wakes up by itself.                                              *)
(***************************************************************************)
EXTENDS Integers, FiniteSets

CONSTANTS
  Worker,       \* the worker threads
  MaxJobs,      \* bound on job_count
  Counts,       \* the values of job_count considered
  MaxExecutes,  \* bound on the number of calls of execute()
  Width,        \* columns of a row
  BadEntry      \* the rows whose entry point may be a bad one

N == Cardinality(Worker)    \* thread_count
Job == 0 .. MaxJobs - 1
SHIFT_CTB_WPP == 2
Main == "main"              \* the caller's thread

ASSUME SliceAssumption ==
  /\ IsFiniteSet(Worker) /\ N > 1 /\ Main \notin Worker
  /\ MaxJobs \in Nat /\ MaxExecutes \in Nat /\ Width \in Nat \ {0}
  /\ Counts \subseteq 1 .. MaxJobs /\ BadEntry \subseteq Job \ {0}

VARIABLES
  \* SliceThreadContext
  current_job, job_count, current_execute, done,
  rets,          \* how often the result of each job was stored
  entries,       \* progress of each row
  \* HEVCContext
  wave,          \* are the jobs rows of a slice?
  bad,           \* its rows whose entry point init_get_bits8 refuses
  wpp_err,
  \* the threads
  main,          \* where the caller's thread is
  wpc,           \* where each worker is
  self_id, last_execute, our_job,
  waits          \* the condition variable each thread sleeps on, or Nothing

pool == <<current_job, job_count, current_execute, done>>
rows == <<entries, wave, bad, wpp_err>>
locals == <<self_id, last_execute, our_job>>
vars == <<pool, rets, rows, main, wpc, locals, waits>>

Nothing == <<>>
current_job_cond == <<"current_job">>
last_job_cond == <<"last_job">>

InJob == {"job", "await", "ctb", "code", "coded", "report"}

TypeOK ==
  /\ job_count \in 0 .. MaxJobs /\ current_job \in 0 .. N + job_count
  /\ current_execute \in 0 .. MaxExecutes /\ done \in BOOLEAN
  /\ rets \in [Job -> Nat] /\ entries \in [Job -> 0 .. Width + SHIFT_CTB_WPP]
  /\ wave \in BOOLEAN /\ bad \subseteq Job \ {0} /\ wpp_err \in BOOLEAN
  /\ main \in {"create", "park", "user", "join", "freed"}
  /\ wpc \in [Worker -> {"none", "start", "parked", "next", "dead"} \cup InJob]
  /\ self_id \in [Worker -> 0 .. N - 1]
  /\ last_execute \in [Worker -> 0 .. current_execute]
  /\ our_job \in [Worker -> Nat]
  /\ \A w \in Worker : wpc[w] \in InJob => our_job[w] < job_count
  /\ waits \in [Worker \cup {Main} -> {Nothing, current_job_cond, last_job_cond}
                                        \cup ({"progress"} \X (0 .. N - 1))]

Init ==
  /\ current_job = 0 /\ job_count = 0 /\ current_execute = 0 /\ done = FALSE
  /\ rets = [j \in Job |-> 0] /\ entries = [j \in Job |-> 0]
  /\ wave = FALSE /\ bad = {} /\ wpp_err = FALSE
  /\ main = "create"
  /\ wpc = [w \in Worker |-> "none"]
  /\ self_id = [w \in Worker |-> 0]
  /\ last_execute = [w \in Worker |-> 0]
  /\ our_job = [w \in Worker |-> 0]
  /\ waits = [a \in Worker \cup {Main} |-> Nothing]

-----------------------------------------------------------------------------
(* Condition variables *)

Awake(a) == waits[a] = Nothing
Sleepers(c) == {a \in DOMAIN waits : waits[a] = c}
Woken(set) == [a \in DOMAIN waits |-> IF a \in set THEN Nothing ELSE waits[a]]

\* What pthread_cond_signal can make of waits.
Signal(c) == IF Sleepers(c) = {} THEN {waits} ELSE {Woken({a}) : a \in Sleepers(c)}

-----------------------------------------------------------------------------
(* The caller: ff_slice_thread_init, thread_execute, ff_slice_thread_free *)

\* pthread_create, one worker after the other, with current_job_lock held; then
\* thread_park_workers waits for all of them.
Create(w) ==
  /\ main = "create" /\ wpc[w] = "none"
  /\ wpc' = [wpc EXCEPT ![w] = "start"]
  /\ IF \E v \in Worker \ {w} : wpc[v] = "none" THEN UNCHANGED <<main, waits>>
     ELSE main' = "park" /\ waits' = [waits EXCEPT ![Main] = last_job_cond]
  /\ UNCHANGED <<pool, rets, rows, locals>>

\* The rest of thread_park_workers.
Park ==
  /\ main = "park" /\ Awake(Main)
  /\ \/ current_job = N + job_count /\ main' = "user" /\ UNCHANGED waits
     \/ current_job # N + job_count /\ UNCHANGED main
          /\ waits' = [waits EXCEPT ![Main] = last_job_cond]
  /\ UNCHANGED <<pool, rets, rows, wpc, locals>>

\* init_get_bits8 may refuse the entry point of any row but the first: the data of
\* the slice decide.
Refused(rowwise) == IF rowwise THEN SUBSET BadEntry ELSE {{}}

ExecuteKeepsJob ==
  /\ main = "user" /\ main' = "park" /\ current_execute < MaxExecutes
  /\ job_count' \in Counts
  /\ UNCHANGED current_job
  /\ current_execute' = current_execute + 1
  /\ rets' = [j \in Job |-> 0] /\ entries' = [j \in Job |-> 0]
  /\ wave' \in BOOLEAN /\ bad' \in Refused(wave') /\ wpp_err' = FALSE
  /\ waits' = [Woken(Sleepers(current_job_cond)) EXCEPT ![Main] = last_job_cond]
  /\ UNCHANGED <<done, wpc, locals>>

\* thread_execute, with any jobs, or thread_execute2 from hls_slice_data_wpp, which
\* has allocated and reset the entries.
Execute ==
  /\ main = "user" /\ main' = "park" /\ current_execute < MaxExecutes
  /\ job_count' \in Counts
  /\ current_job' = N
  /\ current_execute' = current_execute + 1
  /\ rets' = [j \in Job |-> 0] /\ entries' = [j \in Job |-> 0]
  /\ wave' \in BOOLEAN /\ bad' \in Refused(wave') /\ wpp_err' = FALSE
  /\ waits' = [Woken(Sleepers(current_job_cond)) EXCEPT ![Main] = last_job_cond]
  /\ UNCHANGED <<done, wpc, locals>>

\* ff_slice_thread_free, by the caller or because a worker could not be created.
Free ==
  /\ main \in {"user", "create"} /\ main' = "join"
  /\ done' = TRUE
  /\ waits' = [a \in DOMAIN waits |-> Nothing]
  /\ UNCHANGED <<current_job, job_count, current_execute, rets, rows, wpc, locals>>

Join ==
  /\ main = "join" /\ main' = "freed"
  /\ \A w \in Worker : wpc[w] \in {"none", "dead"}
  /\ UNCHANGED <<pool, rets, rows, wpc, locals, waits>>

-----------------------------------------------------------------------------
(* worker *)

Goto(w, l) == wpc' = [wpc EXCEPT ![w] = l]

NoLastSignal == {waits}

\* Whoever takes the last number wakes the caller.
LastSignal == IF current_job' = N + job_count THEN Signal(last_job_cond) ELSE {waits}

\* The inner loops, with current_job_lock held and our_job >= job_count: wait for
\* the next call of execute().
SleepOn(w) ==
  /\ Goto(w, "parked")
  /\ \E s \in LastSignal :
       waits' = IF last_execute[w] = current_execute /\ ~ done
                THEN [s EXCEPT ![w] = current_job_cond] ELSE s

\* self_id = c->current_job++, once main waits for the workers.
Start(w) ==
  /\ wpc[w] = "start" /\ main # "create"
  /\ self_id' = [self_id EXCEPT ![w] = current_job]
  /\ current_job' = current_job + 1
  /\ SleepOn(w)
  /\ UNCHANGED <<job_count, current_execute, done, rets, rows, main, last_execute, our_job>>

\* The wait is over: the worker begins with the job of its own number, if there
\* are as many.
Wake(w) ==
  /\ wpc[w] = "parked" /\ Awake(w)
  /\ IF last_execute[w] = current_execute /\ ~ done
     THEN waits' = [waits EXCEPT ![w] = current_job_cond] /\ UNCHANGED <<current_job, wpc, locals>>
     ELSE /\ last_execute' = [last_execute EXCEPT ![w] = current_execute]
          /\ our_job' = [our_job EXCEPT ![w] = self_id[w]]
          /\ UNCHANGED <<self_id, current_job>>
          /\ \/ done /\ Goto(w, "dead") /\ UNCHANGED waits
             \/ ~ done /\ self_id[w] < job_count /\ Goto(w, "job") /\ UNCHANGED waits
             \/ /\ ~ done /\ self_id[w] >= job_count
                /\ \E s \in LastSignal : waits' = [s EXCEPT ![w] = current_job_cond]
                /\ UNCHANGED wpc
  /\ UNCHANGED <<job_count, current_execute, done, rets, rows, main, self_id>>

NextJobPastEnd(w) ==
  /\ wpc[w] = "next"
  /\ our_job' = [our_job EXCEPT ![w] = current_job]
  /\ current_job' = current_job + 1
  /\ IF current_job <= job_count THEN Goto(w, "job") /\ UNCHANGED waits ELSE SleepOn(w)
  /\ UNCHANGED <<job_count, current_execute, done, rets, rows, main, self_id, last_execute>>

\* our_job = c->current_job++
NextJob(w) ==
  /\ wpc[w] = "next"
  /\ our_job' = [our_job EXCEPT ![w] = current_job]
  /\ current_job' = current_job + 1
  /\ IF current_job < job_count THEN Goto(w, "job") /\ UNCHANGED waits ELSE SleepOn(w)
  /\ UNCHANGED <<job_count, current_execute, done, rets, rows, main, self_id, last_execute>>

\* The job returns and its result is stored.
Returned(w) ==
  /\ rets' = [rets EXCEPT ![our_job[w] % job_count] = @ + 1]
  /\ Goto(w, "next")

\* A job of another kind.
RunJob(w) ==
  /\ wpc[w] = "job" /\ ~ wave
  /\ Returned(w)
  /\ UNCHANGED <<pool, rows, main, locals, waits>>

-----------------------------------------------------------------------------
(* hls_decode_entry_wpp *)

OneCond(r) == <<"progress", 0>>

\* The condition variable on which row r reports.
RowCond(r) == <<"progress", r % N>>

\* ff_thread_report_progress2.
ReportProgress(w, n) ==
  /\ entries' = [entries EXCEPT ![our_job[w]] = @ + n]
  /\ waits' \in Signal(RowCond(our_job[w]))

\* A row with a bad entry point returns at once, without a report.
BeginRow(w) ==
  /\ wpc[w] = "job" /\ wave
  /\ IF our_job[w] \in bad THEN Returned(w) ELSE Goto(w, "await") /\ UNCHANGED rets
  /\ UNCHANGED <<pool, rows, main, locals, waits>>

\* ff_thread_await_progress2: the row above has to be two columns ahead.
AwaitProgress(w) ==
  /\ wpc[w] = "await" /\ Awake(w)
  /\ LET r == our_job[w] IN
       IF r > 0 /\ entries[r - 1] - entries[r] < SHIFT_CTB_WPP
       THEN waits' = [waits EXCEPT ![w] = RowCond(r - 1)] /\ UNCHANGED wpc
       ELSE Goto(w, "ctb") /\ UNCHANGED waits
  /\ UNCHANGED <<pool, rets, rows, main, locals>>

\* An error elsewhere ends the row.
CheckError(w) ==
  /\ wpc[w] = "ctb"
  /\ Goto(w, IF wpp_err THEN "report" ELSE "code")
  /\ UNCHANGED <<pool, rets, rows, main, locals, waits>>

DecodeForgets(w) ==
  /\ wpc[w] = "code"
  /\ \/ ReportProgress(w, 1) /\ Goto(w, "coded")
     \/ Goto(w, "report") /\ UNCHANGED <<entries, waits>>
  /\ UNCHANGED <<pool, rets, wave, bad, wpp_err, main, locals>>

\* hls_coding_quadtree decodes the block, or fails.
Decode(w) ==
  /\ wpc[w] = "code"
  /\ \/ ReportProgress(w, 1) /\ Goto(w, "coded") /\ UNCHANGED wpp_err
     \/ wpp_err' = TRUE /\ Goto(w, "report") /\ UNCHANGED <<entries, waits>>
  /\ UNCHANGED <<pool, rets, wave, bad, main, locals>>

\* After the block: the next one, the end of the row, or the end of the slice data,
\* which in the middle of a row is an error unless the row is the last one.
Coded(w) ==
  /\ wpc[w] = "coded"
  /\ LET r == our_job[w] IN
       \/ entries[r] < Width /\ Goto(w, "await") /\ UNCHANGED wpp_err
       \/ entries[r] < Width /\ Goto(w, "report") /\ wpp_err' = (wpp_err \/ r # job_count - 1)
       \/ entries[r] = Width /\ Goto(w, "report") /\ UNCHANGED wpp_err
  /\ UNCHANGED <<pool, rets, entries, wave, bad, main, locals, waits>>

\* The row is over for the row below, however it ended.
ReportRow(w) ==
  /\ wpc[w] = "report"
  /\ ReportProgress(w, SHIFT_CTB_WPP)
  /\ Returned(w)
  /\ UNCHANGED <<pool, wave, bad, wpp_err, main, locals>>

\* pthread_cond_wait may return without a signal.
SpuriousWakeup ==
  /\ \E a \in DOMAIN waits : ~ Awake(a) /\ waits' = Woken({a})
  /\ UNCHANGED <<pool, rets, rows, main, wpc, locals>>

-----------------------------------------------------------------------------
MainStep == Park \/ Join

WorkerStep(w) ==
  \/ Start(w) \/ Wake(w) \/ NextJob(w) \/ RunJob(w)
  \/ BeginRow(w) \/ AwaitProgress(w) \/ CheckError(w) \/ Decode(w) \/ Coded(w) \/ ReportRow(w)

Next ==
  \/ Execute \/ Free \/ MainStep
  \/ \E w \in Worker : Create(w) \/ WorkerStep(w)
  \/ SpuriousWakeup

\* A call that has begun goes on and the workers run; no one has to call, and no
\* one wakes up without a signal.
Spec == /\ Init /\ [][Next]_vars
        /\ WF_vars(MainStep) /\ \A w \in Worker : WF_vars(WorkerStep(w))

-----------------------------------------------------------------------------
(* Properties *)

\* When execute() has returned every job has been done exactly once and no worker
\* is still at one: the caller frees args and rets and reallocates the entries.
JobsDone ==
  main = "user" => /\ \A j \in 0 .. job_count - 1 : rets[j] = 1
                   /\ \A w \in Worker : wpc[w] = "parked"

\* The only row that is refused is the last one, for which nobody waits.
OnlyLastBad == bad \cap 0 .. job_count - 2 = {}

\* ff_thread_report_progress2 wakes one thread with pthread_cond_signal and rows
\* share thread_count condition variables: there is never a second one to wake, as
\* long as no row fails or there are at most three workers, and no row above the
\* last one is refused.  (With four, rows r and r + 4 may sleep on one condition
\* variable once a row between them failed.)
OneWaiter ==
  OnlyLastBad /\ (wpp_err => N <= 3) =>
    \A i \in 0 .. N - 1 : Cardinality(Sleepers(<<"progress", i>>)) <= 1

\* Columns of row r that were really decoded.
Decoded(r) == IF rets[r] = 0 THEN entries[r] ELSE entries[r] - SHIFT_CTB_WPP

\* A block is decoded only when the block above and the one to its right are: a
\* row that gave up reports progress it has not made, and must not be believed.
NeighboursDecoded ==
  \A w \in Worker :
    LET r == our_job[w] IN
      wpc[w] = "code" /\ r > 0
        => Decoded(r - 1) >= IF entries[r] + 2 <= Width THEN entries[r] + 2 ELSE Width

\* No signal is lost: a call of execute() returns and the workers can be joined,
\* whatever fails, with two exceptions the code does not handle.  A row above the
\* last one is refused (hevc.c:2383), and the row below waits for its report for
\* ever; or a row failed with four workers or more, and the signal meant for
\* another row woke the wrong one.
CallsReturn ==
  main \in {"park", "join"} /\ OnlyLastBad
    ~> main \in {"user", "freed"} \/ (wpp_err /\ N > 3)
=============================================================================
