---------------------------- MODULE SliceProofs ----------------------------
(* Proofs about SliceThreads, for any number of workers, jobs, calls and    *)
(* columns.                                                                 *)
EXTENDS SliceThreads, TLAPS, FiniteSetTheorems

Working(w) == wpc[w] \in InJob \cup {"next"}
Started == {w \in Worker : wpc[w] \notin {"none", "start"}}

\* The jobs that are done and whose worker has taken its next number.
Finished == {j \in 0 .. job_count - 1 :
               rets[j] = 1 /\ \A w \in Worker : wpc[w] = "next" => our_job[w] # j}

\* Worker w has not yet seen the call of execute().
Late(w) == last_execute[w] < current_execute

\* Jobs nobody has begun.
Open(j) == j >= current_job \/ \E w \in Worker : self_id[w] = j /\ Late(w)

\* The workers get numbers of their own.
StartInv ==
  /\ \A v, w \in Started : self_id[v] = self_id[w] => v = w
  /\ current_execute = 0 =>
       /\ job_count = 0 /\ current_job = Cardinality(Started)
       /\ \A w \in Started : self_id[w] < current_job
  /\ current_execute > 0 => Started = Worker

MainInv ==
  /\ done <=> main \in {"join", "freed"}
  /\ main = "create" => Started = {} /\ current_execute = 0
  /\ main = "user" => Started = Worker /\ \A w \in Worker : ~ Working(w)
  /\ main \in {"user", "join", "freed"} => \A j \in 0 .. job_count - 1 : rets[j] = 1
  /\ \A w \in Worker : wpc[w] = "dead" => done
  /\ \A w \in Worker : Working(w) => ~ done
  /\ \A w \in Worker : Late(w) => wpc[w] = "parked"

\* Each job is done by one worker, and taken in the order of the numbers.
JobAt(w) ==
  /\ our_job[w] < job_count /\ ~ Late(w)
  /\ our_job[w] = self_id[w] \/ (N <= our_job[w] /\ our_job[w] < current_job)
  /\ rets[our_job[w]] = IF wpc[w] = "next" THEN 1 ELSE 0

JobInv ==
  /\ current_execute > 0 => current_job = N + Cardinality(Finished)
  /\ \A w \in Worker : Working(w) => JobAt(w)
  /\ \A v, w \in Worker : Working(v) /\ Working(w) /\ our_job[v] = our_job[w] => v = w
  /\ \A j \in 0 .. job_count - 1 :
       /\ rets[j] \in {0, 1}
       /\ Open(j) => rets[j] = 0 /\ entries[j] = 0
       /\ rets[j] = 0 => Open(j) \/ \E w \in Worker : wpc[w] \in InJob /\ our_job[w] = j

\* Where a row stands, from what its worker is at.
RowAt(w) ==
  LET r == our_job[w] IN
    /\ wpc[w] \in InJob \ {"job"} => wave
    /\ wpc[w] = "job" => entries[r] = 0
    /\ wpc[w] \in {"await", "ctb", "code"} => entries[r] < Width
    /\ wpc[w] \in InJob => entries[r] <= Width
    /\ wpc[w] = "report" /\ entries[r] < Width => wpp_err \/ r = job_count - 1
    /\ wpc[w] \in {"ctb", "code"} /\ r > 0 => entries[r - 1] >= entries[r] + 2
    /\ wpc[w] \in InJob /\ r > 0 /\ entries[r] > 0 =>
         /\ entries[r - 1] >= entries[r] + 1
         /\ Decoded(r - 1) >= entries[r] + 1 \/ Decoded(r - 1) >= Width

RowInv ==
  /\ ~ wave => \A j \in Job : entries[j] = 0
  /\ \A w \in Worker : RowAt(w)

\* What a finished row has reported.
FinishedInv ==
  wave => \A j \in 0 .. job_count - 1 : rets[j] = 1 =>
    /\ j \notin bad => entries[j] >= 2
    /\ entries[j] # 0 => entries[j] = Width + 2 \/ wpp_err \/ j = job_count - 1

\* Rows end in their order while no row fails.
OrderInv ==
  wave /\ ~ wpp_err /\ OnlyLastBad =>
    \A i, j \in 0 .. job_count - 1 :
      i < j /\ rets[j] = 1 /\ entries[j] = Width + 2 => rets[i] = 1

\* Who sleeps where.
SleepInv ==
  /\ waits[Main] \in {Nothing, last_job_cond}
  /\ \A w \in Worker : waits[w] # Nothing =>
       \/ waits[w] = current_job_cond /\ wpc[w] = "parked"
       \/ wpc[w] = "await" /\ our_job[w] > 0 /\ waits[w] = RowCond(our_job[w] - 1)

\* A row that sleeps has reason to.
ReasonInv ==
  N <= 3 /\ OnlyLastBad =>
    \A w \in Worker : wpc[w] = "await" /\ waits[w] # Nothing =>
      entries[our_job[w] - 1] < entries[our_job[w]] + 2

IInv == /\ TypeOK /\ StartInv /\ MainInv /\ JobInv /\ RowInv /\ NeighboursDecoded
        /\ FinishedInv /\ OrderInv /\ SleepInv /\ ReasonInv

Agent == Worker \cup {Main}
WaitSet == {Nothing, current_job_cond, last_job_cond} \cup ({"progress"} \X (0 .. N - 1))

-----------------------------------------------------------------------------
(* Facts about the operators *)

LEMMA NType == N \in Nat /\ N > 1
BY SliceAssumption, FS_CardinalityType DEF N

LEMMA CondsDiffer ==
  /\ Nothing # current_job_cond /\ Nothing # last_job_cond /\ current_job_cond # last_job_cond
  /\ \A r : RowCond(r) \notin {Nothing, current_job_cond, last_job_cond}
BY DEF Nothing, current_job_cond, last_job_cond, RowCond

LEMMA RowCondType ==
  ASSUME NEW r \in Nat
  PROVE  RowCond(r) \in {"progress"} \X (0 .. N - 1)
<1>1. r % N \in 0 .. N - 1
  BY NType
<1> QED BY <1>1 DEF RowCond

\* Rows that share a condition variable are thread_count rows apart.
LEMMA RowsApart ==
  ASSUME NEW a \in Nat, NEW b \in Nat, a < b, RowCond(a) = RowCond(b)
  PROVE  a + N <= b
<1>1. a % N = b % N
  BY DEF RowCond
<1> DEFINE p == a \div N
           q == b \div N
<1>2. p \in Int /\ q \in Int /\ a = N * p + (a % N) /\ b = N * q + (b % N)
  BY NType
<1> HIDE DEF p, q
<1>3. b - a = N * (q - p)
  BY <1>1, <1>2, NType
<1>4. q - p >= 1
  BY <1>2, <1>3, NType
<1>5. N * (q - p) = N + N * (q - p - 1) /\ N * (q - p - 1) >= 0
  BY <1>2, <1>4, NType
<1> QED BY <1>2, <1>3, <1>5, NType

LEMMA Below ==
  ASSUME NEW n \in Nat
  PROVE  /\ IsFiniteSet(0 .. n - 1) /\ Cardinality(0 .. n - 1) = n
         /\ \A S \in SUBSET (0 .. n - 1) : Cardinality(S) <= n
<1>1. n - 1 \in Int /\ 0 \in Int
  OBVIOUS
<1>2. IsFiniteSet(0 .. n - 1) /\ Cardinality(0 .. n - 1) = n
  BY <1>1, FS_Interval
<1> QED BY <1>2, FS_Subset

LEMMA JobRange ==
  ASSUME NEW n \in 1 .. MaxJobs
  PROVE  n \in 0 .. MaxJobs /\ N \in 0 .. N + n /\ 0 .. n - 1 \subseteq Job
BY SliceAssumption, NType DEF Job

LEMMA BelowAndOne ==
  ASSUME NEW n \in Nat, NEW x, NEW S \in SUBSET ((0 .. n - 1) \cup {x})
  PROVE  Cardinality(S) <= n + 1
<1>1. IsFiniteSet((0 .. n - 1) \cup {x}) /\ Cardinality((0 .. n - 1) \cup {x}) \in {n, n + 1}
  BY Below, FS_AddElement
<1>2. IsFiniteSet(S) /\ Cardinality(S) <= Cardinality((0 .. n - 1) \cup {x})
  BY <1>1, FS_Subset
<1>3. Cardinality(S) \in Nat
  BY <1>2, FS_CardinalityType
<1> QED BY <1>1, <1>2, <1>3

LEMMA FourDistinct ==
  ASSUME NEW S, IsFiniteSet(S), NEW a \in S, NEW b \in S, NEW c \in S, NEW d \in S,
         a # b, a # c, a # d, b # c, b # d, c # d
  PROVE  Cardinality(S) >= 4
<1> DEFINE T == ((S \ {a}) \ {b}) \ {c}
<1>1. IsFiniteSet(S \ {a}) /\ Cardinality(S \ {a}) = Cardinality(S) - 1
  BY FS_RemoveElement
<1>2. b \in S \ {a} /\ c \in (S \ {a}) \ {b} /\ d \in T
  OBVIOUS
<1>3. IsFiniteSet((S \ {a}) \ {b}) /\ Cardinality((S \ {a}) \ {b}) = Cardinality(S) - 1 - 1
  BY <1>1, <1>2, FS_RemoveElement
<1>4. IsFiniteSet(T) /\ Cardinality(T) = Cardinality(S) - 1 - 1 - 1
  BY <1>2, <1>3, FS_RemoveElement
<1>5. Cardinality(T) # 0 /\ Cardinality(T) \in Nat /\ Cardinality(S) \in Nat
  BY <1>2, <1>4, FS_EmptySet, FS_CardinalityType
<1> QED BY <1>4, <1>5

\* pthread_cond_signal wakes or does nothing.
LEMMA SignalWakes ==
  ASSUME TypeOK, NEW c, NEW s \in Signal(c)
  PROVE  /\ s \in [Agent -> WaitSet]
         /\ \A a \in Agent : s[a] \in {waits[a], Nothing}
BY DEF TypeOK, Signal, Sleepers, Woken, Agent, WaitSet

LEMMA LastSignalWakes ==
  ASSUME TypeOK, NEW s \in LastSignal
  PROVE  /\ s \in [Agent -> WaitSet]
         /\ \A a \in Agent : s[a] \in {waits[a], Nothing}
<1>1. waits \in [Agent -> WaitSet]
  BY DEF TypeOK, Agent, WaitSet
<1> QED BY <1>1, SignalWakes DEF LastSignal

\* A worker without a number is not counted.
LEMMA NumbersLeft ==
  ASSUME TypeOK, StartInv, current_execute = 0, NEW w \in Worker, w \notin Started
  PROVE  /\ current_job < N
         /\ Cardinality(Started \cup {w}) = current_job + 1
<1>1. IsFiniteSet(Worker) /\ Started \subseteq Worker
  BY SliceAssumption DEF Started
<1>2. IsFiniteSet(Started)
  BY <1>1, FS_Subset
<1>3. Cardinality(Started \cup {w}) = Cardinality(Started) + 1
  BY <1>2, FS_AddElement
<1>4. Cardinality(Started \cup {w}) <= N
  BY <1>1, FS_Subset DEF N
<1> QED BY <1>3, <1>4, NType DEF StartInv, TypeOK

LEMMA FinishedFinite ==
  ASSUME TypeOK
  PROVE  /\ Finished \subseteq 0 .. job_count - 1 /\ IsFiniteSet(Finished)
         /\ IsFiniteSet(0 .. job_count - 1) /\ Cardinality(0 .. job_count - 1) = job_count
         /\ Cardinality(Finished) \in Nat
<1>1. job_count \in Nat /\ Finished \subseteq 0 .. job_count - 1
  BY SliceAssumption DEF TypeOK, Finished
<1>2. IsFiniteSet(0 .. job_count - 1) /\ Cardinality(0 .. job_count - 1) = job_count
  BY <1>1, FS_Interval
<1> QED BY <1>1, <1>2, FS_Subset, FS_CardinalityType

\* A worker that is about to take its next number is the last but itself to count.
LEMMA JobsLeft ==
  ASSUME TypeOK, StartInv, JobInv, NEW w \in Worker, wpc[w] = "next"
  PROVE  /\ current_execute > 0 /\ N <= current_job /\ current_job < N + job_count
         /\ Cardinality(Finished \cup {our_job[w]}) = current_job - N + 1
<1>1. our_job[w] \in 0 .. job_count - 1 /\ current_execute > 0 /\ our_job[w] \notin Finished
  BY SliceAssumption DEF TypeOK, StartInv, JobInv, JobAt, Working, Finished
<1>2. Cardinality(Finished \cup {our_job[w]}) = Cardinality(Finished) + 1
  BY <1>1, FinishedFinite, FS_AddElement
<1>3. Cardinality(Finished \cup {our_job[w]}) <= job_count
  <2>1. Finished \cup {our_job[w]} \subseteq 0 .. job_count - 1
    BY <1>1, FinishedFinite
  <2> QED BY <2>1, FinishedFinite, FS_Subset
<1>4. /\ current_job = N + Cardinality(Finished)
      /\ job_count \in Nat /\ Cardinality(Finished) \in Nat
  BY <1>1, FinishedFinite, SliceAssumption DEF JobInv, TypeOK
<1> HIDE DEF Finished
<1> QED BY <1>1, <1>2, <1>3, <1>4, NType

\* When the numbers are used up every job is done.
LEMMA AllDone ==
  ASSUME TypeOK, StartInv, MainInv, JobInv, main = "park", current_job = N + job_count
  PROVE  /\ Started = Worker
         /\ \A j \in 0 .. job_count - 1 : rets[j] = 1
         /\ \A w \in Worker : wpc[w] = "parked"
<1>1. Started = Worker
  <2>1. CASE current_execute = 0
    <3>1. Cardinality(Started) = Cardinality(Worker)
      BY <2>1, NType DEF StartInv, N, TypeOK
    <3> QED BY <3>1, FS_Subset, SliceAssumption DEF Started
  <2>2. CASE current_execute > 0
    BY <2>2 DEF StartInv
  <2> QED BY <2>1, <2>2, SliceAssumption DEF TypeOK
<1>2. Finished = 0 .. job_count - 1
  <2>1. CASE current_execute = 0
    BY <2>1 DEF StartInv, Finished
  <2>2. CASE current_execute > 0
    <3>1. Cardinality(Finished) = job_count
      BY <2>2, NType, FinishedFinite DEF JobInv, JobAt, TypeOK
    <3> QED BY <3>1, FinishedFinite, FS_Subset
  <2> QED BY <2>1, <2>2, SliceAssumption DEF TypeOK
<1>3. \A j \in 0 .. job_count - 1 : rets[j] = 1
  BY <1>2 DEF Finished
<1>4. \A w \in Worker : ~ Working(w)
  <2> SUFFICES ASSUME NEW w \in Worker, Working(w) PROVE FALSE
    OBVIOUS
  <2>1. our_job[w] \in Finished
    BY <1>2 DEF JobInv, JobAt, TypeOK
  <2> QED BY <2>1 DEF JobInv, JobAt, Finished, Working
<1> QED BY <1>1, <1>3, <1>4 DEF Started, Working, MainInv, TypeOK

\* Every number below thread_count is some worker's.
LEMMA NumbersUsed ==
  ASSUME TypeOK, StartInv, Started = Worker, NEW j \in 0 .. N - 1
  PROVE  \E w \in Worker : self_id[w] = j
<1>1. self_id \in Injection(Worker, 0 .. N - 1)
  BY DEF TypeOK, StartInv, Injection, IsInjective
<1>2. IsFiniteSet(0 .. N - 1) /\ Cardinality(0 .. N - 1) = N
  BY NType, FS_Interval
<1>3. self_id \in Surjection(Worker, 0 .. N - 1)
  BY <1>1, <1>2, FS_Injection DEF N
<1> QED BY <1>3 DEF Surjection

-----------------------------------------------------------------------------
(* At most one row sleeps on a condition variable *)

\* A row that sleeps while the row above has reported its end would sleep for
\* nothing.
LEMMA AboveUnfinished ==
  ASSUME IInv, OnlyLastBad, N <= 3, NEW w \in Worker, wpc[w] = "await", waits[w] # Nothing
  PROVE  our_job[w] > 0 /\ our_job[w] < job_count /\ rets[our_job[w] - 1] = 0
<1> DEFINE r == our_job[w]
<1>1. r > 0 /\ r \in Nat /\ entries[r - 1] < entries[r] + 2
  BY CondsDiffer DEF IInv, TypeOK, SleepInv, ReasonInv
<1>2. r < job_count /\ job_count \in Nat /\ job_count <= MaxJobs /\ r - 1 \in 0 .. job_count - 1
  BY <1>1, SliceAssumption DEF IInv, TypeOK, JobInv, JobAt, Working, InJob
<1>3. wave /\ entries[r] < Width /\ rets[r - 1] \in {0, 1}
  BY <1>2 DEF IInv, RowInv, RowAt, JobInv, JobAt, InJob
<1>4. entries[r] \in Nat /\ entries[r - 1] \in Nat
  BY <1>1, <1>2, SliceAssumption DEF IInv, TypeOK, Job, SHIFT_CTB_WPP
<1>5. ASSUME rets[r - 1] = 1 PROVE FALSE
  <2>1. r - 1 \notin bad
    BY <1>1, <1>2 DEF OnlyLastBad
  <2>2. entries[r - 1] >= 2
    BY <1>2, <1>3, <1>5, <2>1 DEF IInv, FinishedInv
  <2>3. entries[r] > 0
    BY <1>1, <1>4, <2>2
  <2>4. Decoded(r - 1) >= entries[r] + 1 \/ Decoded(r - 1) >= Width
    BY <1>1, <2>3 DEF IInv, RowInv, RowAt, InJob
  <2>5. Decoded(r - 1) = entries[r - 1] - 2
    BY <1>5 DEF Decoded, SHIFT_CTB_WPP
  <2> QED BY <1>1, <1>3, <1>4, <2>4, <2>5, SliceAssumption
<1> QED BY <1>1, <1>2, <1>3, <1>5

\* A row that was begun and is not done has a worker of its own.
Owner(w, j) == \/ wpc[w] \in InJob /\ our_job[w] = j
               \/ self_id[w] = j /\ Late(w)

LEMMA OwnersDiffer ==
  ASSUME IInv, NEW v \in Worker, NEW w \in Worker, NEW i \in Nat, NEW j \in Nat,
         Owner(v, i), Owner(w, j), i # j
  PROVE  v # w
BY DEF Owner, IInv, MainInv, InJob

LEMMA OneSleeper ==
  ASSUME IInv, OnlyLastBad, wpp_err => N <= 3, NEW v \in Worker, NEW w \in Worker,
         wpc[v] = "await", wpc[w] = "await", waits[v] # Nothing, waits[v] = waits[w],
         our_job[v] < our_job[w]
  PROVE  FALSE
<1> DEFINE a == our_job[v]
           b == our_job[w]
<1> USE SliceAssumption, NType
<1>1. /\ a \in Nat /\ b \in Nat /\ a > 0 /\ b > 0 /\ b < job_count
      /\ job_count \in Nat /\ current_job \in Nat /\ wave
      /\ waits[v] = RowCond(a - 1) /\ waits[w] = RowCond(b - 1)
      /\ rets[a] = 0 /\ rets[b] = 0
  BY CondsDiffer DEF IInv, TypeOK, SleepInv, JobInv, JobAt, RowInv, RowAt, Working, InJob
<1>2. a + N <= b
  <2>1. a - 1 \in Nat /\ b - 1 \in Nat /\ a - 1 < b - 1
    BY <1>1
  <2>2. a - 1 + N <= b - 1
    <3>1. RowCond(a - 1) = RowCond(b - 1)
      BY <1>1, Zenon
    <3> QED BY <2>1, <3>1, RowsApart
  <2> QED BY <2>2, <1>1
<1>3. N <= b /\ b < current_job
  <2>1. self_id[w] \in 0 .. N - 1
    BY DEF IInv, TypeOK
  <2> QED BY <2>1, <1>1, <1>2 DEF IInv, JobInv, JobAt, Working, InJob
<1>4. CASE N <= 3
  <2>1. rets[a - 1] = 0 /\ rets[b - 1] = 0
    BY <1>4, <1>1, AboveUnfinished
  <2>2. ASSUME NEW j \in 0 .. job_count - 1, rets[j] = 0, j < b
        PROVE  \E x \in Worker : Owner(x, j)
    <3>1. j < current_job
      BY <2>2, <1>1, <1>3
    <3>2. Open(j) \/ \E x \in Worker : wpc[x] \in InJob /\ our_job[x] = j
      BY <2>2 DEF IInv, JobInv, JobAt
    <3> QED BY <3>1, <3>2, <1>1 DEF Open, Owner
  <2>3. PICK x \in Worker : Owner(x, a - 1)
    BY <2>1, <2>2, <1>1, <1>2
  <2>4. PICK y \in Worker : Owner(y, b - 1)
    BY <2>1, <2>2, <1>1, <1>2
  <2>5. Owner(v, a) /\ Owner(w, b)
    BY DEF Owner, InJob
  <2>6. x # v /\ x # w /\ x # y /\ v # w /\ v # y /\ y # w
    <3>1. a - 1 \in Nat /\ b - 1 \in Nat /\ a - 1 # a /\ a - 1 # b /\ a - 1 # b - 1
          /\ a # b /\ a # b - 1 /\ b # b - 1
      BY <1>1, <1>2
    <3> QED BY <3>1, <1>1, <2>3, <2>4, <2>5, OwnersDiffer
  <2>7. Cardinality(Worker) >= 4
    BY <2>6, FourDistinct
  <2> QED BY <2>7, <1>4 DEF N
<1>5. CASE ~ wpp_err
  <2> DEFINE last == job_count - 1
  <2>1. ASSUME NEW m \in Finished, m # last PROVE m \in 0 .. a - 1
    <3>1. m \in 0 .. job_count - 1 /\ rets[m] = 1 /\ m # a
      BY <1>1 DEF Finished
    <3>2. m \notin bad
      BY <2>1, <3>1, <1>1 DEF OnlyLastBad
    <3>3. entries[m] = Width + 2
      <4>1. entries[m] >= 2 /\ (entries[m] # 0 => entries[m] = Width + 2)
        BY <3>1, <3>2, <2>1, <1>1, <1>5 DEF IInv, FinishedInv
      <4> QED BY <4>1
    <3>4. ~ (a < m)
      BY <3>1, <3>3, <1>1, <1>2, <1>5 DEF IInv, OrderInv
    <3> QED BY <3>1, <3>4, <1>1
  <2>3. current_job = N + Cardinality(Finished)
    <3>1. current_execute > 0
      BY <1>1 DEF IInv, StartInv, TypeOK
    <3> QED BY <3>1 DEF IInv, JobInv, JobAt
  <2>4. CASE last \notin Finished
    <3>1. Finished \in SUBSET (0 .. a - 1)
      BY <2>1, <2>4
    <3>2. Cardinality(Finished) <= a
      BY <3>1, <1>1, Below
    <3> QED BY <3>2, <2>3, <1>1, <1>2, <1>3, FinishedFinite DEF IInv
  <2>5. CASE last \in Finished
    <3>1. Finished \in SUBSET ((0 .. a - 1) \cup {last})
      BY <2>1
    <3>3. Cardinality(Finished) <= a + 1
      BY <3>1, <1>1, BelowAndOne
    <3>4. rets[last] = 1 /\ last \in 0 .. job_count - 1
      BY <2>5 DEF Finished
    <3>5. last < current_job
      BY <3>4, <1>1 DEF IInv, JobInv, JobAt, Open
    <3>6. b = last
      BY <3>3, <3>5, <2>3, <1>1, <1>2, <1>3, FinishedFinite DEF IInv
    <3> QED BY <3>4, <3>6, <1>1
  <2> QED BY <2>4, <2>5
<1> QED BY <1>4, <1>5
-----------------------------------------------------------------------------
(* The inductive invariant *)

LEMMA InitInv == Init => IInv
<1> SUFFICES ASSUME Init PROVE IInv
  OBVIOUS
<1> USE SliceAssumption, NType DEF Init
<1>1. TypeOK
  <2>1. 0 \in 0 .. N - 1 /\ 0 \in 0 .. Width + SHIFT_CTB_WPP /\ 0 \in 0 .. MaxJobs
        /\ 0 \in 0 .. MaxExecutes /\ 0 \in 0 .. 0 /\ 0 \in Nat /\ 0 \in 0 .. N + 0
    BY DEF SHIFT_CTB_WPP
  <2>2. waits \in [Agent -> WaitSet]
    BY DEF Agent, WaitSet
  <2> QED BY <2>1, <2>2 DEF TypeOK, InJob, Agent, WaitSet
<1>2. Started = {} /\ \A w \in Worker : ~ Working(w) /\ ~ Late(w)
  BY DEF Started, Working, InJob, Late
<1>3. StartInv
  BY <1>2, FS_EmptySet DEF StartInv
<1>4. MainInv
  BY <1>2 DEF MainInv
<1>5. JobInv
  BY <1>2 DEF JobInv, JobAt
<1>6. RowInv /\ NeighboursDecoded /\ FinishedInv /\ OrderInv
  BY DEF RowInv, RowAt, NeighboursDecoded, FinishedInv, OrderInv, InJob
<1>7. SleepInv /\ ReasonInv
  BY DEF SleepInv, ReasonInv
<1> QED BY <1>1, <1>3, <1>4, <1>5, <1>6, <1>7 DEF IInv

\* A step that leaves jobs, rows and the workers at them alone.
LEMMA QuietStep ==
  ASSUME IInv, TypeOK', MainInv', SleepInv', ReasonInv',
         UNCHANGED <<current_job, job_count, current_execute, rets, rows, locals>>,
         Started' = Started,
         \A w \in Worker : Working(w) \/ Working(w)' => wpc'[w] = wpc[w]
  PROVE  IInv'
<1>1. /\ UNCHANGED <<current_job, job_count, current_execute, rets, entries, wave, bad, wpp_err,
                     self_id, last_execute, our_job>>
      /\ \A w \in Worker : (Working(w)' <=> Working(w)) /\ (Late(w)' <=> Late(w))
      /\ \A w \in Worker, l \in InJob \cup {"next"} : wpc'[w] = l <=> wpc[w] = l
  BY DEF rows, locals, Working, Late
<1>2. Finished' = Finished /\ \A j : Open(j)' <=> Open(j)
  BY <1>1 DEF Finished, Open
<1>3. StartInv'
  BY <1>1 DEF IInv, StartInv
<1>4. JobInv'
  BY <1>1, <1>2 DEF IInv, JobInv, JobAt, InJob
<1>5. RowInv' /\ NeighboursDecoded'
  BY <1>1 DEF IInv, RowInv, RowAt, NeighboursDecoded, Decoded, InJob
<1>6. FinishedInv' /\ OrderInv'
  BY <1>1 DEF IInv, FinishedInv, OrderInv, OnlyLastBad
<1> QED BY <1>3, <1>4, <1>5, <1>6 DEF IInv

\* A step that only wakes threads, and moves none that sleeps.
LEMMA WakingStep ==
  ASSUME IInv, \A a \in Agent : waits'[a] \in {waits[a], Nothing},
         \A w \in Worker : waits[w] # Nothing => wpc'[w] = wpc[w] /\ our_job'[w] = our_job[w]
  PROVE  /\ SleepInv'
         /\ UNCHANGED <<job_count, entries, bad>> => ReasonInv'
<1>1. \A w \in Worker : w \in Agent /\ Main \in Agent
  BY DEF Agent
<1> QED BY <1>1 DEF IInv, SleepInv, ReasonInv, OnlyLastBad, Agent

LEMMA CreateStep == ASSUME IInv, NEW w \in Worker, Create(w) PROVE IInv'
<1> USE SliceAssumption
<1>1. /\ main = "create" /\ wpc[w] = "none" /\ wpc' = [wpc EXCEPT ![w] = "start"]
      /\ main' \in {"create", "park"}
      /\ \A v \in Worker : waits'[v] = waits[v]
      /\ waits' = waits \/ waits' = [waits EXCEPT ![Main] = last_job_cond]
      /\ UNCHANGED <<current_job, job_count, current_execute, done, rets, rows, locals>>
  <2>1. Create(w)
    OBVIOUS
  <2>2. waits' = waits \/ waits' = [waits EXCEPT ![Main] = last_job_cond]
    BY DEF Create
  <2>3. \A v \in Worker : waits'[v] = waits[v]
    BY <2>2 DEF IInv, TypeOK
  <2> QED BY <2>2, <2>3 DEF Create, pool
<1>2. TypeOK'
  <2>1. waits' \in [Agent -> WaitSet]
    BY <1>1 DEF IInv, TypeOK, Agent, WaitSet
  <2>2. wpc' \in [Worker -> {"none", "start", "parked", "next", "dead"} \cup InJob]
        /\ \A v \in Worker : wpc'[v] \in InJob => wpc[v] \in InJob
    BY <1>1 DEF IInv, TypeOK, InJob
  <2> QED BY <1>1, <2>1, <2>2 DEF IInv, TypeOK, rows, locals, Agent, WaitSet
<1>3. Started = {} /\ Started' = {} /\ \A v \in Worker : ~ Working(v) /\ ~ Working(v)'
  BY <1>1, <1>2 DEF IInv, TypeOK, MainInv, Started, Working, InJob
<1>4. MainInv'
  <2>1. \A v \in Worker : Late(v)' <=> Late(v)
    BY <1>1 DEF Late, locals
  <2>2. \A v \in Worker : ~ Late(v)
    BY <1>1 DEF IInv, MainInv, TypeOK, Late
  <2> QED BY <1>1, <1>2, <1>3, <2>1, <2>2 DEF IInv, MainInv, TypeOK
<1>5. SleepInv' /\ ReasonInv'
  <2>1. \A v \in Worker : waits[v] = Nothing
    BY <1>1, <1>3 DEF IInv, SleepInv, Started
  <2> QED BY <2>1, <1>1 DEF IInv, SleepInv, ReasonInv, TypeOK
<1> QED BY <1>1, <1>2, <1>3, <1>4, <1>5, QuietStep

LEMMA ParkStep == ASSUME IInv, Park PROVE IInv'
<1> USE SliceAssumption
<1>1. /\ main = "park" /\ main' \in {"park", "user"}
      /\ main' = "user" => current_job = N + job_count
      /\ waits' = waits \/ waits' = [waits EXCEPT ![Main] = last_job_cond]
      /\ UNCHANGED <<current_job, job_count, current_execute, done, rets, rows, wpc, locals>>
  BY DEF Park, pool
<1>2. waits' \in [Agent -> WaitSet] /\ \A v \in Worker : waits'[v] = waits[v]
  BY <1>1 DEF IInv, TypeOK, Agent, WaitSet
<1>3. TypeOK'
  BY <1>1, <1>2 DEF IInv, TypeOK, rows, locals, Agent, WaitSet
<1>4. /\ Started' = Started
      /\ \A v \in Worker : (Working(v)' <=> Working(v)) /\ (Late(v)' <=> Late(v))
  BY <1>1 DEF Started, Working, Late, locals
<1>5. MainInv'
  <2>1. CASE main' = "user"
    <3>1. Started = Worker /\ (\A j \in 0 .. job_count - 1 : rets[j] = 1)
          /\ \A w \in Worker : wpc[w] = "parked"
      BY <2>1, <1>1, AllDone DEF IInv
    <3> QED BY <3>1, <2>1, <1>1, <1>4 DEF IInv, MainInv, Working, InJob
  <2>2. CASE main' = "park"
    BY <2>2, <1>1, <1>4 DEF IInv, MainInv
  <2> QED BY <2>1, <2>2, <1>1
<1>6. SleepInv' /\ ReasonInv'
  <2>1. waits'[Main] \in {Nothing, last_job_cond}
    BY <1>1 DEF IInv, SleepInv, TypeOK
  <2> QED BY <2>1, <1>1, <1>2 DEF IInv, SleepInv, ReasonInv, OnlyLastBad, rows, locals
<1> QED BY <1>1, <1>3, <1>4, <1>5, <1>6, QuietStep

LEMMA ExecuteStep == ASSUME IInv, Execute PROVE IInv'
<1> USE SliceAssumption, NType
<1>1. /\ main = "user" /\ main' = "park" /\ current_execute < MaxExecutes
      /\ job_count' \in 1 .. MaxJobs /\ current_job' = N
      /\ current_execute' = current_execute + 1
      /\ rets' = [j \in Job |-> 0] /\ entries' = [j \in Job |-> 0]
      /\ wave' \in BOOLEAN /\ bad' \subseteq Job \ {0} /\ wpp_err' = FALSE
      /\ waits' = [Woken(Sleepers(current_job_cond)) EXCEPT ![Main] = last_job_cond]
      /\ UNCHANGED <<done, wpc, self_id, last_execute, our_job>>
  <2>1. bad' \subseteq Job \ {0}
    BY DEF Execute, Refused
  <2>2. job_count' \in 1 .. MaxJobs
    BY DEF Execute
  <2> QED BY <2>1, <2>2 DEF Execute, locals
<1>0. /\ job_count' \in 0 .. MaxJobs /\ current_job' \in 0 .. N + job_count'
      /\ \A j \in 0 .. job_count' - 1 :
           j \in Job /\ rets'[j] = 0 /\ rets'[j] # 1 /\ entries'[j] = 0
  <2>1. job_count' \in 1 .. MaxJobs /\ current_job' = N
    BY <1>1
  <2>2. rets' = [j \in Job |-> 0] /\ entries' = [j \in Job |-> 0]
    BY <1>1
  <2>3. 0 .. job_count' - 1 \subseteq Job
    BY ONLY <2>1, JobRange, Zenon
  <2>4. job_count' \in 0 .. MaxJobs /\ current_job' \in 0 .. N + job_count'
    BY ONLY <2>1, JobRange, Zenon
  <2>5. 0 # 1
    OBVIOUS
  <2> QED BY ONLY <2>2, <2>3, <2>4, <2>5, Zenon
<1>2. Started = Worker /\ \A w \in Worker : wpc[w] = "parked"
  BY <1>1 DEF IInv, MainInv, Started, Working, TypeOK
<1>3. /\ Started' = Worker /\ \A w \in Worker : ~ Working(w)' /\ Late(w)'
  <2>1. \A w \in Worker : last_execute[w] < current_execute + 1
    BY DEF IInv, TypeOK
  <2> QED BY <2>1, <1>1, <1>2 DEF Started, Working, InJob, Late
<1>4. \A w \in Worker : waits'[w] = Nothing
  <2>1. \A w \in Worker : waits[w] \in {Nothing, current_job_cond}
    BY <1>2 DEF IInv, SleepInv
  <2> QED BY <2>1, <1>1 DEF Woken, Sleepers, IInv, TypeOK
<1>5. waits' \in [Agent -> WaitSet] /\ waits'[Main] = last_job_cond
  BY <1>1 DEF Woken, Sleepers, IInv, TypeOK, Agent, WaitSet
<1>6. TypeOK'
  <2>1. last_execute' \in [Worker -> 0 .. current_execute']
    BY <1>1 DEF IInv, TypeOK
  <2>2. 0 \in 0 .. Width + SHIFT_CTB_WPP
    BY DEF SHIFT_CTB_WPP
  <2>3. current_execute' \in 0 .. MaxExecutes
    BY <1>1 DEF IInv, TypeOK
  <2> QED BY <2>1, <2>2, <2>3, <1>0, <1>1, <1>2, <1>5 DEF IInv, TypeOK, InJob, Agent, WaitSet
<1>7. current_execute' > 0
  BY <1>1 DEF IInv, TypeOK
<1>8. StartInv'
  BY <1>1, <1>2, <1>3, <1>7 DEF IInv, StartInv
<1>9. MainInv'
  BY <1>1, <1>2, <1>3 DEF IInv, MainInv
<1>10. JobInv'
  <2>2. Finished' = {}
    <3>1. \A j \in 0 .. job_count' - 1 : rets'[j] # 1
      BY ONLY <1>0, Zenon
    <3> QED BY <3>1 DEF Finished
  <2>3. current_job' = N + Cardinality(Finished')
    BY <1>1, <2>2, FS_EmptySet
  <2>4. ASSUME NEW j \in 0 .. job_count' - 1 PROVE Open(j)'
    <3>1. CASE j \in 0 .. N - 1
      <4>1. \E w \in Worker : self_id[w] = j
        BY <3>1, <1>2, NumbersUsed DEF IInv
      <4> QED BY <4>1, <1>1, <1>3 DEF Open
    <3>2. CASE j >= N
      BY <3>2, <1>1 DEF Open
    <3> QED BY <3>1, <3>2, <1>1
  <2> QED BY <2>3, <2>4, <1>0, <1>1, <1>3 DEF JobInv, JobAt
<1>11. RowInv' /\ NeighboursDecoded' /\ FinishedInv' /\ OrderInv'
  <2>1. \A j \in Job : entries'[j] = 0
    BY <1>1
  <2>2. \A w \in Worker : wpc'[w] \notin InJob
    BY <1>1, <1>2 DEF InJob
  <2>3. FinishedInv' /\ OrderInv'
    <3>1. \A j \in 0 .. job_count' - 1 : rets'[j] # 1
      BY ONLY <1>0, Zenon
    <3> QED BY ONLY <3>1, Zenon DEF FinishedInv, OrderInv
  <2> QED BY <2>1, <2>2, <2>3 DEF RowInv, RowAt, NeighboursDecoded, InJob
<1>12. SleepInv' /\ ReasonInv'
  BY <1>1, <1>4, <1>5 DEF SleepInv, ReasonInv
<1> QED BY <1>6, <1>8, <1>9, <1>10, <1>11, <1>12 DEF IInv

LEMMA FreeStep == ASSUME IInv, Free PROVE IInv'
<1>1. /\ main \in {"user", "create"} /\ main' = "join" /\ done' = TRUE
      /\ waits' = [a \in DOMAIN waits |-> Nothing]
      /\ UNCHANGED <<current_job, job_count, current_execute, rets, rows, wpc, locals>>
  BY DEF Free
<1>2. DOMAIN waits = Agent /\ waits' \in [Agent -> WaitSet] /\ \A a \in Agent : waits'[a] = Nothing
  BY <1>1 DEF IInv, TypeOK, Agent, WaitSet
<1>3. TypeOK'
  BY <1>1, <1>2 DEF IInv, TypeOK, rows, locals, Agent, WaitSet
<1>4. /\ Started' = Started
      /\ \A v \in Worker : (Working(v)' <=> Working(v)) /\ (Late(v)' <=> Late(v))
  BY <1>1 DEF Started, Working, Late, locals
<1>5. \A w \in Worker : ~ Working(w)
  BY <1>1 DEF IInv, MainInv, Started, Working, InJob
<1>6. \A j \in 0 .. job_count - 1 : rets[j] = 1
  BY <1>1 DEF IInv, MainInv, StartInv
<1>7. MainInv'
  BY <1>1, <1>4, <1>5, <1>6 DEF IInv, MainInv
<1>8. SleepInv' /\ ReasonInv'
  BY <1>2 DEF SleepInv, ReasonInv, Agent
<1> QED BY <1>1, <1>3, <1>4, <1>7, <1>8, QuietStep

LEMMA JoinStep == ASSUME IInv, Join PROVE IInv'
<1>1. /\ main = "join" /\ main' = "freed"
      /\ UNCHANGED <<current_job, job_count, current_execute, done, rets, rows, wpc, locals, waits>>
  BY DEF Join, pool
<1>2. TypeOK'
  BY <1>1 DEF IInv, TypeOK, rows, locals
<1>3. /\ Started' = Started
      /\ \A v \in Worker : (Working(v)' <=> Working(v)) /\ (Late(v)' <=> Late(v))
  BY <1>1 DEF Started, Working, Late, locals
<1>4. MainInv'
  BY <1>1, <1>3 DEF IInv, MainInv
<1>5. SleepInv' /\ ReasonInv'
  BY <1>1 DEF IInv, SleepInv, ReasonInv, OnlyLastBad, rows, locals
<1> QED BY <1>1, <1>2, <1>3, <1>4, <1>5, QuietStep

LEMMA SpuriousStep == ASSUME IInv, SpuriousWakeup PROVE IInv'
<1>1. /\ \E a \in DOMAIN waits : waits' = Woken({a})
      /\ UNCHANGED <<current_job, job_count, current_execute, done, rets, rows, main, wpc, locals>>
  BY DEF SpuriousWakeup, pool
<1>2. waits' \in [Agent -> WaitSet] /\ \A a \in Agent : waits'[a] \in {waits[a], Nothing}
  BY <1>1 DEF Woken, IInv, TypeOK, Agent, WaitSet
<1>3. TypeOK'
  BY <1>1, <1>2 DEF IInv, TypeOK, rows, locals, Agent, WaitSet
<1>4. /\ Started' = Started
      /\ \A v \in Worker : (Working(v)' <=> Working(v)) /\ (Late(v)' <=> Late(v))
  BY <1>1 DEF Started, Working, Late, locals
<1>5. MainInv'
  BY <1>1, <1>4 DEF IInv, MainInv
<1>6. SleepInv' /\ ReasonInv'
  BY <1>1, <1>2, WakingStep DEF rows, locals
<1> QED BY <1>1, <1>3, <1>4, <1>5, <1>6, QuietStep

-----------------------------------------------------------------------------
(* The workers take their numbers *)

\* Worker w goes to sleep, or falls through, after LastSignal.
LEMMA SleepOnWaits ==
  ASSUME IInv, NEW w \in Worker, NEW s \in LastSignal,
         waits' \in {s, [s EXCEPT ![w] = current_job_cond]},
         wpc[w] # "await", wpc'[w] = "parked",
         \A v \in Worker : v # w => wpc'[v] = wpc[v] /\ our_job'[v] = our_job[v],
         UNCHANGED <<job_count, entries, bad>>
  PROVE  waits' \in [Agent -> WaitSet] /\ SleepInv' /\ ReasonInv'
<1>1. s \in [Agent -> WaitSet] /\ \A a \in Agent : s[a] \in {waits[a], Nothing}
  BY LastSignalWakes DEF IInv
<1>2. w \in Agent /\ Main \in Agent /\ w # Main /\ current_job_cond \in WaitSet
  BY SliceAssumption DEF Agent, WaitSet
<1>3. /\ waits' \in [Agent -> WaitSet]
      /\ \A a \in Agent : a # w => waits'[a] \in {waits[a], Nothing}
      /\ waits'[w] \in {waits[w], Nothing, current_job_cond}
  BY <1>1, <1>2
<1>4. waits[w] \in {Nothing, current_job_cond}
  BY DEF IInv, SleepInv
<1>5. \A v \in Worker : v \in Agent
  BY DEF Agent
<1>6. SleepInv'
  <2>1. waits'[Main] \in {Nothing, last_job_cond}
    BY <1>2, <1>3 DEF IInv, SleepInv
  <2>2. ASSUME NEW v \in Worker, waits'[v] # Nothing
        PROVE  \/ waits'[v] = current_job_cond /\ wpc'[v] = "parked"
               \/ wpc'[v] = "await" /\ our_job'[v] > 0 /\ waits'[v] = RowCond(our_job'[v] - 1)
    <3>1. CASE v = w
      BY <3>1, <2>2, <1>3, <1>4
    <3>2. CASE v # w
      BY <3>2, <2>2, <1>3, <1>5 DEF IInv, SleepInv
    <3> QED BY <3>1, <3>2
  <2> QED BY <2>1, <2>2 DEF SleepInv, RowCond
<1>7. ReasonInv'
  BY <1>3, <1>5 DEF IInv, ReasonInv, OnlyLastBad
<1> QED BY <1>3, <1>6, <1>7

\* A job somebody is at is not open.
LEMMA NotOpen ==
  ASSUME IInv, NEW w \in Worker, Working(w)
  PROVE  ~ Open(our_job[w]) /\ main = "park" /\ ~ done /\ current_execute > 0
<1>1. w \in Started
  BY DEF Started, Working, InJob
<1>2. main = "park" /\ ~ done
  BY <1>1 DEF IInv, MainInv, TypeOK
<1>3. our_job[w] < job_count /\ job_count \in Nat /\ our_job[w] \in Nat
  BY SliceAssumption DEF IInv, TypeOK, JobInv, JobAt
<1>4. current_execute > 0 /\ Started = Worker
  BY <1>3 DEF IInv, StartInv, TypeOK
<1>5. N <= current_job
  BY <1>4, FinishedFinite, NType DEF IInv, JobInv, JobAt
<1>6. self_id \in [Worker -> 0 .. N - 1] /\ current_job \in Nat
  BY NType, <1>3 DEF IInv, TypeOK
<1>7. ~ (our_job[w] >= current_job)
  BY <1>3, <1>5, <1>6, NType DEF IInv, JobInv, JobAt
<1>8. ASSUME NEW v \in Worker, self_id[v] = our_job[w], Late(v) PROVE FALSE
  <2>1. ~ Late(w)
    BY DEF IInv, JobInv, JobAt
  <2>2. our_job[w] = self_id[w]
    BY <1>8, <1>6, <1>3, NType DEF IInv, JobInv, JobAt
  <2> QED BY <2>1, <2>2, <1>4, <1>8 DEF IInv, StartInv
<1> QED BY <1>2, <1>4, <1>7, <1>8 DEF Open

LEMMA StartStep == ASSUME IInv, NEW w \in Worker, Start(w) PROVE IInv'
<1> USE SliceAssumption, NType
<1>1. /\ wpc[w] = "start" /\ main # "create"
      /\ self_id' = [self_id EXCEPT ![w] = current_job] /\ current_job' = current_job + 1
      /\ wpc' = [wpc EXCEPT ![w] = "parked"]
      /\ \E s \in LastSignal : waits' \in {s, [s EXCEPT ![w] = current_job_cond]}
      /\ UNCHANGED <<job_count, current_execute, done, rets, entries, wave, bad, wpp_err, main,
                     last_execute, our_job>>
  BY DEF Start, SleepOn, Goto, rows
<1>2. w \notin Started /\ current_execute = 0 /\ job_count = 0
  BY <1>1 DEF Started, IInv, StartInv, TypeOK
<1>3. current_job < N /\ Cardinality(Started \cup {w}) = current_job + 1 /\ current_job \in Nat
  <2>1. current_job < N /\ Cardinality(Started \cup {w}) = current_job + 1
    BY <1>2, NumbersLeft DEF IInv
  <2> QED BY <2>1, <1>2 DEF IInv, TypeOK
<1>4. wpc'[w] = "parked" /\ \A v \in Worker : v # w => wpc'[v] = wpc[v]
  BY <1>1 DEF IInv, TypeOK
<1>5. waits' \in [Agent -> WaitSet] /\ SleepInv' /\ ReasonInv'
  BY <1>1, <1>4, SleepOnWaits
<1>6. Started' = Started \cup {w}
  BY <1>4 DEF Started
<1>7. \A v \in Worker : ~ Working(v) /\ ~ Working(v)' /\ ~ Late(v) /\ ~ Late(v)'
  <2>1. \A v \in Worker : ~ Working(v) /\ ~ Late(v)
    BY <1>2 DEF IInv, JobInv, JobAt, TypeOK, Late
  <2> QED BY <2>1, <1>1, <1>4 DEF Working, Late, InJob
<1>8. TypeOK'
  <2>1. self_id' \in [Worker -> 0 .. N - 1]
    BY <1>1, <1>3 DEF IInv, TypeOK
  <2>2. current_job' \in 0 .. N + job_count'
    BY <1>1, <1>2, <1>3
  <2>3. wpc' \in [Worker -> {"none", "start", "parked", "next", "dead"} \cup InJob]
    BY <1>1 DEF IInv, TypeOK
  <2>4. \A v \in Worker : wpc'[v] \notin InJob
    BY <1>7 DEF Working
  <2> QED BY <2>1, <2>2, <2>3, <2>4, <1>1, <1>5 DEF IInv, TypeOK, Agent, WaitSet
<1>9. StartInv'
  <2>1. \A v \in Started : self_id[v] < current_job /\ self_id'[v] = self_id[v] /\ self_id[v] \in Nat
    BY <1>1, <1>2, <1>3 DEF IInv, StartInv, TypeOK, Started
  <2>2. self_id'[w] = current_job
    BY <1>1 DEF IInv, TypeOK
  <2>3. \A v \in Started' : self_id'[v] < current_job'
    BY <2>1, <2>2, <1>1, <1>3, <1>6
  <2>4. \A u, v \in Started' : self_id'[u] = self_id'[v] => u = v
    BY <2>1, <2>2, <1>3, <1>6 DEF IInv, StartInv
  <2> QED BY <2>3, <2>4, <1>1, <1>2, <1>3, <1>6 DEF StartInv
<1>10. MainInv'
  BY <1>1, <1>2, <1>4, <1>6, <1>7 DEF IInv, MainInv
<1>11. JobInv' /\ FinishedInv' /\ OrderInv'
  BY <1>1, <1>2, <1>7 DEF JobInv, JobAt, FinishedInv, OrderInv
<1>12. RowInv' /\ NeighboursDecoded'
  BY <1>1, <1>7 DEF IInv, RowInv, RowAt, NeighboursDecoded, Working, InJob
<1> QED BY <1>5, <1>8, <1>9, <1>10, <1>11, <1>12 DEF IInv

LEMMA ModSmall ==
  ASSUME NEW a \in Nat, NEW n \in Nat, a < n
  PROVE  a % n = a
OBVIOUS

\* The rows are as they were when only a worker outside a row moves.
LEMMA SameRows ==
  ASSUME IInv, NEW w \in Worker, UNCHANGED <<job_count, rets, entries, wave, bad, wpp_err>>,
         wpc'[w] \notin InJob \/ (wpc'[w] = "job" /\ entries[our_job'[w]] = 0),
         \A v \in Worker : v # w => wpc'[v] = wpc[v] /\ our_job'[v] = our_job[v]
  PROVE  RowInv' /\ NeighboursDecoded' /\ FinishedInv' /\ OrderInv'
<1>1. FinishedInv' /\ OrderInv'
  BY DEF IInv, FinishedInv, OrderInv, OnlyLastBad
<1>2. NeighboursDecoded'
  BY DEF IInv, NeighboursDecoded, Decoded, InJob
<1>3. RowInv'
  <2>1. ~ wave' => \A j \in Job : entries'[j] = 0
    BY DEF IInv, RowInv, RowAt
  <2> SUFFICES ASSUME NEW v \in Worker PROVE RowAt(v)'
    BY <2>1 DEF RowInv
  <2>2. CASE v = w
    BY <2>2, SliceAssumption DEF InJob, RowAt
  <2>3. CASE v # w
    BY <2>3 DEF IInv, RowInv, RowAt, Decoded
  <2> QED BY <2>2, <2>3
<1> QED BY <1>1, <1>2, <1>3

LEMMA WakeStep == ASSUME IInv, NEW w \in Worker, Wake(w) PROVE IInv'
<1> USE SliceAssumption, NType
<1>1. /\ wpc[w] = "parked" /\ waits[w] = Nothing
      /\ UNCHANGED <<job_count, current_execute, done, rets, entries, wave, bad, wpp_err, main,
                     self_id, current_job>>
  BY DEF Wake, Awake, rows, locals
<1>2. CASE last_execute[w] = current_execute /\ ~ done
  <2>1. /\ waits' = [waits EXCEPT ![w] = current_job_cond]
        /\ UNCHANGED <<wpc, last_execute, our_job>>
    BY <1>2 DEF Wake, locals
  <2>2. TypeOK'
    <3>1. waits' \in [Agent -> WaitSet]
      BY <2>1 DEF IInv, TypeOK, Agent, WaitSet
    <3> QED BY <1>1, <2>1, <3>1 DEF IInv, TypeOK, Agent, WaitSet
  <2>3. /\ Started' = Started
        /\ \A v \in Worker : (Working(v)' <=> Working(v)) /\ (Late(v)' <=> Late(v))
    BY <1>1, <2>1 DEF Started, Working, Late
  <2>4. MainInv'
    BY <1>1, <2>1, <2>3 DEF IInv, MainInv
  <2>5. \A a \in Agent : waits'[a] = IF a = w THEN current_job_cond ELSE waits[a]
    BY <2>1 DEF IInv, TypeOK, Agent
  <2>6. SleepInv' /\ ReasonInv'
    <3>1. \A v \in Worker : v \in Agent /\ v # Main /\ Main \in Agent
      BY DEF Agent
    <3> QED BY <3>1, <2>5, <1>1, <2>1 DEF IInv, SleepInv, ReasonInv, OnlyLastBad, RowCond
  <2> QED BY <1>1, <2>1, <2>2, <2>3, <2>4, <2>6, QuietStep DEF rows, locals
<1>3. CASE ~ (last_execute[w] = current_execute /\ ~ done)
  <2>1. /\ last_execute' = [last_execute EXCEPT ![w] = current_execute]
        /\ our_job' = [our_job EXCEPT ![w] = self_id[w]]
        /\ \/ done /\ wpc' = [wpc EXCEPT ![w] = "dead"] /\ UNCHANGED waits
           \/ ~ done /\ self_id[w] < job_count /\ wpc' = [wpc EXCEPT ![w] = "job"] /\ UNCHANGED waits
           \/ /\ ~ done /\ self_id[w] >= job_count /\ UNCHANGED wpc
              /\ \E s \in LastSignal : waits' = [s EXCEPT ![w] = current_job_cond]
    BY <1>3 DEF Wake, Goto
  <2>2. /\ last_execute' \in [Worker -> 0 .. current_execute] /\ our_job' \in [Worker -> Nat]
        /\ our_job'[w] = self_id[w] /\ last_execute'[w] = current_execute
        /\ \A v \in Worker : v # w => our_job'[v] = our_job[v] /\ last_execute'[v] = last_execute[v]
    BY <2>1 DEF IInv, TypeOK
  <2>3. /\ wpc' \in [Worker -> {"none", "start", "parked", "next", "dead"} \cup InJob]
        /\ wpc'[w] \in {"dead", "job", "parked"}
        /\ \A v \in Worker : v # w => wpc'[v] = wpc[v]
    <3>1. wpc' \in {wpc, [wpc EXCEPT ![w] = "dead"], [wpc EXCEPT ![w] = "job"]}
      BY <2>1
    <3> QED BY <3>1, <1>1 DEF IInv, TypeOK, InJob
  <2>4. /\ Started' = Started /\ ~ Working(w)
        /\ \A v \in Worker : v # w => (Working(v)' <=> Working(v)) /\ (Late(v)' <=> Late(v))
        /\ ~ Late(w)'
    <3>1. ~ Late(w)' /\ \A v \in Worker : v # w => (Late(v)' <=> Late(v))
      BY <1>1, <2>2 DEF Late, IInv, TypeOK
    <3> QED BY <3>1, <1>1, <2>3 DEF Started, Working, InJob
  <2>5. w \in Started /\ self_id[w] \in 0 .. N - 1 /\ job_count \in Nat
    BY <1>1 DEF Started, IInv, TypeOK
  <2>6. /\ waits' \in [Agent -> WaitSet] /\ SleepInv' /\ ReasonInv'
    <3>1. CASE UNCHANGED waits
      <4>1. \A a \in Agent : waits'[a] \in {waits[a], Nothing}
        BY <3>1
      <4>2. \A v \in Worker : waits[v] # Nothing => wpc'[v] = wpc[v] /\ our_job'[v] = our_job[v]
        BY <1>1, <2>2, <2>3
      <4>3. SleepInv' /\ ReasonInv'
        BY <4>1, <4>2, <1>1, WakingStep
      <4> QED BY <4>3, <3>1 DEF IInv, TypeOK, Agent, WaitSet
    <3>2. CASE UNCHANGED wpc /\ \E s \in LastSignal : waits' = [s EXCEPT ![w] = current_job_cond]
      <4>1. PICK s \in LastSignal : waits' = [s EXCEPT ![w] = current_job_cond]
        BY <3>2
      <4>2. wpc[w] # "await" /\ wpc'[w] = "parked"
        BY <3>2, <1>1
      <4> QED BY <4>1, <4>2, <1>1, <2>2, <2>3, SleepOnWaits
    <3> QED BY <3>1, <3>2, <2>1
  <2>7. TypeOK'
    <3>1. \A v \in Worker : wpc'[v] \in InJob => our_job'[v] < job_count
      <4>1. wpc'[w] \in InJob => self_id[w] < job_count
        BY <1>1, <2>1, <2>3 DEF IInv, TypeOK, InJob
      <4> QED BY <4>1, <2>2, <2>3 DEF IInv, TypeOK
    <3> QED BY <3>1, <2>2, <2>3, <2>6, <1>1 DEF IInv, TypeOK, Agent, WaitSet
  <2>8. StartInv'
    BY <1>1, <2>4 DEF IInv, StartInv
  <2>9. Finished' = Finished
    <3>1. \A v \in Worker : (wpc'[v] = "next" <=> wpc[v] = "next")
                            /\ (wpc[v] = "next" => our_job'[v] = our_job[v])
      BY <1>1, <2>2, <2>3
    <3> QED BY <3>1, <1>1 DEF Finished
  <2>10. CASE done
    <3>1. /\ wpc'[w] = "dead" /\ (\A j \in 0 .. job_count - 1 : rets[j] = 1)
          /\ \A v \in Worker : ~ Working(v) /\ ~ Working(v)'
      <4>1. wpc'[w] = "dead"
        BY <2>1, <2>10 DEF IInv, TypeOK
      <4>2. main \in {"join", "freed"}
        BY <2>10 DEF IInv, MainInv
      <4> QED BY <4>1, <4>2, <2>4, <2>10 DEF IInv, MainInv, Working, InJob
    <3>2. MainInv'
      BY <3>1, <2>3, <2>4, <2>10, <1>1 DEF IInv, MainInv
    <3>3. JobInv'
      <4>1. \A j \in 0 .. job_count - 1 : ~ Open(j)'
        <5>1. \A j \in 0 .. job_count - 1 : ~ Open(j)
          BY <3>1 DEF IInv, JobInv, JobAt
        <5> QED BY <5>1, <1>1, <2>4 DEF Open
      <4> QED BY <4>1, <3>1, <2>9, <1>1 DEF IInv, JobInv, JobAt
    <3>4. RowInv' /\ NeighboursDecoded' /\ FinishedInv' /\ OrderInv'
      BY <3>1, <2>2, <2>3, <1>1, SameRows DEF InJob
    <3> QED BY <3>2, <3>3, <3>4, <2>6, <2>7, <2>8 DEF IInv
  <2>11. CASE ~ done /\ self_id[w] < job_count
    <3> DEFINE r == self_id[w]
    <3>1. wpc'[w] = "job" /\ r \in 0 .. job_count - 1
      BY <2>1, <2>5, <2>11 DEF IInv, TypeOK
    <3>2. Late(w) /\ rets[r] = 0 /\ entries[r] = 0 /\ current_execute > 0
      <4>1. Late(w) /\ current_execute > 0
        BY <1>3, <2>11 DEF Late, IInv, TypeOK
      <4>2. Open(r)
        BY <4>1 DEF Open
      <4> QED BY <4>1, <4>2, <3>1 DEF IInv, JobInv, JobAt
    <3>3. main = "park" /\ Started = Worker
      BY <2>11, <3>1, <3>2 DEF IInv, MainInv, StartInv, TypeOK
    <3>4. MainInv'
      <4>1. \A v \in Worker : wpc'[v] # "dead"
        BY <3>1, <2>3, <2>11 DEF IInv, MainInv
      <4>2. \A v \in Worker : Late(v)' => wpc'[v] = "parked"
        BY <2>3, <2>4 DEF IInv, MainInv
      <4> QED BY <4>1, <4>2, <3>3, <2>11, <1>1 DEF IInv, MainInv
    <3>5. JobInv'
      <4>1. ASSUME NEW j \in 0 .. job_count - 1
            PROVE  Open(j) <=> Open(j)' \/ j = r
        <5>1. ASSUME Open(j)' PROVE Open(j)
          BY <5>1, <1>1, <2>4 DEF Open
        <5>2. ASSUME Open(j), j # r PROVE Open(j)'
          BY <5>2, <1>1, <2>4 DEF Open
        <5>3. Open(r)
          BY <3>2 DEF Open
        <5> QED BY <5>1, <5>2, <5>3
      <4>2. ASSUME NEW j \in 0 .. job_count - 1, rets[j] = 0
            PROVE  Open(j)' \/ \E v \in Worker : wpc'[v] \in InJob /\ our_job'[v] = j
        <5>1. CASE Open(j)
          BY <5>1, <4>1, <3>1, <2>2 DEF InJob
        <5>2. CASE \E v \in Worker : wpc[v] \in InJob /\ our_job[v] = j
          BY <5>2, <2>2, <2>3, <1>1 DEF InJob
        <5> QED BY <4>2, <5>1, <5>2 DEF IInv, JobInv, JobAt
      <4>3. ASSUME NEW v \in Worker, Working(v), v # w PROVE our_job[v] # r
        BY <4>3, <2>5, <3>3 DEF IInv, JobInv, JobAt, StartInv
      <4>4. \A u, v \in Worker : Working(u)' /\ Working(v)' /\ our_job'[u] = our_job'[v] => u = v
        BY <4>3, <2>2, <2>4 DEF IInv, JobInv, JobAt
      <4>5. ASSUME NEW v \in Worker, Working(v)' PROVE JobAt(v)'
        <5>1. CASE v = w
          <6>1. self_id[w] < job_count /\ rets[our_job'[w]] = 0 /\ wpc'[w] # "next"
            BY <2>2, <2>11, <3>1, <3>2
          <6> QED BY <5>1, <6>1, <1>1, <2>2, <2>4 DEF JobAt
        <5>2. CASE v # w
          BY <5>2, <4>5, <1>1, <2>2, <2>3, <2>4 DEF IInv, JobInv, JobAt
        <5> QED BY <5>1, <5>2
      <4> QED BY <4>1, <4>2, <4>4, <4>5, <2>9, <1>1 DEF IInv, JobInv, JobAt
    <3>6. RowInv' /\ NeighboursDecoded' /\ FinishedInv' /\ OrderInv'
      BY <3>1, <3>2, <2>2, <2>3, <1>1, SameRows
    <3> QED BY <3>4, <3>5, <3>6, <2>6, <2>7, <2>8 DEF IInv
  <2>12. CASE ~ done /\ ~ (self_id[w] < job_count)
    <3>1. wpc'[w] = "parked" /\ ~ Working(w)'
      BY <2>1, <2>12, <1>1 DEF Working, InJob
    <3>2. MainInv'
      BY <3>1, <2>3, <2>4, <2>12, <1>1 DEF IInv, MainInv
    <3>3. JobInv'
      <4>1. \A j \in 0 .. job_count - 1 : Open(j)' <=> Open(j)
        BY <1>1, <2>4, <2>5, <2>12 DEF Open
      <4>2. \A v \in Worker : v # w => (wpc'[v] \in InJob <=> wpc[v] \in InJob)
        BY <2>3
      <4>3. wpc[w] \notin InJob /\ wpc'[w] \notin InJob
        BY <1>1, <3>1 DEF InJob
      <4> QED BY <4>1, <4>2, <4>3, <3>1, <2>2, <2>3, <2>4, <2>9, <1>1 DEF IInv, JobInv, JobAt
    <3>4. RowInv' /\ NeighboursDecoded' /\ FinishedInv' /\ OrderInv'
      BY <3>1, <2>2, <2>3, <1>1, SameRows DEF InJob
    <3> QED BY <3>2, <3>3, <3>4, <2>6, <2>7, <2>8 DEF IInv
  <2> QED BY <2>10, <2>11, <2>12
<1> QED BY <1>2, <1>3

LEMMA NextJobStep == ASSUME IInv, NEW w \in Worker, NextJob(w) PROVE IInv'
<1> USE SliceAssumption, NType
<1>1. /\ wpc[w] = "next" /\ our_job' = [our_job EXCEPT ![w] = current_job]
      /\ current_job' = current_job + 1
      /\ IF current_job < job_count THEN wpc' = [wpc EXCEPT ![w] = "job"] /\ UNCHANGED waits
         ELSE wpc' = [wpc EXCEPT ![w] = "parked"]
              /\ \E s \in LastSignal : waits' \in {s, [s EXCEPT ![w] = current_job_cond]}
      /\ UNCHANGED <<job_count, current_execute, done, rets, entries, wave, bad, wpp_err, main,
                     self_id, last_execute>>
  BY DEF NextJob, SleepOn, Goto, rows
<1>2. Working(w) /\ our_job[w] \in 0 .. job_count - 1 /\ rets[our_job[w]] = 1 /\ ~ Late(w)
  BY <1>1 DEF IInv, TypeOK, JobInv, JobAt, Working
<1>3. main = "park" /\ ~ done /\ current_execute > 0 /\ waits[w] = Nothing
  BY <1>1, <1>2, NotOpen DEF IInv, SleepInv
<1>4. /\ N <= current_job /\ current_job < N + job_count /\ current_job \in Nat
      /\ Cardinality(Finished \cup {our_job[w]}) = current_job - N + 1
      /\ job_count \in Nat
  BY <1>1, JobsLeft DEF IInv, TypeOK
<1>5. /\ our_job' \in [Worker -> Nat] /\ our_job'[w] = current_job
      /\ \A v \in Worker : v # w => our_job'[v] = our_job[v]
  BY <1>1, <1>4 DEF IInv, TypeOK
<1>6. /\ wpc' \in [Worker -> {"none", "start", "parked", "next", "dead"} \cup InJob]
      /\ wpc'[w] = IF current_job < job_count THEN "job" ELSE "parked"
      /\ \A v \in Worker : v # w => wpc'[v] = wpc[v]
  <2>1. wpc' = [wpc EXCEPT ![w] = IF current_job < job_count THEN "job" ELSE "parked"]
    BY <1>1
  <2> QED BY <2>1 DEF IInv, TypeOK, InJob
<1>7. /\ Started' = Started
      /\ \A v \in Worker : Late(v)' <=> Late(v)
      /\ \A v \in Worker : v # w => (Working(v)' <=> Working(v))
  BY <1>1, <1>6 DEF Started, Working, Late
<1>8. waits' \in [Agent -> WaitSet] /\ SleepInv' /\ ReasonInv'
  <2>1. CASE current_job < job_count
    <3>1. UNCHANGED waits
      BY <1>1, <2>1
    <3>2. \A a \in Agent : waits'[a] \in {waits[a], Nothing}
      BY <3>1
    <3>3. \A v \in Worker : waits[v] # Nothing => wpc'[v] = wpc[v] /\ our_job'[v] = our_job[v]
      BY <1>3, <1>5, <1>6
    <3>4. SleepInv' /\ ReasonInv'
      BY <3>2, <3>3, <1>1, WakingStep
    <3> QED BY <3>1, <3>4 DEF IInv, TypeOK, Agent, WaitSet
  <2>2. CASE ~ (current_job < job_count)
    <3>1. PICK s \in LastSignal : waits' \in {s, [s EXCEPT ![w] = current_job_cond]}
      BY <2>2, <1>1
    <3>2. wpc[w] # "await" /\ wpc'[w] = "parked"
      BY <2>2, <1>1, <1>6
    <3> QED BY <3>1, <3>2, <1>1, <1>5, <1>6, SleepOnWaits
  <2> QED BY <2>1, <2>2
<1>9. TypeOK'
  <2>1. \A v \in Worker : wpc'[v] \in InJob => our_job'[v] < job_count
    BY <1>5, <1>6 DEF IInv, TypeOK, InJob
  <2>2. current_job' \in 0 .. N + job_count'
    BY <1>1, <1>4
  <2> QED BY <2>1, <2>2, <1>1, <1>5, <1>6, <1>8 DEF IInv, TypeOK, Agent, WaitSet
<1>10. StartInv'
  BY <1>1, <1>3, <1>7 DEF IInv, StartInv
<1>11. MainInv'
  <2>1. \A v \in Worker : wpc'[v] # "dead" /\ (Late(v)' => wpc'[v] = "parked")
    BY <1>2, <1>3, <1>6, <1>7 DEF IInv, MainInv
  <2> QED BY <2>1, <1>1, <1>3 DEF IInv, MainInv
<1>12. Finished' = Finished \cup {our_job[w]}
  <2>1. \A v \in Worker : v # w /\ wpc[v] = "next" => our_job[v] # our_job[w]
    BY <1>2 DEF IInv, JobInv, Working
  <2>2. wpc'[w] # "next"
    BY <1>6
  <2>3. \A j \in 0 .. job_count - 1 :
          (\A v \in Worker : wpc'[v] = "next" => our_job'[v] # j)
            <=> (\A v \in Worker : v # w /\ wpc[v] = "next" => our_job[v] # j)
    BY <2>2, <1>5, <1>6
  <2> QED BY <2>1, <2>3, <1>1, <1>2 DEF Finished
<1>13. current_job' = N + Cardinality(Finished')
  BY <1>1, <1>4, <1>12
<1>14. CASE current_job < job_count
  <2>1. wpc'[w] = "job" /\ current_job \in 0 .. job_count - 1
    BY <1>4, <1>6, <1>14
  <2>2. rets[current_job] = 0 /\ entries[current_job] = 0
    BY <2>1, <1>4 DEF IInv, JobInv, Open
  <2>3. ASSUME NEW j \in 0 .. job_count - 1
        PROVE  Open(j) <=> Open(j)' \/ j = current_job
    <3>1. j >= current_job <=> j >= current_job' \/ j = current_job
      BY <1>1, <1>4
    <3> QED BY <3>1, <1>1, <1>7 DEF Open
  <2>4. ASSUME NEW j \in 0 .. job_count - 1, rets[j] = 0
        PROVE  Open(j)' \/ \E v \in Worker : wpc'[v] \in InJob /\ our_job'[v] = j
    <3>1. CASE Open(j)
      BY <3>1, <2>1, <2>3, <1>5 DEF InJob
    <3>2. CASE \E v \in Worker : wpc[v] \in InJob /\ our_job[v] = j
      BY <3>2, <1>1, <1>5, <1>6 DEF InJob
    <3> QED BY <2>4, <3>1, <3>2 DEF IInv, JobInv
  <2>5. ASSUME NEW v \in Worker, Working(v), v # w
        PROVE  our_job[v] < current_job /\ our_job[v] \in Nat
    BY <2>5, <1>4 DEF IInv, JobInv, JobAt, TypeOK
  <2>6. \A u, v \in Worker : Working(u)' /\ Working(v)' /\ our_job'[u] = our_job'[v] => u = v
    BY <2>5, <1>4, <1>5, <1>7 DEF IInv, JobInv
  <2>7. ASSUME NEW v \in Worker, Working(v)' PROVE JobAt(v)'
    <3>1. CASE v = w
      <4>1. our_job'[w] < job_count /\ N <= our_job'[w] /\ our_job'[w] < current_job'
            /\ rets[our_job'[w]] = 0 /\ wpc'[w] # "next" /\ ~ Late(w)'
        BY <2>1, <2>2, <1>1, <1>2, <1>4, <1>5, <1>7
      <4> QED BY <3>1, <4>1, <1>1 DEF JobAt
    <3>2. CASE v # w
      <4>1. JobAt(v) /\ our_job[v] \in Nat
        BY <3>2, <2>7, <1>7 DEF IInv, JobInv, TypeOK
      <4>2. our_job[v] < current_job => our_job[v] < current_job'
        BY <4>1, <1>1, <1>4
      <4> QED BY <3>2, <4>1, <4>2, <1>1, <1>5, <1>6, <1>7 DEF JobAt
    <3> QED BY <3>1, <3>2
  <2>8. JobInv'
    BY <2>3, <2>4, <2>6, <2>7, <1>1, <1>13 DEF IInv, JobInv
  <2>9. RowInv' /\ NeighboursDecoded' /\ FinishedInv' /\ OrderInv'
    BY <2>1, <2>2, <1>1, <1>5, <1>6, SameRows
  <2> QED BY <2>8, <2>9, <1>8, <1>9, <1>10, <1>11 DEF IInv
<1>15. CASE ~ (current_job < job_count)
  <2>1. wpc'[w] = "parked" /\ ~ Working(w)' /\ wpc'[w] \notin InJob
    BY <1>6, <1>15 DEF Working, InJob
  <2>2. \A j \in 0 .. job_count - 1 : Open(j)' <=> Open(j)
    <3>1. \A j \in 0 .. job_count - 1 : ~ (j >= current_job) /\ ~ (j >= current_job')
      BY <1>1, <1>4, <1>15
    <3> QED BY <3>1, <1>1, <1>7 DEF Open
  <2>3. ASSUME NEW v \in Worker, Working(v)' PROVE JobAt(v)'
    <3>1. v # w /\ JobAt(v) /\ our_job[v] \in Nat
      BY <2>1, <2>3, <1>7 DEF IInv, JobInv, TypeOK
    <3>2. our_job[v] < current_job => our_job[v] < current_job'
      BY <3>1, <1>1, <1>4
    <3> QED BY <3>1, <3>2, <1>1, <1>5, <1>6, <1>7 DEF JobAt
  <2>4. ASSUME NEW j \in 0 .. job_count - 1, rets[j] = 0
        PROVE  Open(j)' \/ \E v \in Worker : wpc'[v] \in InJob /\ our_job'[v] = j
    <3>1. CASE Open(j)
      BY <3>1, <2>2
    <3>2. CASE \E v \in Worker : wpc[v] \in InJob /\ our_job[v] = j
      BY <3>2, <1>1, <1>5, <1>6 DEF InJob
    <3> QED BY <2>4, <3>1, <3>2 DEF IInv, JobInv
  <2>5. \A u, v \in Worker : Working(u)' /\ Working(v)' /\ our_job'[u] = our_job'[v] => u = v
    BY <2>1, <1>5, <1>7 DEF IInv, JobInv
  <2>6. JobInv'
    BY <2>2, <2>3, <2>4, <2>5, <1>1, <1>13 DEF IInv, JobInv
  <2>7. RowInv' /\ NeighboursDecoded' /\ FinishedInv' /\ OrderInv'
    BY <2>1, <1>1, <1>5, <1>6, SameRows
  <2> QED BY <2>6, <2>7, <1>8, <1>9, <1>10, <1>11 DEF IInv
<1> QED BY <1>14, <1>15

-----------------------------------------------------------------------------
(* The jobs and the rows *)

\* A step of a worker that stays at its job.
LEMMA StaysAtJob ==
  ASSUME IInv, NEW w \in Worker, wpc[w] \in InJob, wpc'[w] \in InJob,
         \A v \in Worker : v # w => wpc'[v] = wpc[v],
         UNCHANGED <<pool, rets, main, locals>>,
         \A j \in Job : j # our_job[w] => entries'[j] = entries[j]
  PROVE  StartInv' /\ MainInv' /\ JobInv'
<1> USE SliceAssumption
<1>1. UNCHANGED <<current_job, job_count, current_execute, done, rets, main,
                  self_id, last_execute, our_job>>
  BY DEF pool, locals
<1>2. /\ Started' = Started
      /\ \A v \in Worker : (Late(v)' <=> Late(v)) /\ (Working(v)' <=> Working(v))
      /\ \A v \in Worker : (wpc'[v] = "next" <=> wpc[v] = "next")
                        /\ (wpc'[v] = "parked" <=> wpc[v] = "parked")
                        /\ (wpc'[v] = "dead" <=> wpc[v] = "dead")
                        /\ (wpc'[v] \in InJob <=> wpc[v] \in InJob)
  BY <1>1 DEF Started, Working, Late, InJob
<1>3. Finished' = Finished /\ \A j : Open(j)' <=> Open(j)
  BY <1>1, <1>2 DEF Finished, Open
<1>4. StartInv'
  BY <1>1, <1>2 DEF IInv, StartInv
<1>5. MainInv'
  BY <1>1, <1>2 DEF IInv, MainInv
<1>6. JobInv'
  <2>1. ~ Open(our_job[w])
    BY NotOpen DEF Working
  <2>2. \A j \in 0 .. job_count - 1 : j \in Job
    BY DEF IInv, TypeOK, Job
  <2>3. \A j \in 0 .. job_count - 1 : Open(j)' => rets'[j] = 0 /\ entries'[j] = 0
    BY <2>1, <2>2, <1>1, <1>3 DEF IInv, JobInv
  <2>4. \A v \in Worker : Working(v)' => JobAt(v)'
    BY <1>1, <1>2 DEF IInv, JobInv, JobAt
  <2> QED BY <2>3, <2>4, <1>1, <1>2, <1>3 DEF IInv, JobInv
<1> QED BY <1>4, <1>5, <1>6

\* The job of worker w is over.
LEMMA JobOver ==
  ASSUME IInv, NEW w \in Worker, wpc[w] \in InJob, Returned(w),
         UNCHANGED <<pool, main, locals>>,
         \A j \in Job : j # our_job[w] => entries'[j] = entries[j]
  PROVE  /\ StartInv' /\ MainInv' /\ JobInv'
         /\ rets' \in [Job -> Nat] /\ rets[our_job[w]] = 0 /\ rets'[our_job[w]] = 1
         /\ our_job[w] \in 0 .. job_count - 1 /\ our_job[w] \in Job
         /\ \A j \in Job : j # our_job[w] => rets'[j] = rets[j]
         /\ wpc'[w] = "next" /\ \A v \in Worker : v # w => wpc'[v] = wpc[v]
         /\ wpc' \in [Worker -> {"none", "start", "parked", "next", "dead"} \cup InJob]
<1> USE SliceAssumption
<1> DEFINE r == our_job[w]
<1>1. UNCHANGED <<current_job, job_count, current_execute, done, main,
                  self_id, last_execute, our_job>>
  BY DEF pool, locals
<1>2. Working(w) /\ wpc[w] # "next"
  BY DEF Working, InJob
<1>3. r \in 0 .. job_count - 1 /\ r \in Job /\ rets[r] = 0 /\ job_count \in Nat
  BY <1>2 DEF IInv, TypeOK, JobInv, JobAt, Job
<1>4. rets' = [rets EXCEPT ![r] = @ + 1]
  <2>1. r % job_count = r
    BY <1>3, ModSmall
  <2> QED BY <2>1 DEF Returned
<1>5. /\ rets' \in [Job -> Nat] /\ rets'[r] = 1
      /\ \A j \in Job : j # r => rets'[j] = rets[j]
  BY <1>3, <1>4 DEF IInv, TypeOK
<1>6. /\ wpc'[w] = "next" /\ \A v \in Worker : v # w => wpc'[v] = wpc[v]
      /\ wpc' \in [Worker -> {"none", "start", "parked", "next", "dead"} \cup InJob]
  BY DEF Returned, Goto, IInv, TypeOK
<1>7. /\ Started' = Started
      /\ \A v \in Worker : (Late(v)' <=> Late(v)) /\ (Working(v)' <=> Working(v))
  BY <1>1, <1>2, <1>6 DEF Started, Working, Late, InJob
<1>8. main = "park" /\ ~ done /\ current_execute > 0 /\ ~ Open(r)
  BY <1>2, NotOpen
<1>9. StartInv'
  BY <1>1, <1>7 DEF IInv, StartInv
<1>10. MainInv'
  <2>1. \A v \in Worker : wpc'[v] # "dead" /\ (Late(v)' => wpc'[v] = "parked")
    BY <1>2, <1>6, <1>7, <1>8 DEF IInv, MainInv, InJob
  <2> QED BY <2>1, <1>1, <1>8 DEF IInv, MainInv
<1>11. JobInv'
  <2>1. \A j \in 0 .. job_count - 1 : j \in Job
    BY DEF IInv, TypeOK, Job
  <2>2. Finished' = Finished
    <3>1. r \notin Finished /\ r \notin Finished'
      BY <1>1, <1>3, <1>6 DEF Finished
    <3>2. \A j \in 0 .. job_count - 1 : j # r => (j \in Finished' <=> j \in Finished)
      <4>1. \A j \in 0 .. job_count - 1 : j # r =>
              ((\A v \in Worker : wpc'[v] = "next" => our_job[v] # j)
                <=> (\A v \in Worker : wpc[v] = "next" => our_job[v] # j))
        BY <1>2, <1>6
      <4> QED BY <4>1, <2>1, <1>1, <1>5 DEF Finished
    <3>3. Finished \subseteq 0 .. job_count - 1 /\ Finished' \subseteq 0 .. job_count - 1
      BY <1>1 DEF Finished
    <3>4. \A j : j \in Finished' <=> j \in Finished
      BY <3>1, <3>2, <3>3
    <3> QED BY ONLY <3>4
  <2>3. \A j : Open(j)' <=> Open(j)
    BY <1>1, <1>7 DEF Open
  <2>4. ASSUME NEW v \in Worker, Working(v)' PROVE JobAt(v)'
    <3>1. JobAt(v) /\ our_job[v] \in Job
      BY <2>1, <2>4, <1>7 DEF IInv, JobInv, JobAt, TypeOK
    <3>2. v # w => our_job[v] # r
      BY <2>4, <1>2, <1>7 DEF IInv, JobInv
    <3> QED BY <3>1, <3>2, <1>1, <1>5, <1>6, <1>7 DEF JobAt
  <2>5. \A u, v \in Worker : Working(u)' /\ Working(v)' /\ our_job'[u] = our_job'[v] => u = v
    BY <1>1, <1>7 DEF IInv, JobInv
  <2>6. ASSUME NEW j \in 0 .. job_count - 1
        PROVE  /\ rets'[j] \in {0, 1}
               /\ Open(j) => rets'[j] = 0 /\ entries'[j] = 0
               /\ rets'[j] = 0 => Open(j) \/ \E v \in Worker : wpc'[v] \in InJob /\ our_job[v] = j
    <3>1. CASE j = r
      BY <3>1, <1>5, <1>8
    <3>2. CASE j # r
      <4>1. rets'[j] = rets[j] /\ entries'[j] = entries[j]
        BY <3>2, <2>1, <1>5
      <4>2. \A v \in Worker : wpc[v] \in InJob /\ our_job[v] = j => wpc'[v] \in InJob
        BY <3>2, <1>6
      <4> QED BY <4>1, <4>2 DEF IInv, JobInv
    <3> QED BY <3>1, <3>2
  <2>7. current_execute' > 0 => current_job' = N + Cardinality(Finished')
    BY <2>2, <1>1 DEF IInv, JobInv
  <2> QED BY <2>3, <2>4, <2>5, <2>6, <2>7, <1>1 DEF JobInv
<1> QED BY <1>3, <1>5, <1>6, <1>9, <1>10, <1>11

\* NeighboursDecoded for one worker.
CodeAt(w) ==
  LET r == our_job[w] IN
    wpc[w] = "code" /\ r > 0
      => Decoded(r - 1) >= IF entries[r] + 2 <= Width THEN entries[r] + 2 ELSE Width

\* What holds of a job that somebody is at.
LEMMA AtJob ==
  ASSUME IInv, NEW w \in Worker, wpc[w] \in InJob
  PROVE  /\ our_job[w] \in 0 .. job_count - 1 /\ our_job[w] \in Job /\ our_job[w] \in Nat
         /\ job_count \in Nat /\ rets[our_job[w]] = 0 /\ entries[our_job[w]] \in Nat
         /\ our_job[w] > 0 =>
              /\ our_job[w] - 1 \in 0 .. job_count - 1 /\ our_job[w] - 1 \in Job
              /\ rets[our_job[w] - 1] \in {0, 1} /\ entries[our_job[w] - 1] \in Nat
<1>1. Working(w) /\ wpc[w] # "next"
  BY DEF Working, InJob
<1>2. /\ our_job[w] \in 0 .. job_count - 1 /\ our_job[w] \in Nat /\ job_count \in Nat
      /\ 0 .. job_count - 1 \subseteq Job /\ rets[our_job[w]] = 0
  BY <1>1, SliceAssumption DEF IInv, TypeOK, JobInv, JobAt, Job
<1>3. \A j \in Job : entries[j] \in Nat
  BY SliceAssumption DEF IInv, TypeOK, SHIFT_CTB_WPP
<1>4. our_job[w] > 0 => our_job[w] - 1 \in 0 .. job_count - 1
  BY <1>2
<1> QED BY <1>2, <1>3, <1>4 DEF IInv, JobInv

\* The rows of the others, when row r gets on or ends.
LEMMA OtherRows ==
  ASSUME IInv, NEW w \in Worker, wpc[w] \in InJob, NEW r \in Job, our_job[w] = r,
         UNCHANGED <<job_count, our_job, wave, bad>>, wpp_err => wpp_err',
         \A j \in Job : j # r => entries'[j] = entries[j] /\ rets'[j] = rets[j],
         entries'[r] \in Nat, entries'[r] >= entries[r],
         Decoded(r)' >= Decoded(r) \/ entries[r] = 0, Decoded(r)' \in Int,
         NEW v \in Worker, v # w, wpc'[v] = wpc[v]
  PROVE  RowAt(v)' /\ CodeAt(v)'
<1> SUFFICES ASSUME wpc[v] \in InJob PROVE RowAt(v)' /\ CodeAt(v)'
  BY DEF RowAt, CodeAt, InJob
<1>1. PICK p \in Job : our_job[v] = p
  BY AtJob
<1>2. p \in Nat /\ p # r /\ entries[p] \in Nat /\ entries'[p] = entries[p] /\ our_job'[v] = p
  <2>1. Working(v) /\ Working(w)
    BY DEF Working
  <2>2. p # r
    BY <2>1, <1>1 DEF IInv, JobInv
  <2> QED BY <2>2, <1>1, AtJob
<1>3. p > 0 => /\ p - 1 \in Job /\ entries[p - 1] \in Nat /\ entries'[p - 1] \in Nat
               /\ entries'[p - 1] >= entries[p - 1]
               /\ Decoded(p - 1) \in Int /\ Decoded(p - 1)' \in Int
               /\ Decoded(p - 1)' >= Decoded(p - 1) \/ entries[p - 1] = 0
  <2> SUFFICES ASSUME p > 0 PROVE
               /\ p - 1 \in Job /\ entries[p - 1] \in Nat /\ entries'[p - 1] \in Nat
               /\ entries'[p - 1] >= entries[p - 1]
               /\ Decoded(p - 1) \in Int /\ Decoded(p - 1)' \in Int
               /\ Decoded(p - 1)' >= Decoded(p - 1) \/ entries[p - 1] = 0
    OBVIOUS
  <2>1. p - 1 \in Job /\ entries[p - 1] \in Nat
    BY <1>1, AtJob
  <2>2. Decoded(p - 1) \in Int
    BY <2>1 DEF Decoded, SHIFT_CTB_WPP
  <2>3. CASE p - 1 = r
    BY <2>1, <2>2, <2>3
  <2>4. CASE p - 1 # r
    <3>1. entries'[p - 1] = entries[p - 1] /\ rets'[p - 1] = rets[p - 1]
      BY <2>1, <2>4
    <3>2. Decoded(p - 1)' = Decoded(p - 1)
      BY <3>1 DEF Decoded
    <3> QED BY <2>1, <2>2, <3>1, <3>2
  <2> QED BY <2>3, <2>4
<1>4. RowAt(v)'
  <2>1. RowAt(v)
    BY DEF IInv, RowInv
  <2>2. Decoded(our_job[v] - 1)' = Decoded(p - 1)' /\ Decoded(our_job[v] - 1) = Decoded(p - 1)
    BY <1>1, <1>2 DEF Decoded
  <2>3. wpc'[v] \in InJob /\ p > 0 /\ entries'[p] > 0 =>
          /\ entries'[p - 1] >= entries'[p] + 1
          /\ Decoded(p - 1)' >= entries'[p] + 1 \/ Decoded(p - 1)' >= Width
    BY <2>1, <2>2, <1>1, <1>2, <1>3, SliceAssumption DEF RowAt
  <2>4. wpc'[v] \in {"ctb", "code"} /\ p > 0 => entries'[p - 1] >= entries'[p] + 2
    BY <2>1, <1>1, <1>2, <1>3 DEF RowAt
  <2> QED BY <2>1, <2>2, <2>3, <2>4, <1>1, <1>2 DEF RowAt
<1>5. CodeAt(v)'
  <2>1. CodeAt(v) /\ RowAt(v)
    BY DEF IInv, RowInv, NeighboursDecoded, CodeAt
  <2>2. Decoded(our_job[v] - 1)' = Decoded(p - 1)' /\ Decoded(our_job[v] - 1) = Decoded(p - 1)
    BY <1>1, <1>2 DEF Decoded
  <2> QED BY <2>1, <2>2, <1>1, <1>2, <1>3, SliceAssumption DEF CodeAt, RowAt
<1> QED BY <1>4, <1>5

\* ff_thread_report_progress2 wakes the row below: nobody else sleeps there.
LEMMA ProgressWaits ==
  ASSUME IInv, NEW w \in Worker, wpc[w] \in InJob \ {"await"}, NEW r \in Job, our_job[w] = r,
         waits' \in Signal(RowCond(r)), UNCHANGED <<job_count, our_job, bad>>, wpc'[w] # "await",
         \A v \in Worker : v # w => wpc'[v] = wpc[v],
         \A j \in Job : j # r => entries'[j] = entries[j]
  PROVE  waits' \in [Agent -> WaitSet] /\ SleepInv' /\ ReasonInv'
<1>1. waits' \in [Agent -> WaitSet] /\ \A a \in Agent : waits'[a] \in {waits[a], Nothing}
  BY SignalWakes DEF IInv
<1>2. waits[w] = Nothing /\ waits[Main] # RowCond(r)
  BY CondsDiffer DEF IInv, SleepInv, InJob
<1>3. SleepInv'
  <2>1. \A v \in Worker : waits[v] # Nothing => wpc'[v] = wpc[v] /\ our_job'[v] = our_job[v]
    BY <1>2
  <2> QED BY <2>1, <1>1, WakingStep
<1>4. ReasonInv'
  <2> SUFFICES ASSUME N <= 3, OnlyLastBad, NEW v \in Worker, wpc'[v] = "await", waits'[v] # Nothing
               PROVE  entries'[our_job[v] - 1] < entries'[our_job[v]] + 2
    BY DEF ReasonInv, OnlyLastBad
  <2>1. v # w /\ wpc[v] = "await" /\ waits[v] # Nothing /\ waits'[v] = waits[v]
    BY <1>1 DEF Agent
  <2>2. /\ our_job[v] > 0 /\ waits[v] = RowCond(our_job[v] - 1)
        /\ entries[our_job[v] - 1] < entries[our_job[v]] + 2
    BY <2>1 DEF IInv, SleepInv, ReasonInv
  <2>3. our_job[v] \in Job /\ our_job[v] - 1 \in Job /\ our_job[v] # r
    <3>1. Working(v) /\ Working(w) /\ wpc[v] \in InJob
      BY <2>1 DEF Working, InJob
    <3> QED BY <3>1, <2>1, <2>2, AtJob DEF IInv, JobInv
  <2>4. CASE our_job[v] - 1 # r
    BY <2>2, <2>3, <2>4
  <2>5. CASE our_job[v] - 1 = r
    <3>1. v \in Sleepers(RowCond(r)) /\ DOMAIN waits = Agent
      BY <2>2, <2>5 DEF Sleepers, IInv, TypeOK, Agent
    <3>2. PICK a \in Sleepers(RowCond(r)) : waits' = Woken({a})
      BY <3>1 DEF Signal
    <3>3. a # v
      BY <2>1, <3>1, <3>2 DEF Woken, Agent
    <3>4. a \in Worker /\ waits[a] = RowCond(r) /\ waits[v] = RowCond(r)
      BY <3>1, <3>2, <1>2, <2>2, <2>5 DEF Sleepers, Agent
    <3>5. wpc[a] = "await" /\ waits[a] # Nothing
      BY <3>4, CondsDiffer DEF IInv, SleepInv
    <3>6. our_job[a] # our_job[v] /\ our_job[a] \in Nat /\ our_job[v] \in Nat
      BY <3>3, <3>4, <3>5, <2>1 DEF IInv, JobInv, Working, InJob, TypeOK
    <3>7. ~ (our_job[a] < our_job[v]) /\ ~ (our_job[v] < our_job[a])
      BY <3>4, <3>5, <2>1, OneSleeper
    <3> QED BY <3>6, <3>7
  <2> QED BY <2>4, <2>5
<1> QED BY <1>1, <1>3, <1>4

LEMMA AwaitStep == ASSUME IInv, NEW w \in Worker, AwaitProgress(w) PROVE IInv'
<1> USE SliceAssumption
<1> DEFINE r == our_job[w]
           blocked == r > 0 /\ entries[r - 1] - entries[r] < 2
<1>1. /\ wpc[w] = "await" /\ waits[w] = Nothing
      /\ blocked => waits' = [waits EXCEPT ![w] = RowCond(r - 1)] /\ wpc' = wpc
      /\ ~ blocked => waits' = waits /\ wpc' = [wpc EXCEPT ![w] = "ctb"]
      /\ UNCHANGED <<pool, rets, entries, wave, bad, wpp_err, main, locals>>
  BY DEF AwaitProgress, Awake, Goto, SHIFT_CTB_WPP, rows
<1>2. UNCHANGED <<current_job, job_count, current_execute, done, self_id, last_execute, our_job>>
  BY <1>1 DEF pool, locals
<1>3. /\ wpc' \in [Worker -> {"none", "start", "parked", "next", "dead"} \cup InJob]
      /\ wpc'[w] = IF blocked THEN "await" ELSE "ctb"
      /\ \A v \in Worker : v # w => wpc'[v] = wpc[v]
      /\ wpc[w] \in InJob /\ wpc'[w] \in InJob
  BY <1>1 DEF IInv, TypeOK, InJob
<1>4. StartInv' /\ MainInv' /\ JobInv'
  BY <1>1, <1>3, StaysAtJob
<1>5. waits' \in [Agent -> WaitSet] /\ \A a \in Agent :
        waits'[a] = IF a = w /\ blocked THEN RowCond(r - 1) ELSE waits[a]
  <2>1. blocked => RowCond(r - 1) \in WaitSet
    <3>1. blocked => r - 1 \in Nat
      BY DEF IInv, TypeOK
    <3> QED BY <3>1, RowCondType DEF WaitSet
  <2>2. waits \in [Agent -> WaitSet] /\ w \in Agent
    BY DEF IInv, TypeOK, Agent, WaitSet
  <2> HIDE DEF blocked
  <2>3. CASE blocked
    BY <1>1, <2>1, <2>2, <2>3
  <2>4. CASE ~ blocked
    BY <1>1, <2>2, <2>4
  <2> QED BY <2>3, <2>4
<1>6. TypeOK'
  BY <1>1, <1>2, <1>3, <1>5 DEF IInv, TypeOK, Agent, WaitSet
<1>7. SleepInv' /\ ReasonInv'
  <2>1. \A v \in Worker : v \in Agent /\ v # Main /\ Main \in Agent
    BY DEF Agent
  <2>2. waits'[w] # Nothing => blocked /\ waits'[w] = RowCond(r - 1) /\ wpc'[w] = "await"
    BY <1>1, <1>3, <1>5, <2>1
  <2>3. \A v \in Worker : v # w => waits'[v] = waits[v] /\ wpc'[v] = wpc[v]
    BY <1>3, <1>5, <2>1
  <2>4. waits'[Main] = waits[Main]
    BY <1>5, <2>1
  <2>5. SleepInv'
    BY <2>2, <2>3, <2>4, <1>2 DEF IInv, SleepInv, RowCond
  <2>6. blocked => entries[r - 1] < entries[r] + 2
    BY <1>3, AtJob
  <2>7. ReasonInv'
    BY <2>2, <2>3, <2>6, <1>1, <1>2 DEF IInv, ReasonInv, OnlyLastBad
  <2> QED BY <2>5, <2>7
<1>8. FinishedInv' /\ OrderInv'
  BY <1>1, <1>2 DEF IInv, FinishedInv, OrderInv, OnlyLastBad
<1>9. RowInv' /\ NeighboursDecoded'
  <2>1. ~ blocked /\ r > 0 => entries[r - 1] >= entries[r] + 2
    BY <1>3, AtJob
  <2>2. ASSUME NEW v \in Worker PROVE RowAt(v)' /\ CodeAt(v)'
    <3>1. RowAt(v) /\ CodeAt(v)
      BY DEF IInv, RowInv, NeighboursDecoded, CodeAt
    <3>2. Decoded(our_job[v] - 1)' = Decoded(our_job[v] - 1)
      BY <1>1, <1>2 DEF Decoded
    <3>3. CASE v # w
      BY <3>1, <3>2, <3>3, <1>1, <1>2, <1>3 DEF RowAt, CodeAt
    <3>4. CASE v = w
      BY <3>1, <3>2, <3>4, <2>1, <1>1, <1>2, <1>3 DEF RowAt, CodeAt, InJob
    <3> QED BY <3>3, <3>4
  <2>3. ~ wave' => \A j \in Job : entries'[j] = 0
    BY <1>1 DEF IInv, RowInv
  <2> QED BY <2>2, <2>3 DEF RowInv, NeighboursDecoded, CodeAt
<1> QED BY <1>4, <1>6, <1>7, <1>8, <1>9 DEF IInv

\* A worker goes on in its row, with no progress to report.
LEMMA RowMove ==
  ASSUME IInv, NEW w \in Worker, NEW l \in InJob, wpc[w] \in InJob \ {"await"},
         wpc' = [wpc EXCEPT ![w] = l],
         UNCHANGED <<pool, rets, entries, wave, bad, main, locals, waits>>,
         wpp_err' \in BOOLEAN, wpp_err => wpp_err', RowAt(w)', CodeAt(w)'
  PROVE  IInv'
<1> USE SliceAssumption
<1>1. UNCHANGED <<current_job, job_count, current_execute, done, self_id, last_execute, our_job>>
  BY DEF pool, locals
<1>2. /\ wpc' \in [Worker -> {"none", "start", "parked", "next", "dead"} \cup InJob]
      /\ wpc'[w] \in InJob /\ \A v \in Worker : v # w => wpc'[v] = wpc[v]
  BY DEF IInv, TypeOK
<1>3. StartInv' /\ MainInv' /\ JobInv'
  BY <1>2, StaysAtJob
<1>4. TypeOK'
  BY <1>1, <1>2 DEF IInv, TypeOK
<1>5. SleepInv' /\ ReasonInv'
  <2>1. waits[w] = Nothing
    BY DEF IInv, SleepInv, InJob
  <2>2. \A v \in Worker : waits[v] # Nothing => wpc'[v] = wpc[v] /\ our_job'[v] = our_job[v]
    BY <2>1, <1>1, <1>2
  <2> QED BY <2>2, <1>1, WakingStep
<1>6. FinishedInv' /\ OrderInv'
  BY <1>1 DEF IInv, FinishedInv, OrderInv, OnlyLastBad
<1>7. ASSUME NEW v \in Worker, v # w PROVE RowAt(v)' /\ CodeAt(v)'
  <2>1. RowAt(v) /\ CodeAt(v)
    BY DEF IInv, RowInv, NeighboursDecoded, CodeAt
  <2>2. Decoded(our_job[v] - 1)' = Decoded(our_job[v] - 1)
    BY <1>1 DEF Decoded
  <2> QED BY <2>1, <2>2, <1>1, <1>2, <1>7 DEF RowAt, CodeAt
<1>8. RowInv' /\ NeighboursDecoded'
  <2>1. ~ wave' => \A j \in Job : entries'[j] = 0
    BY DEF IInv, RowInv
  <2> QED BY <2>1, <1>7 DEF RowInv, NeighboursDecoded, CodeAt
<1> QED BY <1>3, <1>4, <1>5, <1>6, <1>8 DEF IInv

\* A job that ends with nothing to report: of another kind, or a row with a bad
\* entry point.
LEMMA EmptyJob ==
  ASSUME IInv, NEW w \in Worker, wpc[w] = "job", Returned(w), wave => our_job[w] \in bad,
         UNCHANGED <<pool, entries, wave, bad, wpp_err, main, locals, waits>>
  PROVE  IInv'
<1> USE SliceAssumption
<1>1. UNCHANGED <<current_job, job_count, current_execute, done, self_id, last_execute, our_job>>
  BY DEF pool, locals
<1>2. wpc[w] \in InJob
  BY DEF InJob
<1>3. PICK r \in Job : our_job[w] = r
  BY <1>2, AtJob
<1>4. /\ StartInv' /\ MainInv' /\ JobInv'
      /\ rets' \in [Job -> Nat] /\ rets[r] = 0 /\ rets'[r] = 1 /\ r \in 0 .. job_count - 1
      /\ \A j \in Job : j # r => rets'[j] = rets[j]
      /\ wpc'[w] = "next" /\ \A v \in Worker : v # w => wpc'[v] = wpc[v]
      /\ wpc' \in [Worker -> {"none", "start", "parked", "next", "dead"} \cup InJob]
  BY <1>2, <1>3, JobOver
<1>5. entries[r] = 0
  BY <1>3 DEF IInv, RowInv, RowAt
<1>6. TypeOK'
  BY <1>1, <1>4 DEF IInv, TypeOK, InJob
<1>7. SleepInv' /\ ReasonInv'
  <2>1. waits[w] = Nothing
    BY DEF IInv, SleepInv
  <2>2. \A v \in Worker : waits[v] # Nothing => wpc'[v] = wpc[v] /\ our_job'[v] = our_job[v]
    BY <2>1, <1>1, <1>4
  <2> QED BY <2>2, <1>1, WakingStep
<1>8. \A j \in 0 .. job_count - 1 : j \in Job
  BY DEF IInv, TypeOK, Job
<1>9. FinishedInv'
  BY <1>1, <1>3, <1>4, <1>5, <1>8 DEF IInv, FinishedInv
<1>10. OrderInv'
  <2>1. \A i \in 0 .. job_count - 1 : rets[i] = 1 => rets'[i] = 1
    BY <1>4, <1>8
  <2>2. \A j \in 0 .. job_count - 1 : rets'[j] = 1 /\ entries[j] = Width + 2 => rets[j] = 1
    BY <1>4, <1>5, <1>8
  <2> QED BY <2>1, <2>2, <1>1 DEF IInv, OrderInv, OnlyLastBad
<1>11. \A v \in Worker : v # w => RowAt(v)' /\ CodeAt(v)'
  <2>1. entries'[r] \in Nat /\ entries'[r] >= entries[r] /\ Decoded(r)' \in Int
    BY <1>5 DEF Decoded, SHIFT_CTB_WPP
  <2> QED BY <2>1, <1>1, <1>2, <1>3, <1>4, <1>5, OtherRows
<1>12. RowAt(w)' /\ CodeAt(w)'
  BY <1>4 DEF RowAt, CodeAt, InJob
<1>13. RowInv' /\ NeighboursDecoded'
  <2>1. ~ wave' => \A j \in Job : entries'[j] = 0
    BY DEF IInv, RowInv
  <2> QED BY <2>1, <1>11, <1>12 DEF RowInv, NeighboursDecoded, CodeAt
<1> QED BY <1>4, <1>6, <1>7, <1>9, <1>10, <1>13 DEF IInv

LEMMA RunJobStep == ASSUME IInv, NEW w \in Worker, RunJob(w) PROVE IInv'
BY EmptyJob DEF RunJob, rows

LEMMA BeginRowStep == ASSUME IInv, NEW w \in Worker, BeginRow(w) PROVE IInv'
<1>1. /\ wpc[w] = "job" /\ wave /\ UNCHANGED <<pool, entries, wave, bad, wpp_err, main, locals, waits>>
      /\ our_job[w] \in bad => Returned(w)
      /\ our_job[w] \notin bad => wpc' = [wpc EXCEPT ![w] = "await"] /\ UNCHANGED rets
  BY DEF BeginRow, rows, Goto
<1>2. CASE our_job[w] \in bad
  BY <1>1, <1>2, EmptyJob
<1>3. CASE our_job[w] \notin bad
  <2>1. wpc[w] \in InJob \ {"await"} /\ "await" \in InJob /\ wpc'[w] = "await"
        /\ our_job' = our_job /\ job_count' = job_count
    BY <1>1, <1>3 DEF InJob, IInv, TypeOK, locals, pool
  <2>2. entries[our_job[w]] = 0
    BY <1>1 DEF IInv, RowInv, RowAt
  <2>3. RowAt(w)' /\ CodeAt(w)'
    BY <2>1, <2>2, <1>1, SliceAssumption DEF RowAt, CodeAt, InJob
  <2>4. wpp_err' \in BOOLEAN /\ (wpp_err => wpp_err')
    BY <1>1 DEF IInv, TypeOK
  <2> QED BY <2>1, <2>3, <2>4, <1>1, <1>3, RowMove
<1> QED BY <1>2, <1>3

LEMMA CheckErrorStep == ASSUME IInv, NEW w \in Worker, CheckError(w) PROVE IInv'
<1> USE SliceAssumption
<1> DEFINE l == IF wpp_err THEN "report" ELSE "code"
<1>1. /\ wpc[w] = "ctb" /\ wpc' = [wpc EXCEPT ![w] = l]
      /\ UNCHANGED <<pool, rets, entries, wave, bad, wpp_err, main, locals, waits>>
  BY DEF CheckError, rows, Goto
<1>2. /\ wpc[w] \in InJob \ {"await"} /\ wpc[w] \in InJob /\ l \in InJob /\ wpc'[w] = l
      /\ our_job' = our_job /\ job_count' = job_count
  BY <1>1 DEF InJob, IInv, TypeOK, locals, pool
<1>3. PICK r \in Nat : our_job[w] = r
  BY <1>2, AtJob
<1>4. /\ RowAt(w) /\ entries[r] < Width /\ entries[r] \in Nat
      /\ r > 0 => entries[r - 1] >= entries[r] + 2 /\ entries[r - 1] \in Nat
  BY <1>1, <1>2, <1>3, AtJob DEF IInv, RowInv, RowAt
<1>5. ASSUME r > 0, ~ wpp_err
      PROVE  Decoded(r - 1) >= IF entries[r] + 2 <= Width THEN entries[r] + 2 ELSE Width
  <2>1. r - 1 \in 0 .. job_count - 1 /\ rets[r - 1] \in {0, 1} /\ r - 1 # job_count - 1
    BY <1>2, <1>3, <1>5, AtJob
  <2>2. CASE rets[r - 1] = 0
    BY <2>2, <1>4, <1>5 DEF Decoded
  <2>3. CASE rets[r - 1] = 1
    <3>1. wave
      BY <1>1 DEF IInv, RowInv, RowAt, InJob
    <3>2. entries[r - 1] = Width + 2
      BY <2>1, <2>3, <3>1, <1>4, <1>5 DEF IInv, FinishedInv
    <3> QED BY <2>3, <3>2, <1>4 DEF Decoded, SHIFT_CTB_WPP
  <2> QED BY <2>1, <2>2, <2>3
<1>6. Decoded(our_job[w] - 1)' = Decoded(r - 1) /\ Decoded(our_job[w] - 1) = Decoded(r - 1)
  BY <1>1, <1>2, <1>3 DEF Decoded
<1>7. RowAt(w)'
  BY <1>1, <1>2, <1>3, <1>4, <1>6 DEF RowAt, InJob
<1>8. CodeAt(w)'
  BY <1>1, <1>2, <1>3, <1>5, <1>6 DEF CodeAt
<1>9. wpp_err' \in BOOLEAN /\ (wpp_err => wpp_err')
  BY <1>1 DEF IInv, TypeOK
<1> HIDE DEF l
<1> QED BY <1>1, <1>2, <1>7, <1>8, <1>9, RowMove

LEMMA CodedStep == ASSUME IInv, NEW w \in Worker, Coded(w) PROVE IInv'
<1> USE SliceAssumption
<1>1. /\ wpc[w] = "coded" /\ UNCHANGED <<pool, rets, entries, wave, bad, main, locals, waits>>
  BY DEF Coded
<1>2. PICK r \in Nat : our_job[w] = r /\ entries[r] \in Nat
  BY <1>1, AtJob DEF InJob
<1>3. PICK l \in {"await", "report"} :
        /\ wpc' = [wpc EXCEPT ![w] = l] /\ wpp_err' \in BOOLEAN /\ (wpp_err => wpp_err')
        /\ l = "await" => entries[r] < Width
        /\ l = "report" => entries[r] = Width \/ wpp_err' \/ r = job_count - 1
  <2>1. wpp_err \in BOOLEAN
    BY DEF IInv, TypeOK
  <2>2. CASE entries[r] < Width /\ Goto(w, "await") /\ UNCHANGED wpp_err
    BY <2>1, <2>2 DEF Goto
  <2>3. CASE entries[r] < Width /\ Goto(w, "report") /\ wpp_err' = (wpp_err \/ r # job_count - 1)
    BY <2>1, <2>3 DEF Goto
  <2>4. CASE entries[r] = Width /\ Goto(w, "report") /\ UNCHANGED wpp_err
    BY <2>1, <2>4 DEF Goto
  <2> QED BY <2>2, <2>3, <2>4, <1>2 DEF Coded
<1>4. /\ wpc[w] \in InJob \ {"await"} /\ l \in InJob /\ wpc'[w] = l
      /\ our_job' = our_job /\ job_count' = job_count
  BY <1>1, <1>3 DEF InJob, IInv, TypeOK, locals, pool
<1>5. Decoded(our_job[w] - 1)' = Decoded(r - 1) /\ Decoded(our_job[w] - 1) = Decoded(r - 1)
  BY <1>1, <1>2, <1>4 DEF Decoded
<1>6. RowAt(w)
  BY DEF IInv, RowInv
<1>7. RowAt(w)' /\ CodeAt(w)'
  BY <1>1, <1>2, <1>3, <1>4, <1>5, <1>6 DEF RowAt, CodeAt, InJob
<1> QED BY <1>1, <1>3, <1>4, <1>7, RowMove

\* One more block: the row below may have waited for it.
LEMMA DecodeStep == ASSUME IInv, NEW w \in Worker, Decode(w) PROVE IInv'
<1> USE SliceAssumption
<1>1. /\ wpc[w] = "code" /\ wpc[w] \in InJob \ {"await"} /\ wpc[w] \in InJob
      /\ UNCHANGED <<pool, rets, wave, bad, main, locals>>
  BY DEF Decode, InJob
<1>2. PICK r \in Job : our_job[w] = r
  BY <1>1, AtJob
<1>3. /\ r \in Nat /\ entries[r] \in Nat /\ rets[r] = 0 /\ entries[r] < Width
      /\ r > 0 => entries[r - 1] \in Nat /\ r - 1 \in Job
      /\ RowAt(w) /\ CodeAt(w) /\ wave
  BY <1>1, <1>2, AtJob DEF IInv, RowInv, RowAt, NeighboursDecoded, CodeAt, InJob
<1>4. UNCHANGED <<current_job, job_count, current_execute, done, self_id, last_execute, our_job>>
  BY <1>1 DEF pool, locals
<1>5. CASE wpp_err' = TRUE /\ Goto(w, "report") /\ UNCHANGED <<entries, waits>>
  <2>1. wpc' = [wpc EXCEPT ![w] = "report"] /\ wpc'[w] = "report" /\ "report" \in InJob
    BY <1>5 DEF Goto, IInv, TypeOK, InJob
  <2>2. Decoded(our_job[w] - 1)' = Decoded(our_job[w] - 1)
    BY <1>1, <1>4, <1>5 DEF Decoded
  <2>3. RowAt(w)' /\ CodeAt(w)'
    BY <2>1, <2>2, <1>1, <1>3, <1>4, <1>5 DEF RowAt, CodeAt, InJob
  <2> QED BY <2>1, <2>3, <1>1, <1>5, RowMove
<1>6. CASE ReportProgress(w, 1) /\ Goto(w, "coded") /\ UNCHANGED wpp_err
  <2>1. /\ entries' = [entries EXCEPT ![r] = @ + 1] /\ waits' \in Signal(RowCond(r))
        /\ wpc' = [wpc EXCEPT ![w] = "coded"] /\ wpp_err' = wpp_err
    BY <1>2, <1>6 DEF ReportProgress, Goto
  <2>2. /\ entries'[r] = entries[r] + 1 /\ \A j \in Job : j # r => entries'[j] = entries[j]
        /\ entries' \in [Job -> 0 .. Width + SHIFT_CTB_WPP]
    BY <2>1, <1>3 DEF IInv, TypeOK, SHIFT_CTB_WPP
  <2>3. /\ wpc' \in [Worker -> {"none", "start", "parked", "next", "dead"} \cup InJob]
        /\ wpc'[w] = "coded" /\ wpc'[w] \in InJob /\ \A v \in Worker : v # w => wpc'[v] = wpc[v]
    BY <2>1 DEF IInv, TypeOK, InJob
  <2>4. StartInv' /\ MainInv' /\ JobInv'
    BY <1>1, <1>2, <2>2, <2>3, StaysAtJob
  <2>5. waits' \in [Agent -> WaitSet] /\ SleepInv' /\ ReasonInv'
    BY <1>1, <1>2, <1>4, <2>1, <2>2, <2>3, ProgressWaits
  <2>6. TypeOK'
    BY <1>1, <1>4, <2>1, <2>2, <2>3, <2>5 DEF IInv, TypeOK, Agent, WaitSet
  <2>7. Decoded(r) = entries[r] /\ Decoded(r)' = entries[r] + 1
    BY <1>1, <1>3, <2>2 DEF Decoded
  <2>8. \A v \in Worker : v # w => RowAt(v)' /\ CodeAt(v)'
    <3>1. /\ entries'[r] \in Nat /\ entries'[r] >= entries[r] /\ Decoded(r)' \in Int
          /\ Decoded(r)' >= Decoded(r)
      BY <2>2, <2>7, <1>3
    <3> QED BY <3>1, <1>1, <1>2, <1>4, <2>1, <2>2, <2>3, OtherRows
  <2>9. RowAt(w)' /\ CodeAt(w)'
    <3>1. r > 0 => /\ entries'[r - 1] = entries[r - 1]
                   /\ Decoded(our_job[w] - 1)' = Decoded(r - 1)
                   /\ Decoded(our_job[w] - 1) = Decoded(r - 1)
      BY <1>1, <1>2, <1>3, <1>4, <2>2 DEF Decoded
    <3>2. r > 0 => Decoded(r - 1) \in Int
      BY <1>1, <1>2, AtJob DEF Decoded, SHIFT_CTB_WPP
    <3>3. r > 0 => /\ entries'[r - 1] >= entries'[r] + 1
                   /\ Decoded(r - 1) >= entries'[r] + 1 \/ Decoded(r - 1) >= Width
      BY <3>1, <3>2, <2>2, <1>1, <1>2, <1>3 DEF RowAt, CodeAt
    <3>4. entries'[r] <= Width
      BY <2>2, <1>3
    <3> QED BY <3>1, <3>3, <3>4, <2>3, <1>1, <1>2, <1>3, <1>4 DEF RowAt, CodeAt, InJob
  <2>10. RowInv' /\ NeighboursDecoded'
    <3>1. wave'
      BY <1>1, <1>3
    <3> QED BY <3>1, <2>8, <2>9 DEF RowInv, NeighboursDecoded, CodeAt
  <2>11. FinishedInv' /\ OrderInv'
    <3>1. \A j \in 0 .. job_count - 1 : rets[j] = 1 => entries'[j] = entries[j]
      <4>1. \A j \in 0 .. job_count - 1 : j \in Job
        BY DEF IInv, TypeOK, Job
      <4> QED BY <4>1, <2>2, <1>3
    <3> QED BY <3>1, <2>1, <1>1, <1>4 DEF IInv, FinishedInv, OrderInv, OnlyLastBad
  <2> QED BY <2>4, <2>5, <2>6, <2>10, <2>11 DEF IInv
<1> QED BY <1>5, <1>6 DEF Decode

LEMMA ReportRowStep == ASSUME IInv, NEW w \in Worker, ReportRow(w) PROVE IInv'
<1> USE SliceAssumption
<1>1. /\ wpc[w] = "report" /\ wpc[w] \in InJob \ {"await"} /\ wpc[w] \in InJob
      /\ Returned(w) /\ UNCHANGED <<pool, wave, bad, wpp_err, main, locals>>
  BY DEF ReportRow, InJob
<1>2. PICK r \in Job : our_job[w] = r
  BY <1>1, AtJob
<1>3. /\ r \in 0 .. job_count - 1 /\ r \in Nat /\ job_count \in Nat
      /\ entries[r] \in Nat /\ rets[r] = 0 /\ entries[r] <= Width
      /\ r > 0 => /\ entries[r - 1] \in Nat /\ rets[r - 1] \in {0, 1}
                  /\ r - 1 \in 0 .. job_count - 1
      /\ RowAt(w) /\ wave
  BY <1>1, <1>2, AtJob DEF IInv, RowInv, RowAt, InJob
<1>4. UNCHANGED <<current_job, job_count, current_execute, done, self_id, last_execute, our_job>>
  BY <1>1 DEF pool, locals
<1>5. entries' = [entries EXCEPT ![r] = @ + 2] /\ waits' \in Signal(RowCond(r))
  BY <1>2 DEF ReportRow, ReportProgress, SHIFT_CTB_WPP
<1>6. /\ entries'[r] = entries[r] + 2 /\ \A j \in Job : j # r => entries'[j] = entries[j]
      /\ entries' \in [Job -> 0 .. Width + SHIFT_CTB_WPP]
  BY <1>3, <1>5 DEF IInv, TypeOK, SHIFT_CTB_WPP
<1>7. /\ StartInv' /\ MainInv' /\ JobInv'
      /\ rets' \in [Job -> Nat] /\ rets'[r] = 1
      /\ \A j \in Job : j # r => rets'[j] = rets[j]
      /\ wpc'[w] = "next" /\ \A v \in Worker : v # w => wpc'[v] = wpc[v]
      /\ wpc' \in [Worker -> {"none", "start", "parked", "next", "dead"} \cup InJob]
  BY <1>1, <1>2, <1>6, JobOver
<1>8. waits' \in [Agent -> WaitSet] /\ SleepInv' /\ ReasonInv'
  BY <1>1, <1>2, <1>4, <1>5, <1>6, <1>7, ProgressWaits
<1>9. TypeOK'
  BY <1>1, <1>4, <1>6, <1>7, <1>8 DEF IInv, TypeOK, Agent, WaitSet, InJob
<1>10. \A v \in Worker : v # w => RowAt(v)' /\ CodeAt(v)'
  <2>1. Decoded(r) = entries[r] /\ Decoded(r)' = entries[r]
    BY <1>3, <1>6, <1>7 DEF Decoded, SHIFT_CTB_WPP
  <2>2. /\ entries'[r] \in Nat /\ entries'[r] >= entries[r] /\ Decoded(r)' \in Int
        /\ Decoded(r)' >= Decoded(r)
    BY <2>1, <1>3, <1>6
  <2> QED BY <2>2, <1>1, <1>2, <1>4, <1>6, <1>7, OtherRows
<1>11. RowInv' /\ NeighboursDecoded'
  <2>1. RowAt(w)' /\ CodeAt(w)'
    BY <1>7 DEF RowAt, CodeAt, InJob
  <2>2. wave'
    BY <1>1, <1>3
  <2> QED BY <2>1, <2>2, <1>10 DEF RowInv, NeighboursDecoded, CodeAt
<1>12. \A j \in 0 .. job_count - 1 : j \in Job
  BY DEF IInv, TypeOK, Job
<1>13. FinishedInv'
  <2> SUFFICES ASSUME NEW j \in 0 .. job_count - 1, rets'[j] = 1
               PROVE  /\ j \notin bad => entries'[j] >= 2
                      /\ entries'[j] # 0 => entries'[j] = Width + 2 \/ wpp_err \/ j = job_count - 1
    BY <1>1, <1>4 DEF FinishedInv
  <2>1. CASE j = r
    BY <2>1, <1>1, <1>2, <1>3, <1>6 DEF RowAt
  <2>2. CASE j # r
    <3>1. rets[j] = 1 /\ entries'[j] = entries[j]
      BY <2>2, <1>6, <1>7, <1>12
    <3> QED BY <3>1, <1>3 DEF IInv, FinishedInv
  <2> QED BY <2>1, <2>2
<1>14. OrderInv'
  <2> SUFFICES ASSUME ~ wpp_err, OnlyLastBad, NEW i \in 0 .. job_count - 1,
                      NEW j \in 0 .. job_count - 1, i < j, rets'[j] = 1, entries'[j] = Width + 2
               PROVE  rets'[i] = 1
    BY <1>1, <1>4 DEF OrderInv, OnlyLastBad
  <2>1. rets[i] = 1 => rets'[i] = 1
    BY <1>7, <1>12
  <2>2. CASE j # r
    <3>1. rets[j] = 1 /\ entries[j] = Width + 2
      BY <2>2, <1>6, <1>7, <1>12
    <3> QED BY <3>1, <2>1, <1>3 DEF IInv, OrderInv
  <2>3. CASE j = r
    <3>1. r > 0 /\ entries[r] = Width
      BY <2>3, <1>3, <1>6
    <3>2. entries[r - 1] >= Width + 1
      BY <3>1, <1>1, <1>2, <1>3 DEF RowAt
    <3>3. rets[r - 1] = 1
      <4> SUFFICES ASSUME rets[r - 1] = 0 PROVE FALSE
        BY <3>1, <1>3
      <4>1. Open(r - 1) \/ \E v \in Worker : wpc[v] \in InJob /\ our_job[v] = r - 1
        BY <3>1, <1>3 DEF IInv, JobInv
      <4>2. ~ Open(r - 1)
        BY <3>1, <3>2, <1>3 DEF IInv, JobInv
      <4>3. \A v \in Worker : wpc[v] \in InJob => entries[our_job[v]] <= Width
        BY DEF IInv, RowInv, RowAt
      <4> QED BY <4>1, <4>2, <4>3, <3>1, <3>2, <1>3
    <3>4. entries[r - 1] = Width + 2
      BY <3>1, <3>2, <3>3, <1>3 DEF IInv, FinishedInv
    <3>5. i < r - 1 => rets[i] = 1
      BY <3>1, <3>3, <3>4, <1>3 DEF IInv, OrderInv
    <3>6. i < r - 1 \/ i = r - 1
      BY <2>3, <1>3
    <3> QED BY <3>3, <3>5, <3>6, <2>1
  <2> QED BY <2>2, <2>3
<1> QED BY <1>7, <1>8, <1>9, <1>11, <1>13, <1>14 DEF IInv

-----------------------------------------------------------------------------
(* Theorems *)

LEMMA NextInv == IInv /\ [Next]_vars => IInv'
<1> SUFFICES ASSUME IInv, [Next]_vars PROVE IInv'
  OBVIOUS
<1>1. CASE Execute
  BY <1>1, ExecuteStep
<1>2. CASE Free
  BY <1>2, FreeStep
<1>3. CASE Park
  BY <1>3, ParkStep
<1>4. CASE Join
  BY <1>4, JoinStep
<1>5. CASE SpuriousWakeup
  BY <1>5, SpuriousStep
<1>6. ASSUME NEW w \in Worker, Create(w) PROVE IInv'
  BY <1>6, CreateStep
<1>7. ASSUME NEW w \in Worker, WorkerStep(w) PROVE IInv'
  <2>1. CASE Start(w)
    BY <2>1, StartStep
  <2>2. CASE Wake(w)
    BY <2>2, WakeStep
  <2>3. CASE NextJob(w)
    BY <2>3, NextJobStep
  <2>4. CASE RunJob(w)
    BY <2>4, RunJobStep
  <2>5. CASE BeginRow(w)
    BY <2>5, BeginRowStep
  <2>6. CASE AwaitProgress(w)
    BY <2>6, AwaitStep
  <2>7. CASE CheckError(w)
    BY <2>7, CheckErrorStep
  <2>8. CASE Decode(w)
    BY <2>8, DecodeStep
  <2>9. CASE Coded(w)
    BY <2>9, CodedStep
  <2>10. CASE ReportRow(w)
    BY <2>10, ReportRowStep
  <2> QED BY <1>7, <2>1, <2>2, <2>3, <2>4, <2>5, <2>6, <2>7, <2>8, <2>9, <2>10 DEF WorkerStep
<1>8. CASE UNCHANGED vars
  <2>1. UNCHANGED <<current_job, job_count, current_execute, done, rets, entries, wave, bad, wpp_err,
                    main, wpc, self_id, last_execute, our_job, waits>>
    BY <1>8 DEF vars, pool, rows, locals
  <2>2. TypeOK'
    BY <2>1 DEF IInv, TypeOK
  <2>3. Started' = Started /\ \A v \in Worker : (Working(v)' <=> Working(v)) /\ (Late(v)' <=> Late(v))
    BY <2>1 DEF Started, Working, Late
  <2>4. MainInv' /\ SleepInv' /\ ReasonInv'
    BY <2>1, <2>3 DEF IInv, MainInv, SleepInv, ReasonInv, OnlyLastBad
  <2> QED BY <2>1, <2>2, <2>3, <2>4, QuietStep DEF rows, locals
<1> QED BY <1>1, <1>2, <1>3, <1>4, <1>5, <1>6, <1>7, <1>8 DEF Next, MainStep

LEMMA Invariance == Spec => []IInv
BY InitInv, NextInv, PTL DEF Spec

\* The caller and the workers keep to their types: no worker is given a number or a
\* job that does not exist (pthread_slice.c, worker).
THEOREM SliceTypes == Spec => []TypeOK
<1>1. IInv => TypeOK
  BY DEF IInv
<1> QED BY <1>1, Invariance, PTL

\* execute() returns to a caller whose jobs have all been done, once each, and with
\* no worker left at one (thread_execute, thread_park_workers, worker).
THEOREM SliceJobsDone == Spec => []JobsDone
<1>1. IInv => JobsDone
  BY DEF IInv, MainInv, JobsDone, Started, Working, TypeOK
<1> QED BY <1>1, Invariance, PTL

\* However many rows share a condition variable, a signal of
\* ff_thread_report_progress2 cannot wake the wrong one: with at most three workers,
\* or while no row has failed.
THEOREM SliceOneWaiter == Spec => []OneWaiter
<1>1. IInv => OneWaiter
  <2> SUFFICES ASSUME IInv, OnlyLastBad, wpp_err => N <= 3, NEW i \in 0 .. N - 1
               PROVE  Cardinality(Sleepers(<<"progress", i>>)) <= 1
    BY DEF OneWaiter
  <2> DEFINE S == Sleepers(<<"progress", i>>)
  <2>1. ASSUME NEW a \in S
        PROVE  a \in Worker /\ wpc[a] = "await" /\ waits[a] # Nothing /\ waits[a] = <<"progress", i>>
    <3>1. a \in Agent /\ waits[a] = <<"progress", i>>
      BY DEF Sleepers, IInv, TypeOK, Agent
    <3>2. waits[a] \notin {Nothing, current_job_cond, last_job_cond}
      BY <3>1 DEF Nothing, current_job_cond, last_job_cond
    <3> QED BY <3>1, <3>2 DEF IInv, SleepInv, Agent
  <2>2. ASSUME NEW a \in S, NEW b \in S PROVE a = b
    <3>1. our_job[a] \in Nat /\ our_job[b] \in Nat
      BY <2>1 DEF IInv, TypeOK
    <3>2. ~ (our_job[a] < our_job[b]) /\ ~ (our_job[b] < our_job[a])
      BY <2>1, OneSleeper
    <3>3. our_job[a] = our_job[b]
      BY <3>1, <3>2
    <3>4. a \in Worker /\ b \in Worker /\ Working(a) /\ Working(b)
      BY <2>1 DEF Working, InJob
    <3> QED BY <3>3, <3>4 DEF IInv, JobInv
  <2>3. CASE S = {}
    BY <2>3, FS_EmptySet
  <2>4. CASE S # {}
    <3>1. PICK a : S = {a}
      BY <2>2, <2>4
    <3>2. Cardinality({a}) = 1
      BY FS_Singleton
    <3>3. Cardinality(S) = 1
      BY ONLY <3>1, <3>2, Zenon
    <3> QED BY <3>3
  <2> QED BY <2>3, <2>4
<1> QED BY <1>1, Invariance, PTL

\* No block is decoded before its neighbours above are, whatever rows failed: the
\* progress a failed row reports is never believed (hls_decode_entry_wpp).
THEOREM SliceNeighbours == Spec => []NeighboursDecoded
<1>1. IInv => NeighboursDecoded
  BY DEF IInv
<1> QED BY <1>1, Invariance, PTL
=============================================================================
