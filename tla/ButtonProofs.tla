---------------------------- MODULE ButtonProofs ----------------------------
(***************************************************************************)
(* Proofs about ButtonWatch, for all thresholds.                            *)
(***************************************************************************)
EXTENDS ButtonWatch, TLAPS

\* What the program knows of the button is right, or an event is on its way;
\* while a script runs the program times nothing.
PhaseInv ==
  /\ exported /\ watch \in {"select", "system"} /\ ~ pending => last = level
  /\ watch = "system" => last = 0

\* While the program times a press and is on time, the button has been down at least as long.
TimeInv == ~ late /\ exported /\ watch \in {"select", "read"} /\ last = 1 => elapsed <= down

LEMMA TypeStep == TypeOK /\ [Next]_vars => TypeOK'
<1> SUFFICES ASSUME TypeOK, [Next]_vars PROVE TypeOK'
  OBVIOUS
<1> USE RangeAssumption DEF TypeOK, Cap, Commands, None
<1>1. CASE Edge
  BY <1>1 DEF Edge
<1>2. CASE Tick
  BY <1>2 DEF Tick, Later
<1>3. CASE Start
  <2>1. exported' \in BOOLEAN /\ pending' \in BOOLEAN /\ watch' \in {"off", "select"}
    BY <1>3 DEF Start
  <2>2. last' = 0 /\ elapsed' = 0 /\ late' \in BOOLEAN /\ UNCHANGED <<level, down, command, script>>
    BY <1>3 DEF Start
  <2> QED  BY <2>1, <2>2
<1>4. CASE Select \/ ReadFails \/ CommandEnds \/ Unexport \/ Kill
  BY <1>4 DEF Select, ReadFails, CommandEnds, Unexport, Kill
<1>5. CASE Read
  <2>1. last' = level /\ elapsed' \in {0, elapsed} /\ pending' \in BOOLEAN /\ late' \in BOOLEAN
        /\ UNCHANGED <<level, down, exported, script>>
    BY <1>5 DEF Read
  <2>2. command' \in Commands \cup {None} /\ watch' \in {"select", "system"}
    BY <1>5 DEF Read, CommandOf
  <2> QED  BY <2>1, <2>2
<1>6. CASE UNCHANGED vars
  BY <1>6 DEF vars
<1> QED  BY <1>1, <1>2, <1>3, <1>4, <1>5, <1>6 DEF Next, Watcher

LEMMA PhaseStep == TypeOK /\ PhaseInv /\ [Next]_vars => PhaseInv'
<1> SUFFICES ASSUME TypeOK, PhaseInv, [Next]_vars PROVE PhaseInv'
  OBVIOUS
<1> USE DEF TypeOK, PhaseInv
<1>1. CASE Edge
  BY <1>1 DEF Edge
<1>2. CASE Tick
  BY <1>2 DEF Tick
<1>3. CASE Start
  BY <1>3 DEF Start
<1>4. CASE Select \/ ReadFails \/ CommandEnds \/ Unexport \/ Kill
  BY <1>4 DEF Select, ReadFails, CommandEnds, Unexport, Kill
<1>5. CASE Read
  BY <1>5 DEF Read
<1>6. CASE UNCHANGED vars
  BY <1>6 DEF vars
<1> QED  BY <1>1, <1>2, <1>3, <1>4, <1>5, <1>6 DEF Next, Watcher

LEMMA Phase == Spec => [](TypeOK /\ PhaseInv)
<1>1. Init => TypeOK /\ PhaseInv
  <2> SUFFICES ASSUME Init PROVE TypeOK /\ PhaseInv
    OBVIOUS
  <2>1. exported \in BOOLEAN /\ pending \in BOOLEAN /\ late \in BOOLEAN
    BY DEF Init
  <2>2. level \in {0, 1} /\ down \in 0..Cap /\ elapsed \in 0..Cap /\ last \in {0, 1}
    BY RangeAssumption DEF Init, Cap
  <2>3. watch = "off" /\ command = None /\ script = "idle"
    BY DEF Init
  <2> QED  BY <2>1, <2>2, <2>3 DEF TypeOK, PhaseInv, Commands
<1> QED  BY <1>1, TypeStep, PhaseStep, PTL DEF Spec

\* However late the program is and whichever edges fall together, a program that
\* waits for the next edge knows whether the button is down.
THEOREM AlwaysInPhase == Spec => [](TypeOK /\ InPhase)
<1>1. PhaseInv => InPhase
  BY DEF PhaseInv, InPhase
<1> QED  BY <1>1, Phase, PTL

\* Type correctness on its own: the levels, the times and the chosen script.
THEOREM ButtonTypes == Spec => []TypeOK
  BY AlwaysInPhase, PTL

\* Unless an edge waits for the program while a press is being timed, no sequence
\* of presses, bounces, scripts and restarts makes it run a script that the last
\* press has not earned.
THEOREM NoUndeservedCommand == Spec => Deserved
<1> DEFINE Inv == TypeOK /\ PhaseInv /\ TimeInv
<1>1. Init => TimeInv
  BY DEF Init, TimeInv
<1>2. Inv /\ [Next]_vars => TimeInv'
  <2> SUFFICES ASSUME Inv, [Next]_vars PROVE TimeInv'
    OBVIOUS
  <2> USE RangeAssumption DEF TypeOK, PhaseInv, TimeInv, Cap
  <2>1. CASE Tick
    <3> SUFFICES ASSUME ~ late', exported, watch \in {"select", "read"}, last = 1
                 PROVE  elapsed' <= down'
      BY <2>1 DEF Tick
    <3>1. ~ late /\ watch = "select" /\ ~ pending
      BY <2>1 DEF Tick
    <3>2. level = 1 /\ elapsed <= down
      BY <3>1
    <3>3. elapsed' = Later(elapsed) /\ down' = Later(down)
      BY <2>1, <3>2 DEF Tick
    <3> QED  BY <3>2, <3>3 DEF Later
  <2>2. CASE Edge \/ Select
    BY <2>2 DEF Edge, Select
  <2>3. CASE Start
    BY <2>3 DEF Start
  <2>4. CASE ReadFails \/ Unexport \/ Kill
    BY <2>4 DEF ReadFails, Unexport, Kill
  <2>5. CASE CommandEnds
    <3>1. last' = 0
      BY <2>5 DEF CommandEnds
    <3> QED  BY <3>1
  <2>6. CASE Read
    BY <2>6 DEF Read
  <2>7. CASE UNCHANGED vars
    BY <2>7 DEF vars
  <2> QED  BY <2>1, <2>2, <2>3, <2>4, <2>5, <2>6, <2>7 DEF Next, Watcher
<1>3. Inv /\ [Next]_vars =>
        [ watch' = "system" /\ watch # "system" /\ ~ late =>
            \/ command' = "restartSS" /\ down > FirstLower
            \/ command' = "rebootFreedom" /\ down > SecondLower
            \/ command' = "reinstallSS" /\ down > SecondUpper ]_vars
  <2> SUFFICES ASSUME Inv, [Next]_vars, watch' = "system", watch # "system", ~ late
               PROVE  \/ command' = "restartSS" /\ down > FirstLower
                      \/ command' = "rebootFreedom" /\ down > SecondLower
                      \/ command' = "reinstallSS" /\ down > SecondUpper
    OBVIOUS
  <2>1. Read
    BY DEF Next, Watcher, Edge, Tick, Start, Select, ReadFails, CommandEnds, Unexport, Kill, vars
  <2>2. last = 1 /\ command' = CommandOf(elapsed) /\ command' # None
    BY <2>1 DEF Read
  <2>3. elapsed <= down /\ elapsed \in Nat /\ down \in Nat
    BY <2>1, <2>2, RangeAssumption DEF Read, TypeOK, TimeInv, Cap
  <2> QED  BY <2>2, <2>3, RangeAssumption DEF CommandOf, None
<1> QED  BY <1>1, <1>2, <1>3, Phase, PTL DEF Spec, Deserved
=============================================================================
