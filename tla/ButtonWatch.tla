---------------------------- MODULE ButtonWatch ----------------------------
(***************************************************************************)
(* master-progs/gpio-interrupt.c, which times how long a push button is     *)
(* held and runs a script of that severity, and S45btnwatch, which starts   *)
(* and stops it.  The program waits in select() for an edge of GPIO 30,     *)
(* reads the level, and keeps the time of the last 0 -> 1 transition it has *)
(* seen; it is deaf while system() runs a script, and several edges between *)
(* two reads are one event.                                                 *)
(*                                                                          *)
(* Time passes in ticks and is only kept relative: how long the button has  *)
(* been down, and how long ago the program took start_time, both up to Cap. *)
(***************************************************************************)
EXTENDS Integers

CONSTANTS
  FirstLower, FirstUpper,     \* firstRange_lower and _upper, in ticks
  SecondLower, SecondUpper    \* secondRange_lower and _upper = thirdRange_lower

ASSUME RangeAssumption ==
  /\ FirstLower \in Nat /\ FirstUpper \in Nat /\ SecondLower \in Nat /\ SecondUpper \in Nat
  /\ FirstLower < FirstUpper /\ FirstUpper < SecondLower /\ SecondLower < SecondUpper

Cap == SecondUpper + 1        \* all longer times are one: "more than 15 s"

VARIABLES
  level,      \* the value file: 1 while the button is down (active_low)
  down,       \* ticks since the button was last found up
  exported,   \* is the pin exported and its edges enabled?
  pending,    \* an edge that select() has still to report
  watch,      \* where gpio-interrupt is
  last,       \* last_value
  elapsed,    \* ticks since start_time, while last_value is 1
  late,       \* history: has an edge waited a tick since the press was timed?
  command,    \* the script system() runs
  script      \* where S45btnwatch stop is

vars == <<level, down, exported, pending, watch, last, elapsed, late, command, script>>

None == "none"
Commands == {"restartSS", "rebootFreedom", "reinstallSS"}

TypeOK ==
  /\ level \in {0, 1} /\ down \in 0..Cap
  /\ exported \in BOOLEAN /\ pending \in BOOLEAN
  /\ watch \in {"off", "select", "read", "system"}
  /\ last \in {0, 1} /\ elapsed \in 0..Cap /\ late \in BOOLEAN
  /\ command \in Commands \cup {None}
  /\ script \in {"idle", "kill"}

Init ==
  /\ level \in {0, 1} /\ down = 0
  /\ exported = FALSE /\ pending = FALSE
  /\ watch = "off" /\ last = 0 /\ elapsed = 0 /\ late = FALSE /\ command = None
  /\ script = "idle"

-----------------------------------------------------------------------------
(* The button and the clock *)

Edge ==
  /\ level' = 1 - level
  /\ pending' = (pending \/ exported)
  /\ UNCHANGED <<down, exported, watch, last, elapsed, late, command, script>>

Later(t) == IF t < Cap THEN t + 1 ELSE Cap

\* A bounce of the contacts within a tick does not end a press.
Tick ==
  /\ down' = IF level = 1 THEN Later(down) ELSE 0
  /\ elapsed' = IF last = 1 THEN Later(elapsed) ELSE elapsed
  /\ late' = (late \/ watch = "read" \/ (watch = "select" /\ pending))
  /\ UNCHANGED <<level, exported, pending, watch, last, command, script>>

-----------------------------------------------------------------------------
(* gpio-interrupt *)

\* initGpioPin, open; the first select() returns at once, as for any value file
\* that has not been read.
Start ==
  /\ watch = "off" /\ script = "idle"
  /\ exported' = TRUE
  /\ last' = 0 /\ elapsed' = 0 /\ late' = FALSE
  /\ \/ watch' = "select" /\ pending' = TRUE
     \/ watch' = "off" /\ pending' = FALSE      \* "Gpio file failed to open"
  /\ UNCHANGED <<level, down, command, script>>

Select ==
  /\ watch = "select" /\ pending
  /\ watch' = "read"
  /\ UNCHANGED <<level, down, exported, pending, last, elapsed, late, command, script>>

CommandOfOpen(t) ==
  IF t > FirstLower /\ t < FirstUpper THEN "restartSS"
  ELSE IF t > SecondLower /\ t < SecondUpper THEN "rebootFreedom"
  ELSE IF t > SecondUpper THEN "reinstallSS"
  ELSE None

CommandOf(t) ==
  IF t > FirstLower /\ t <= FirstUpper THEN "restartSS"
  ELSE IF t > SecondLower /\ t <= SecondUpper THEN "rebootFreedom"
  ELSE IF t > SecondUpper THEN "reinstallSS"
  ELSE None      \* noise, and the gaps between the ranges

ReadForgetsRelease ==
  /\ watch = "read" /\ exported
  /\ pending' = FALSE
  /\ IF last = 0 /\ level = 1
       THEN last' = 1 /\ elapsed' = 0 /\ watch' = "select" /\ UNCHANGED <<late, command>>
       ELSE IF last = 1 /\ level = 0
       THEN /\ command' = CommandOf(elapsed)
            /\ watch' = IF command' = None THEN "select" ELSE "system"
            /\ UNCHANGED <<last, elapsed, late>>
       ELSE watch' = "select" /\ UNCHANGED <<last, elapsed, late, command>>
  /\ UNCHANGED <<level, down, exported, script>>

ReadKeepsStart ==
  /\ watch = "read" /\ exported
  /\ pending' = FALSE
  /\ last' = level
  /\ command' = IF last = 1 /\ level = 0 THEN CommandOf(elapsed) ELSE None
  /\ watch' = IF command' = None THEN "select" ELSE "system"
  /\ UNCHANGED <<level, down, exported, elapsed, late, script>>

\* lseek, read, and what follows from the transition the program sees.
Read ==
  /\ watch = "read" /\ exported
  /\ pending' = FALSE
  /\ last' = level
  /\ elapsed' = IF last = 1 /\ level = 1 THEN elapsed ELSE 0
  /\ late' = (late /\ last = 1 /\ level = 1)
  /\ command' = IF last = 1 /\ level = 0 THEN CommandOf(elapsed) ELSE None
  /\ watch' = IF command' = None THEN "select" ELSE "system"
  /\ UNCHANGED <<level, down, exported, script>>

\* The value file is gone: "Read incorrect number of characters".
ReadFails ==
  /\ watch = "read" /\ ~ exported
  /\ watch' = "off"
  /\ UNCHANGED <<level, down, exported, pending, last, elapsed, late, command, script>>

\* system() returns.
CommandEnds ==
  /\ watch = "system"
  /\ watch' = "select" /\ command' = None
  /\ UNCHANGED <<level, down, exported, pending, last, elapsed, late, script>>

Watcher == Select \/ Read \/ ReadFails

-----------------------------------------------------------------------------
(* S45btnwatch stop *)

Unexport ==
  /\ script = "idle"
  /\ script' = "kill"
  /\ exported' = FALSE
  /\ UNCHANGED <<level, down, pending, watch, last, elapsed, late, command>>

\* A script the program was waiting for goes on without it.
Kill ==
  /\ script = "kill"
  /\ script' = "idle"
  /\ watch' = "off" /\ pending' = FALSE /\ command' = None
  /\ UNCHANGED <<level, down, exported, last, elapsed, late>>

Next == Edge \/ Tick \/ Start \/ Watcher \/ CommandEnds \/ Unexport \/ Kill

\* The program runs when it can, its scripts return, and time passes.
Fairness == WF_vars(Watcher) /\ WF_vars(CommandEnds) /\ WF_vars(Tick)

Spec == Init /\ [][Next]_vars /\ Fairness

-----------------------------------------------------------------------------
(* Properties *)

\* However edges, reads and scripts interleave, a program that waits for the
\* next edge knows the level of the button: edges that fall together, or that
\* come while system() runs, never leave it taking a press for a release.
InPhase == exported /\ watch = "select" /\ ~ pending => last = level

\* A script runs only if the button was held that long without a break:
\* reinstallSS.sh, the most drastic, only after 15 seconds down, whatever was
\* pressed before, during a script or across a restart, and however late the
\* program came to see the press.  Only edges that wait while a press is being
\* timed can join two presses into one.
Deserved ==
  [][ watch' = "system" /\ watch # "system" /\ ~ late =>
        \/ command' = "restartSS" /\ down > FirstLower
        \/ command' = "rebootFreedom" /\ down > SecondLower
        \/ command' = "reinstallSS" /\ down > SecondUpper ]_vars

\* Once the button stays up and S45btnwatch leaves the program alone, a press it
\* has timed beyond secondRange_lower leads to a script.
PressAnswered ==
  <>[](level = 0 /\ script = "idle" /\ exported)
    => ((watch \in {"select", "read"} /\ last = 1 /\ elapsed > SecondLower) ~>
        (watch \in {"system", "off"}))
=============================================================================
