\* Ticks stand for the order of the thresholds: 0 is noise, 1 is the lower
\* bound of the first range, 4 lies in the gap between the first two ranges.
SPECIFICATION Spec
CONSTANTS
  FirstLower = 1
  FirstUpper = 3
  SecondLower = 4
  SecondUpper = 6
INVARIANT InPhase
PROPERTY Deserved
PROPERTY PressAnswered
