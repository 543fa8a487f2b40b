\* Every way to wait, and any preemption.
SPECIFICATION TimerSpec
CONSTANTS
  Interval = 3
  MaxTime = 18
INVARIANTS NeverEarly NextIsNearest InStepWithTimer
