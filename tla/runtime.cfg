SPECIFICATION Spec
CONSTANTS
  MaxPid = 4
  Fuel = 7
  Ops = {"spawn", "await", "await_result", "wait_any", "cancel", "yield", "fail", "done"}
INVARIANT QueueExact
INVARIANT NeverStuck
INVARIANT CleanEnd
PROPERTY LifecycleImplemented
