SPECIFICATION Spec
CONSTANTS MAX_TASKS = 5
          ENTERS = {TRUE, FALSE}
INVARIANTS TypeOK RunningIsCurrent PidIsSlot WaitReapsNothing CountCoversLive
PROPERTY ReadyRuns
CHECK_DEADLOCK FALSE
