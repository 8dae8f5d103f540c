SPECIFICATION Spec
CONSTANTS MAX_TASKS = 5
          ENTERS = {FALSE}
PROPERTY CyclesThroughReady
CHECK_DEADLOCK FALSE
