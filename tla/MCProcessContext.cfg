SPECIFICATION Spec
CONSTANTS MAX_TASKS = 5
          ENTERS = {FALSE}
INVARIANT ResumesOwnContext
CHECK_DEADLOCK FALSE
