--------------------------- MODULE ProcessProofs ---------------------------
(***************************************************************************)
(* Proofs about Process for any number of slots.  The inductive invariant  *)
(* Inv adds to the properties what makes them hold: user_task never ends,  *)
(* a slot is DEAD with a pid only while exec is filling it, and the end of *)
(* proc_exit runs on a task that is already a zombie.                      *)
(***************************************************************************)
EXTENDS Process, FiniteSetTheorems, TLAPS

\* user_task stays runnable; the shell is a child of it.
KernelTasks == USER \in Runnable /\ state[SHELL] # "DEAD" /\ parent[SHELL] = USER + 1

\* A runnable task has a pid, a zombie has none, and a free slot has one only
\* between alloc_pid and the store of TASK_READY.
PidsOfStates ==
  \A i \in Slot :
    /\ i \in Runnable => pid[i] # NoPid
    /\ state[i] = "ZOMBIE" => pid[i] = NoPid
    /\ state[i] = "DEAD" => (pid[i] # NoPid <=> exec.pc = "ready" /\ exec.slot = i)

ExecSlot == exec.pc = "ready" => state[exec.slot] = "DEAD" /\ pid[exec.slot] # NoPid

\* Nothing happens between the choice of proc_exit's loop and its use that
\* would make schedule choose otherwise.
ExitingIsZombie == /\ cpu \in {"search", "set"} => state[current_task] = "ZOMBIE"
                   /\ cpu = "set" => Nearest(current_task, next)

\* Every program is a child of the shell.
ShellIsParent ==
  \A i \in Slot \ {USER, SHELL} : state[i] # "DEAD" => parent[i] = SHELL + 1

Inv == /\ TypeOK /\ RunningIsCurrent /\ PidIsSlot
       /\ KernelTasks /\ PidsOfStates /\ ExecSlot /\ ExitingIsZombie /\ ShellIsParent

-----------------------------------------------------------------------------
\* schedule and proc_exit search in one order: they can pick only one task.
LEMMA NearestUnique ==
  ASSUME NEW c \in Slot, NEW i \in Slot, NEW j \in Slot, Nearest(c, i), Nearest(c, j)
  PROVE  i = j
  BY TasksAssumption DEF Nearest, Steps, Slot, Runnable

\* What an iret of schedule or proc_exit may lead to.
LEMMA ResumeValues ==
  ASSUME NEW i, NEW loop \in {"fault", "spin"}, NEW c \in Resume(i, loop)
  PROVE  /\ c \in {"task", "stuck", "lost", "fault", "spin"}
         /\ c \in {"task", "spin"} => ctx[i] \notin {NoFrame, ExitFrame}
  <1>1. Entered(loop) \subseteq {"task", loop}
    BY DEF Entered
  <1> USE DEF NoFrame, ExitFrame, SpinFrame, FirstFrame
  <1>2. CASE ctx[i] \in {NoFrame, ExitFrame}
    BY <1>2 DEF Resume
  <1>3. CASE ctx[i] \notin {NoFrame, ExitFrame}
    BY <1>1, <1>3 DEF Resume
  <1> QED BY <1>2, <1>3

\* Outside the end of proc_exit the current task is one that has not exited.
LEMMA CurrentRunnable ==
  ASSUME TypeOK, RunningIsCurrent, cpu \notin {"search", "set"}
  PROVE  /\ current_task \in Runnable
         /\ \A i \in Slot \ {current_task} : state[i] # "RUNNING"
  <1> DEFINE running == {i \in Slot : state[i] = "RUNNING"}
  <1>1. running = {current_task} \/ (running = {} /\ Runnable = {current_task})
    BY DEF RunningIsCurrent
  <1> QED BY <1>1 DEF Runnable, TypeOK

\* A context saved while a task, or its refused iret, executes is one.
LEMMA SavedContext ==
  ASSUME Inv, cpu \in {"task", "spin"}
  PROVE  Saved \notin {NoFrame, ExitFrame}
  <1>1. current_task \in Runnable
    BY CurrentRunnable DEF Inv
  <1>2. current_task \in Slot /\ pid[current_task] = current_task + 1
    BY <1>1 DEF Inv, PidIsSlot, PidsOfStates, Runnable
  <1> QED BY <1>2 DEF Saved, NoFrame, ExitFrame, SpinFrame, Slot

\* The task table as kernel_main leaves it satisfies the invariant.
LEMMA InitInv == Init => Inv
  <1> SUFFICES ASSUME Init PROVE Inv
    OBVIOUS
  <1>1. TypeOK
    BY TasksAssumption DEF Init, TypeOK, Slot, USER, SHELL, NoPid, NoFrame
  <1>2. RunningIsCurrent
    BY TasksAssumption DEF Init, RunningIsCurrent, Slot, USER, SHELL
  <1>3. PidIsSlot /\ PidsOfStates
    BY TasksAssumption DEF Init, PidIsSlot, PidsOfStates, Runnable, Slot, USER, SHELL, NoPid
  <1>4. KernelTasks /\ ExecSlot /\ ExitingIsZombie /\ ShellIsParent
    BY TasksAssumption
    DEF Init, KernelTasks, ExecSlot, ExitingIsZombie, ShellIsParent, Runnable, Slot, USER, SHELL
  <1> QED BY <1>1, <1>2, <1>3, <1>4 DEF Inv

\* schedule changes who runs and who waits, and nobody's being runnable.
LEMMA TickStates ==
  ASSUME Inv, Tick
  PROVE  /\ state' \in [Slot -> {"READY", "RUNNING", "ZOMBIE", "DEAD"}]
         /\ \A i \in Slot : /\ state'[i] = "ZOMBIE" <=> state[i] = "ZOMBIE"
                            /\ state'[i] = "DEAD" <=> state[i] = "DEAD"
                            /\ i \in Runnable' <=> i \in Runnable
         /\ ctx' = [ctx EXCEPT ![current_task] = Saved]
         /\ UNCHANGED <<pid, parent, num_tasks, next_pid, next, exec>>
  <1> USE DEF Inv
  <1>1. ctx' = [ctx EXCEPT ![current_task] = Saved]
        /\ UNCHANGED <<pid, parent, num_tasks, next_pid, next, exec>>
    BY DEF Tick
  <1>2. CASE Runnable \subseteq {current_task}
    <2>1. state' = Preempted
      BY <1>2 DEF Tick
    <2> QED BY <1>1, <2>1 DEF Preempted, Runnable, TypeOK
  <1>3. CASE ~(Runnable \subseteq {current_task})
    <2>1. PICK n \in Slot : Nearest(current_task, n) /\ state' = [Preempted EXCEPT ![n] = "RUNNING"]
      BY <1>3 DEF Tick
    <2>2. n \in Runnable
      BY <2>1 DEF Nearest
    <2> QED BY <1>1, <2>1, <2>2 DEF Preempted, Runnable, TypeOK
  <1> QED BY <1>2, <1>3

\* Where nobody else is runnable, user_task is alone and goes on.
LEMMA TickAlone ==
  ASSUME Inv, Tick, Runnable \subseteq {current_task}
  PROVE  /\ Runnable = {current_task} /\ cpu \notin {"search", "set"}
         /\ state' = Preempted /\ UNCHANGED <<current_task, cpu>>
  <1>1. Runnable = {current_task}
    BY DEF Inv, KernelTasks
  <1>2. cpu \notin {"search", "set"}
    BY <1>1 DEF Inv, ExitingIsZombie, Runnable
  <1> QED BY <1>1, <1>2 DEF Tick

\* A timer interrupt at any point, the end of proc_exit included, preserves it.
LEMMA TickInv == Inv /\ Tick => Inv'
  <1> SUFFICES ASSUME Inv, Tick PROVE Inv'
    OBVIOUS
  <1> USE DEF Inv
  <1>a. /\ state' \in [Slot -> {"READY", "RUNNING", "ZOMBIE", "DEAD"}]
        /\ \A i \in Slot : /\ state'[i] = "ZOMBIE" <=> state[i] = "ZOMBIE"
                           /\ state'[i] = "DEAD" <=> state[i] = "DEAD"
                           /\ i \in Runnable' <=> i \in Runnable
        /\ ctx' = [ctx EXCEPT ![current_task] = Saved]
        /\ UNCHANGED <<pid, parent, num_tasks, next_pid, next, exec>>
    BY TickStates
  <1>b. Saved \in Int
    BY DEF TypeOK, Saved, ExitFrame, SpinFrame
  <1>1. ASSUME Runnable \subseteq {current_task}
        PROVE  TypeOK' /\ RunningIsCurrent' /\ ExitingIsZombie'
    <2>a. /\ Runnable = {current_task} /\ cpu \notin {"search", "set"}
          /\ state' = Preempted /\ UNCHANGED <<current_task, cpu>>
      BY <1>1, TickAlone
    <2>b. \A i \in Slot : state'[i] # "RUNNING"
      <3>1. \A i \in Slot \ {current_task} : state[i] # "RUNNING"
        BY <2>a, CurrentRunnable
      <3> QED BY <2>a, <3>1 DEF Preempted, TypeOK
    <2>c. Runnable' = {current_task'}
      BY <1>a, <2>a DEF Runnable
    <2>1. TypeOK'
      BY <1>a, <1>b, <2>a DEF TypeOK
    <2>2. RunningIsCurrent'
      BY <2>a, <2>b, <2>c DEF RunningIsCurrent
    <2>3. ExitingIsZombie'
      BY <2>a DEF ExitingIsZombie
    <2> QED BY <2>1, <2>2, <2>3
  <1>2. ASSUME ~(Runnable \subseteq {current_task})
        PROVE  TypeOK' /\ RunningIsCurrent' /\ ExitingIsZombie'
    <2>a. PICK n \in Slot :
            /\ Nearest(current_task, n)
            /\ state' = [Preempted EXCEPT ![n] = "RUNNING"]
            /\ current_task' = n /\ cpu' \in Resume(n, "fault")
      BY <1>2 DEF Tick
    <2>b. \A i \in Slot :
            state'[i] = IF i = n THEN "RUNNING"
                        ELSE IF i = current_task /\ state[i] = "RUNNING" THEN "READY"
                        ELSE state[i]
      BY <2>a DEF TypeOK, Preempted
    <2>c. n # current_task
      BY <2>a DEF Nearest
    <2>d. cpu' \in {"task", "stuck", "lost", "fault", "spin"}
      BY <2>a, ResumeValues
    <2>1. TypeOK'
      BY <1>a, <1>b, <2>a, <2>d DEF TypeOK
    <2>2. RunningIsCurrent'
      <3>1. \A i \in Slot : i \notin {current_task, n} => state[i] # "RUNNING"
        <4>1. CASE cpu = "search"
          BY <4>1 DEF RunningIsCurrent
        <4>2. CASE cpu = "set"
          <5>1. Nearest(current_task, next) /\ Nearest(current_task, n)
            BY <4>2, <2>a DEF ExitingIsZombie
          <5>2. n = next
            BY <5>1, NearestUnique DEF TypeOK
          <5> QED BY <4>2, <5>2 DEF RunningIsCurrent
        <4>3. CASE cpu \notin {"search", "set"}
          BY <4>3, CurrentRunnable
        <4> QED BY <4>1, <4>2, <4>3
      <3>2. \A i \in Slot : state'[i] = "RUNNING" <=> i = n
        BY <3>1, <2>b, <2>c DEF TypeOK
      <3> QED BY <3>2, <2>a, <2>d DEF RunningIsCurrent
    <2>3. ExitingIsZombie'
      BY <2>d DEF ExitingIsZombie
    <2> QED BY <2>1, <2>2, <2>3
  <1>3. TypeOK' /\ RunningIsCurrent' /\ ExitingIsZombie'
    BY <1>1, <1>2
  <1>4. PidIsSlot'
    BY <1>a DEF PidIsSlot, NoPid
  <1>5. PidsOfStates'
    BY <1>a DEF PidsOfStates
  <1>6. KernelTasks'
    BY <1>a, TasksAssumption DEF KernelTasks, USER, SHELL, Slot
  <1>7. ExecSlot'
    <2>1. exec.slot \in Slot
      BY DEF TypeOK
    <2> QED BY <2>1, <1>a DEF ExecSlot
  <1>8. ShellIsParent'
    BY <1>a DEF ShellIsParent
  <1> QED BY <1>3, <1>4, <1>5, <1>6, <1>7, <1>8

\* alloc_pid preserves it: the first free slot is the one next_pid stands for.
LEMMA AllocInv == Inv /\ alloc_pid => Inv'
  <1> SUFFICES ASSUME Inv, alloc_pid PROVE Inv'
    OBVIOUS
  <1> USE DEF Inv
  <1>a. PICK k \in Slot :
          /\ state[k] = "DEAD"
          /\ \A j \in Slot : state[j] = "DEAD" => k <= j
          /\ pid' = [pid EXCEPT ![k] = next_pid]
          /\ exec' = [exec EXCEPT !.pc = "ready", !.slot = k]
    BY DEF alloc_pid
  <1>b. /\ exec.pc = "idle" /\ cpu = "task"
        /\ next_pid' = next_pid + 1
        /\ UNCHANGED <<state, parent, ctx, current_task, num_tasks, cpu, next>>
    BY DEF alloc_pid, InShell
  <1>c. next_pid = k + 1
    <2>0. k \in Int /\ next_pid \in Int
      BY DEF Slot, TypeOK
    <2>1. next_pid <= k + 1
      <3>1. pid[k] = NoPid /\ state[k] # "ZOMBIE"
        BY <1>a, <1>b DEF PidsOfStates
      <3>2. ~(k + 1 < next_pid)
        BY <3>1 DEF PidIsSlot
      <3> QED BY <2>0, <3>2
    <2>2. next_pid - 1 \in Slot
      BY <2>1, TasksAssumption DEF TypeOK, Slot
    <2>3. state[next_pid - 1] = "DEAD"
      BY <2>2 DEF PidIsSlot, PidsOfStates, TypeOK, Runnable
    <2>4. k <= next_pid - 1
      BY <1>a, <2>2, <2>3
    <2> QED BY <2>0, <2>1, <2>4
  <1>d. pid' \in [Slot -> Int] /\ \A i \in Slot : pid'[i] = IF i = k THEN k + 1 ELSE pid[i]
    BY <1>a, <1>c DEF TypeOK, Slot
  <1>e. exec'.pc = "ready" /\ exec'.slot = k
    BY <1>a DEF TypeOK
  <1>1. TypeOK'
    <2>1. next_pid' \in 3 .. MAX_TASKS + 1
      BY <1>b, <1>c, TasksAssumption DEF TypeOK, Slot
    <2> QED BY <1>a, <1>b, <1>d, <2>1 DEF TypeOK
  <1>2. PidIsSlot'
    BY <1>a, <1>b, <1>c, <1>d DEF PidIsSlot, NoPid, Slot
  <1>3. PidsOfStates'
    BY <1>a, <1>b, <1>d, <1>e DEF PidsOfStates, Runnable, NoPid, Slot
  <1>4. ExecSlot'
    BY <1>a, <1>b, <1>d, <1>e DEF ExecSlot, NoPid, Slot
  <1>5. RunningIsCurrent' /\ KernelTasks' /\ ExitingIsZombie' /\ ShellIsParent'
    BY <1>b DEF RunningIsCurrent, KernelTasks, ExitingIsZombie, ShellIsParent, Runnable
  <1> QED BY <1>1, <1>2, <1>3, <1>4, <1>5

\* The other steps of proc_create_user preserve it, a failing one too.
LEMMA ExecInv == Inv /\ ExecStep => Inv'
  <1> SUFFICES ASSUME Inv, ExecStep PROVE Inv'
    OBVIOUS
  <1> USE DEF Inv
  <1>a. exec.slot \in Slot
    BY DEF TypeOK
  <1>1. CASE ExecReady
    <2>a. /\ exec.pc = "ready" /\ cpu = "task" /\ current_task = SHELL
          /\ state' = [state EXCEPT ![exec.slot] = "READY"]
          /\ parent' = [parent EXCEPT ![exec.slot] = pid[current_task]]
          /\ exec' = [exec EXCEPT !.pc = "stack"]
          /\ UNCHANGED <<pid, ctx, current_task, num_tasks, next_pid, cpu, next>>
      BY <1>1 DEF ExecReady, InShell
    <2>b. state[exec.slot] = "DEAD" /\ pid[exec.slot] # NoPid
      BY <2>a DEF ExecSlot
    <2>c. \A i \in Slot : state'[i] = IF i = exec.slot THEN "READY" ELSE state[i]
      BY <2>a, <1>a DEF TypeOK
    <2>d. current_task \in Runnable /\ pid[current_task] = SHELL + 1
      <3>1. current_task \in Runnable
        BY <2>a, CurrentRunnable
      <3> QED BY <2>a, <3>1, TasksAssumption DEF PidsOfStates, PidIsSlot, Slot, SHELL
    <2>e. exec'.pc = "stack"
      BY <2>a DEF TypeOK
    <2>1. TypeOK'
      BY <1>a, <2>a DEF TypeOK
    <2>2. RunningIsCurrent'
      <3>1. USER \in Runnable /\ USER # current_task
        BY <2>a DEF KernelTasks, USER, SHELL
      <3>2. {i \in Slot : state[i] = "RUNNING"} = {current_task}
        BY <2>a, <3>1 DEF RunningIsCurrent
      <3>3. {i \in Slot : state[i] = "RUNNING"}' = {current_task'}
        BY <2>a, <2>b, <2>c, <3>2
      <3> QED BY <2>a, <3>3 DEF RunningIsCurrent
    <2>3. PidIsSlot'
      BY <2>a, <2>b, <2>c DEF PidIsSlot
    <2>4. PidsOfStates'
      BY <2>a, <2>b, <2>c, <2>e DEF PidsOfStates, Runnable
    <2>5. KernelTasks'
      <3>1. SHELL \in Slot /\ USER \in Slot
        BY TasksAssumption DEF Slot, SHELL, USER
      <3>2. parent'[SHELL] = parent[SHELL]
        BY <1>a, <2>a, <2>b, <3>1 DEF KernelTasks, TypeOK
      <3> QED BY <2>c, <3>1, <3>2 DEF KernelTasks, Runnable
    <2>6. ShellIsParent'
      BY <1>a, <2>a, <2>c, <2>d DEF ShellIsParent, TypeOK
    <2>7. ExecSlot' /\ ExitingIsZombie'
      BY <2>a, <2>e DEF ExecSlot, ExitingIsZombie
    <2> QED BY <2>1, <2>2, <2>3, <2>4, <2>5, <2>6, <2>7
  <1>2. CASE ExecNoMemory \/ ExecFrame \/ ExecLoad \/ ExecStore
    <2>a. /\ exec.pc # "ready" /\ exec'.pc # "ready"
          /\ UNCHANGED <<state, pid, parent, current_task, next_pid, cpu, next>>
      BY <1>2 DEF ExecNoMemory, ExecFrame, ExecLoad, ExecStore, InShell, TypeOK
    <2>1. TypeOK'
      <3>1. ctx' \in [Slot -> Int] /\ num_tasks' \in Int
        BY <1>a, <1>2 DEF ExecNoMemory, ExecFrame, ExecLoad, ExecStore, TypeOK, FirstFrame
      <3>2. exec' \in [pc : {"idle", "ready", "stack", "load", "store"}, slot : Slot, n : Int]
        BY <1>2 DEF ExecNoMemory, ExecFrame, ExecLoad, ExecStore, TypeOK
      <3> QED BY <2>a, <3>1, <3>2 DEF TypeOK
    <2>2. RunningIsCurrent' /\ PidIsSlot' /\ KernelTasks' /\ ShellIsParent'
      BY <2>a DEF RunningIsCurrent, PidIsSlot, KernelTasks, ShellIsParent, Runnable
    <2>3. PidsOfStates' /\ ExecSlot'
      BY <2>a DEF PidsOfStates, ExecSlot, Runnable
    <2>4. ExitingIsZombie'
      BY <2>a DEF ExitingIsZombie, Nearest, Runnable
    <2> QED BY <2>1, <2>2, <2>3, <2>4
  <1> QED BY <1>1, <1>2 DEF ExecStep

\* The reparenting loop changes nothing: it looks for children of pid -1.
LEMMA ReparentsNobody ==
  ASSUME Inv, proc_exit
  PROVE  parent' = parent
  BY DEF Inv, TypeOK, proc_exit

\* The part of proc_exit under cli() preserves it.
LEMMA ProcExitInv == Inv /\ proc_exit => Inv'
  <1> SUFFICES ASSUME Inv, proc_exit PROVE Inv'
    OBVIOUS
  <1> USE DEF Inv
  <1>a. /\ cpu = "task" /\ current_task \in Slot \ {USER}
        /\ state' = [state EXCEPT ![current_task] = "ZOMBIE"]
        /\ pid' = [pid EXCEPT ![current_task] = NoPid]
        /\ num_tasks' = num_tasks - 1 /\ cpu' = "search" /\ parent' = parent
        /\ UNCHANGED <<ctx, current_task, next_pid, next, exec>>
    BY ReparentsNobody DEF proc_exit, MayExit, TypeOK
  <1>b. /\ state[current_task] \in {"READY", "RUNNING"}
        /\ \A i \in Slot \ {current_task} : state[i] # "RUNNING"
    BY <1>a, CurrentRunnable DEF Runnable
  <1>c. /\ \A i \in Slot : state'[i] = IF i = current_task THEN "ZOMBIE" ELSE state[i]
        /\ \A i \in Slot : pid'[i] = IF i = current_task THEN NoPid ELSE pid[i]
    BY <1>a DEF TypeOK
  <1>1. TypeOK'
    BY <1>a DEF TypeOK, NoPid
  <1>2. RunningIsCurrent'
    BY <1>a, <1>b, <1>c DEF RunningIsCurrent
  <1>3. PidIsSlot'
    BY <1>a, <1>b, <1>c DEF PidIsSlot, PidsOfStates, Runnable
  <1>4. PidsOfStates'
    BY <1>a, <1>b, <1>c DEF PidsOfStates, Runnable
  <1>5. KernelTasks'
    <2>1. SHELL \in Slot /\ USER \in Slot
      BY TasksAssumption DEF Slot, SHELL, USER
    <2> QED BY <1>a, <1>c, <2>1 DEF KernelTasks, Runnable
  <1>6. ExecSlot'
    <2>1. exec.slot \in Slot
      BY DEF TypeOK
    <2> QED BY <2>1, <1>a, <1>b, <1>c DEF ExecSlot
  <1>7. ShellIsParent'
    BY <1>a, <1>b, <1>c DEF ShellIsParent
  <1>8. ExitingIsZombie'
    BY <1>a, <1>c DEF ExitingIsZombie
  <1> QED BY <1>1, <1>2, <1>3, <1>4, <1>5, <1>6, <1>7, <1>8

\* The search for the next task, with interrupts enabled, preserves it.
LEMMA ExitInv == Inv /\ ExitStep => Inv'
  <1> SUFFICES ASSUME Inv, ExitStep PROVE Inv'
    OBVIOUS
  <1> USE DEF Inv
  <1>1. CASE ExitSearch
    <2>a. PICK n \in Slot : /\ Nearest(current_task, n)
                            /\ state' = [state EXCEPT ![n] = "RUNNING"]
                            /\ next' = n
      BY <1>1 DEF ExitSearch
    <2>b. /\ cpu = "search" /\ cpu' = "set"
          /\ UNCHANGED <<pid, parent, ctx, current_task, num_tasks, next_pid, exec>>
      BY <1>1 DEF ExitSearch
    <2>c. n \in Runnable /\ n # current_task /\ state[current_task] = "ZOMBIE"
      BY <2>a, <2>b DEF Nearest, ExitingIsZombie
    <2>d. \A i \in Slot : state'[i] = IF i = n THEN "RUNNING" ELSE state[i]
      BY <2>a DEF TypeOK
    <2>e. \A i \in Slot : /\ state'[i] = "ZOMBIE" <=> state[i] = "ZOMBIE"
                          /\ state'[i] = "DEAD" <=> state[i] = "DEAD"
                          /\ i \in Runnable' <=> i \in Runnable
      BY <2>c, <2>d DEF Runnable
    <2>1. TypeOK'
      BY <2>a, <2>b DEF TypeOK
    <2>2. RunningIsCurrent'
      BY <2>a, <2>b, <2>d DEF RunningIsCurrent
    <2>3. PidIsSlot' /\ PidsOfStates'
      BY <2>b, <2>e DEF PidIsSlot, PidsOfStates
    <2>4. KernelTasks' /\ ShellIsParent'
      BY <2>b, <2>e, TasksAssumption DEF KernelTasks, ShellIsParent, Slot, USER, SHELL
    <2>5. ExecSlot'
      <3>1. exec.slot \in Slot
        BY DEF TypeOK
      <3> QED BY <3>1, <2>b, <2>e DEF ExecSlot
    <2>6. ExitingIsZombie'
      <3>1. Runnable' = Runnable
        BY <2>e DEF Runnable
      <3>2. current_task \in Slot
        BY DEF TypeOK
      <3> QED BY <3>1, <3>2, <2>a, <2>b, <2>c, <2>e DEF ExitingIsZombie, Nearest
    <2> QED BY <2>1, <2>2, <2>3, <2>4, <2>5, <2>6
  <1>2. CASE ExitSet
    <2>a. /\ cpu = "set" /\ cpu' = "load" /\ current_task' = next
          /\ UNCHANGED <<state, pid, parent, ctx, num_tasks, next_pid, next, exec>>
      BY <1>2 DEF ExitSet
    <2>1. TypeOK'
      BY <2>a DEF TypeOK
    <2>2. RunningIsCurrent' /\ ExitingIsZombie'
      BY <2>a DEF RunningIsCurrent, ExitingIsZombie, Runnable
    <2>3. PidIsSlot' /\ PidsOfStates' /\ ExecSlot' /\ KernelTasks' /\ ShellIsParent'
      BY <2>a DEF PidIsSlot, PidsOfStates, ExecSlot, KernelTasks, ShellIsParent, Runnable
    <2> QED BY <2>1, <2>2, <2>3
  <1>3. CASE ExitLoad
    <2>a. /\ cpu = "load" /\ cpu' \in {"task", "stuck", "lost", "fault", "spin"}
          /\ UNCHANGED <<state, pid, parent, ctx, current_task, num_tasks, next_pid, next, exec>>
      BY <1>3, ResumeValues DEF ExitLoad
    <2>1. TypeOK'
      BY <2>a DEF TypeOK
    <2>2. RunningIsCurrent' /\ ExitingIsZombie'
      BY <2>a DEF RunningIsCurrent, ExitingIsZombie, Runnable
    <2>3. PidIsSlot' /\ PidsOfStates' /\ ExecSlot' /\ KernelTasks' /\ ShellIsParent'
      BY <2>a DEF PidIsSlot, PidsOfStates, ExecSlot, KernelTasks, ShellIsParent, Runnable
    <2> QED BY <2>1, <2>2, <2>3
  <1> QED BY <1>1, <1>2, <1>3 DEF ExitStep

\* Every step preserves the invariant.
LEMMA NextInv == Inv /\ [Next]_vars => Inv'
  <1>1. Inv /\ UNCHANGED vars => Inv'
    BY DEF Inv, vars, TypeOK, RunningIsCurrent, PidIsSlot, KernelTasks, PidsOfStates, ExecSlot,
           ExitingIsZombie, ShellIsParent, Nearest, Runnable
  <1> QED BY <1>1, TickInv, AllocInv, ExecInv, ProcExitInv, ExitInv DEF Next

\* The invariant holds in every reachable state.
LEMMA SpecInv == Spec => []Inv
  BY InitInv, NextInv, PTL DEF Spec

(***************************************************************************)
(* The task table stays well formed, and the pids handed out never leave   *)
(* 1 .. MAX_TASKS: next_pid cannot wrap.                                   *)
(***************************************************************************)
THEOREM TypeCorrect == Spec => []TypeOK
  <1>1. Inv => TypeOK
    BY DEF Inv
  <1> QED BY <1>1, SpecInv, PTL

(***************************************************************************)
(* schedule and proc_exit agree with the processor on who is running, at   *)
(* every point where the timer may interrupt.                              *)
(***************************************************************************)
THEOREM RunningCorrect == Spec => []RunningIsCurrent
  <1>1. Inv => RunningIsCurrent
    BY DEF Inv
  <1> QED BY <1>1, SpecInv, PTL

(***************************************************************************)
(* No slot and no pid is used twice: a live pid is its slot plus one.      *)
(***************************************************************************)
THEOREM PidsCorrect == Spec => []PidIsSlot
  <1>1. Inv => PidIsSlot
    BY DEF Inv
  <1> QED BY <1>1, SpecInv, PTL

(***************************************************************************)
(* sys_waitpid never finds a zombie, whichever program calls it.           *)
(***************************************************************************)
THEOREM WaitCorrect == Spec => []WaitReapsNothing
  <1>1. Inv => WaitReapsNothing
    <2> SUFFICES ASSUME Inv, NEW i \in Slot, NEW j \in Runnable \ {USER, SHELL},
                        state[i] = "ZOMBIE"
                 PROVE  parent[i] # pid[j]
      BY DEF WaitReapsNothing, Reapable
    <2>1. parent[i] \in {USER + 1, SHELL + 1}
      BY DEF Inv, ShellIsParent, KernelTasks, Runnable
    <2>2. j \in Slot /\ pid[j] = j + 1
      BY DEF Inv, PidIsSlot, PidsOfStates, Runnable
    <2> QED BY <2>1, <2>2 DEF USER, SHELL, Slot
  <1> QED BY <1>1, SpecInv, PTL

-----------------------------------------------------------------------------
(***************************************************************************)
(* The count of tasks.  num_tasks++ of exec is a load and a store, and a   *)
(* program may exit in between, so between the two the value that counts   *)
(* is the one exec has loaded.  A task that exits before it is counted has *)
(* been counted out already: until the store the count is one too low.     *)
(***************************************************************************)
NoContext == {NoFrame, ExitFrame}
Used == {i \in Slot : state[i] # "DEAD"}
Counted == IF exec.pc = "store" THEN exec.n ELSE num_tasks

\* Where esp is not one to resume a task with.
FrameInv ==
  /\ \A i \in Slot : state[i] = "DEAD" => ctx[i] = NoFrame
  /\ cpu \in {"task", "spin"} => ctx[current_task] \notin NoContext
  /\ exec.pc \in {"ready", "stack"} => ctx[exec.slot] \in NoContext
  /\ exec.pc = "stack" => exec.slot \in Runnable

ExitedUncounted == exec.pc \in {"load", "store"} /\ state[exec.slot] = "ZOMBIE"

CountInv ==
  /\ Cardinality(Live) <= IF ExitedUncounted THEN Counted + 1 ELSE Counted
  /\ Cardinality(Used) >= IF exec.pc \in {"stack", "load", "store"} THEN Counted + 1 ELSE Counted

\* Sets of slots are finite and their cardinalities are numbers.
LEMMA SlotsFinite ==
  ASSUME NEW S \in SUBSET Slot
  PROVE  IsFiniteSet(S) /\ Cardinality(S) \in Nat
  <1>1. IsFiniteSet(Slot)
    BY TasksAssumption, FS_Interval DEF Slot
  <1>2. IsFiniteSet(S)
    BY <1>1, FS_Subset
  <1> QED BY <1>2, FS_CardinalityType

\* Fewer slots have a smaller cardinality.
LEMMA FewerSlots ==
  ASSUME NEW S \in SUBSET Slot, NEW T \in SUBSET S
  PROVE  Cardinality(T) <= Cardinality(S)
  BY SlotsFinite, FS_Subset

\* One slot more adds at most one.
LEMMA OneMore ==
  ASSUME NEW S \in SUBSET Slot, NEW k \in Slot
  PROVE  /\ Cardinality(S \cup {k}) <= Cardinality(S) + 1
         /\ k \notin S => Cardinality(S \cup {k}) = Cardinality(S) + 1
  <1>1. IsFiniteSet(S) /\ Cardinality(S) \in Nat
    BY SlotsFinite
  <1>2. k \notin S => Cardinality(S \cup {k}) = Cardinality(S) + 1
    BY <1>1, FS_AddElement
  <1>3. CASE k \in S
    <2>1. S \cup {k} = S
      BY <1>3
    <2>2. Cardinality(S \cup {k}) = Cardinality(S)
      BY <2>1
    <2> QED BY <1>1, <1>3, <2>2
  <1>4. CASE k \notin S
    BY <1>1, <1>2, <1>4
  <1> QED BY <1>3, <1>4

\* After boot both tasks are live and counted.
LEMMA InitCount == Init => FrameInv /\ CountInv
  <1> SUFFICES ASSUME Init PROVE FrameInv /\ CountInv
    OBVIOUS
  <1>0. /\ USER \in Slot /\ SHELL \in Slot /\ USER # SHELL /\ exec.pc = "idle" /\ num_tasks = 2
        /\ cpu = "task" /\ current_task = SHELL
    BY TasksAssumption DEF Init, Slot, USER, SHELL
  <1>1. FrameInv
    BY <1>0 DEF Init, FrameInv, NoContext, NoFrame, ExitFrame, USER, SHELL
  <1>2. Used = {USER, SHELL} /\ Live \subseteq {USER, SHELL}
    BY <1>0 DEF Init, Used, Live, Runnable
  <1>3. Cardinality({USER, SHELL}) = 2
    <2>1. Cardinality({}) = 0 /\ {} \subseteq Slot
      BY FS_EmptySet
    <2>2. Cardinality({} \cup {USER}) = 1
      BY <1>0, <2>1, OneMore
    <2>3. {USER, SHELL} = ({} \cup {USER}) \cup {SHELL} /\ SHELL \notin ({} \cup {USER})
      BY <1>0
    <2>4. Cardinality(({} \cup {USER}) \cup {SHELL}) = 2
      BY <1>0, <2>2, <2>3, OneMore
    <2> QED BY <2>3, <2>4
  <1>4. {USER, SHELL} \in SUBSET Slot
    BY <1>0
  <1>5. Cardinality(Live) <= 2 /\ Cardinality(Used) = 2
    BY <1>2, <1>3, <1>4, FewerSlots
  <1> QED BY <1>0, <1>1, <1>5 DEF CountInv, Counted, ExitedUncounted

\* A timer interrupt may spoil a context and never makes one.
LEMMA TickCount == Inv /\ FrameInv /\ CountInv /\ Tick => FrameInv' /\ CountInv'
  <1> SUFFICES ASSUME Inv, FrameInv, CountInv, Tick PROVE FrameInv' /\ CountInv'
    OBVIOUS
  <1> USE DEF Inv
  <1>a. /\ \A i \in Slot : /\ state'[i] = "ZOMBIE" <=> state[i] = "ZOMBIE"
                           /\ state'[i] = "DEAD" <=> state[i] = "DEAD"
                           /\ i \in Runnable' <=> i \in Runnable
        /\ ctx' = [ctx EXCEPT ![current_task] = Saved]
        /\ UNCHANGED <<pid, parent, num_tasks, next_pid, next, exec>>
    BY TickStates
  <1>b. current_task \in Slot /\ exec.slot \in Slot
    BY DEF TypeOK
  <1>c. state[current_task] # "DEAD"
    <2>1. CASE cpu \in {"search", "set"}
      BY <2>1 DEF ExitingIsZombie
    <2>2. CASE cpu \notin {"search", "set"}
      BY <2>2, CurrentRunnable DEF Runnable
    <2> QED BY <2>1, <2>2
  <1>d. \A i \in Slot : ctx'[i] = IF i = current_task THEN Saved ELSE ctx[i]
    BY <1>a DEF TypeOK
  <1>e. ctx[current_task] \in NoContext => Saved \in NoContext
    <2>1. CASE cpu \in {"task", "spin"}
      BY <2>1 DEF FrameInv
    <2>2. CASE cpu \notin {"task", "spin"}
      BY <2>2 DEF Saved, NoContext
    <2> QED BY <2>1, <2>2
  <1>f. \A i \in Slot : ctx[i] \in NoContext => ctx'[i] \in NoContext
    BY <1>d, <1>e
  <1>1. FrameInv'
    <2>1. \A i \in Slot : state'[i] = "DEAD" => ctx'[i] = NoFrame
      BY <1>a, <1>c, <1>d DEF FrameInv
    <2>2. cpu' \in {"task", "spin"} => ctx'[current_task'] \notin NoContext
      <3>1. CASE Runnable \subseteq {current_task}
        <4>1. UNCHANGED <<current_task, cpu>>
          BY <3>1, TickAlone
        <4>2. cpu \in {"task", "spin"} => Saved \notin NoContext
          BY SavedContext DEF NoContext
        <4> QED BY <1>b, <1>d, <4>1, <4>2
      <3>2. CASE ~(Runnable \subseteq {current_task})
        <4>1. PICK n \in Slot : /\ Nearest(current_task, n) /\ current_task' = n
                                /\ cpu' \in Resume(n, "fault")
          BY <3>2 DEF Tick
        <4>2. n # current_task
          BY <4>1 DEF Nearest
        <4>3. cpu' \in {"task", "spin"} => ctx[n] \notin NoContext
          BY <4>1, ResumeValues DEF NoContext
        <4> QED BY <1>d, <4>1, <4>2, <4>3
      <3> QED BY <3>1, <3>2
    <2>3. exec'.pc \in {"ready", "stack"} => ctx'[exec'.slot] \in NoContext
      BY <1>a, <1>b, <1>f DEF FrameInv
    <2>4. exec'.pc = "stack" => exec'.slot \in Runnable'
      BY <1>a, <1>b DEF FrameInv
    <2> QED BY <2>1, <2>2, <2>3, <2>4 DEF FrameInv
  <1>2. Live' \subseteq Live /\ Used' = Used
    BY <1>a, <1>f DEF Live, Used, Runnable, NoContext
  <1>3. Cardinality(Live') <= Cardinality(Live)
    BY <1>2, FewerSlots DEF Live, Runnable
  <1>4. Counted' = Counted /\ (ExitedUncounted' <=> ExitedUncounted) /\ exec' = exec
    BY <1>a, <1>b DEF Counted, ExitedUncounted
  <1>5. /\ Cardinality(Live) \in Nat /\ Cardinality(Live') \in Nat /\ Counted \in Int
    <2>1. Live \in SUBSET Slot /\ Live' \in SUBSET Slot
      BY <1>2 DEF Live, Runnable
    <2> QED BY <2>1, SlotsFinite DEF Counted, TypeOK
  <1>6. CountInv'
    BY <1>2, <1>3, <1>4, <1>5 DEF CountInv
  <1> QED BY <1>1, <1>6

\* The sets that are counted, and the counts, have their types.
LEMMA CountTypes ==
  ASSUME TypeOK
  PROVE  /\ Live \in SUBSET Slot /\ Cardinality(Live) \in Nat
         /\ Used \in SUBSET Slot /\ Cardinality(Used) \in Nat
         /\ Counted \in Int /\ exec.slot \in Slot /\ num_tasks \in Int /\ exec.n \in Int
  <1>1. Live \in SUBSET Slot /\ Used \in SUBSET Slot
    BY DEF Live, Used, Runnable
  <1> QED BY <1>1, SlotsFinite DEF Counted, TypeOK

\* alloc_pid counts nothing: the slot it takes is not live.
LEMMA AllocCount == Inv /\ FrameInv /\ CountInv /\ alloc_pid => FrameInv' /\ CountInv'
  <1> SUFFICES ASSUME Inv, FrameInv, CountInv, alloc_pid PROVE FrameInv' /\ CountInv'
    OBVIOUS
  <1>a. PICK k \in Slot :
          state[k] = "DEAD" /\ exec' = [exec EXCEPT !.pc = "ready", !.slot = k]
    BY DEF alloc_pid
  <1>b. /\ exec.pc = "idle" /\ UNCHANGED <<state, ctx, current_task, num_tasks, cpu>>
    BY DEF alloc_pid, InShell
  <1>c. exec'.pc = "ready" /\ exec'.slot = k
    BY <1>a DEF Inv, TypeOK
  <1>1. FrameInv'
    BY <1>a, <1>b, <1>c DEF FrameInv, NoContext
  <1>2. Live' = Live /\ Used' = Used /\ Counted' = Counted
    BY <1>a, <1>b, <1>c DEF Live, Used, Counted, Runnable
  <1>3. CountInv'
    BY <1>b, <1>c, <1>2 DEF CountInv, ExitedUncounted
  <1> QED BY <1>1, <1>3

\* exec counts the task it has made, or gives up before it has a context.
LEMMA ExecCount == Inv /\ FrameInv /\ CountInv /\ ExecStep => FrameInv' /\ CountInv'
  <1> SUFFICES ASSUME Inv, FrameInv, CountInv, ExecStep PROVE FrameInv' /\ CountInv'
    OBVIOUS
  <1>0. /\ TypeOK /\ Live \in SUBSET Slot /\ Cardinality(Live) \in Nat
        /\ Used \in SUBSET Slot /\ Cardinality(Used) \in Nat
        /\ Counted \in Int /\ exec.slot \in Slot /\ num_tasks \in Int /\ exec.n \in Int
    BY CountTypes DEF Inv
  <1>1. CASE ExecReady
    <2>a. /\ exec.pc = "ready" /\ cpu = "task"
          /\ state' = [state EXCEPT ![exec.slot] = "READY"]
          /\ exec' = [exec EXCEPT !.pc = "stack"]
          /\ UNCHANGED <<ctx, current_task, num_tasks, cpu>>
      BY <1>1 DEF ExecReady, InShell
    <2>b. state[exec.slot] = "DEAD"
      BY <2>a DEF Inv, ExecSlot
    <2>c. \A i \in Slot : state'[i] = IF i = exec.slot THEN "READY" ELSE state[i]
      BY <1>0, <2>a DEF TypeOK
    <2>d. exec'.pc = "stack" /\ exec'.slot = exec.slot
      BY <1>0, <2>a DEF TypeOK
    <2>1. FrameInv'
      BY <1>0, <2>a, <2>c, <2>d DEF FrameInv, Runnable
    <2>2. Live' = Live
      BY <2>a, <2>c, <2>d DEF Live, Runnable
    <2>3. Used' = Used \cup {exec.slot} /\ exec.slot \notin Used
      BY <1>0, <2>b, <2>c DEF Used
    <2>4. Cardinality(Used') = Cardinality(Used) + 1
      BY <1>0, <2>3, OneMore
    <2>5. Counted' = num_tasks /\ Counted = num_tasks /\ ~ExitedUncounted /\ ~ExitedUncounted'
      BY <2>a, <2>d DEF Counted, ExitedUncounted
    <2>6. CountInv'
      BY <1>0, <2>a, <2>d, <2>2, <2>4, <2>5 DEF CountInv
    <2> QED BY <2>1, <2>6
  <1>2. CASE ExecNoMemory
    <2>a. /\ exec.pc = "stack" /\ cpu = "task"
          /\ exec' = [exec EXCEPT !.pc = "idle"]
          /\ UNCHANGED <<state, ctx, current_task, num_tasks, cpu>>
      BY <1>2 DEF ExecNoMemory, InShell
    <2>b. exec'.pc = "idle"
      BY <1>0, <2>a DEF TypeOK
    <2>1. FrameInv'
      BY <2>a, <2>b DEF FrameInv
    <2>2. Live' = Live /\ Used' = Used
      BY <2>a, <2>b DEF Live, Used, Runnable, FrameInv, NoContext
    <2>3. Counted' = num_tasks /\ Counted = num_tasks /\ ~ExitedUncounted /\ ~ExitedUncounted'
      BY <2>a, <2>b DEF Counted, ExitedUncounted
    <2>4. CountInv'
      BY <1>0, <2>a, <2>b, <2>2, <2>3 DEF CountInv
    <2> QED BY <2>1, <2>4
  <1>3. CASE ExecFrame
    <2>a. /\ exec.pc = "stack" /\ cpu = "task" /\ current_task = SHELL
          /\ ctx' = [ctx EXCEPT ![exec.slot] = FirstFrame]
          /\ exec' = [exec EXCEPT !.pc = "load"]
          /\ UNCHANGED <<state, current_task, num_tasks, cpu>>
      BY <1>3 DEF ExecFrame, InShell
    <2>b. exec'.pc = "load" /\ exec'.slot = exec.slot
      BY <1>0, <2>a DEF TypeOK
    <2>c. exec.slot \in Runnable /\ exec.slot # current_task
      BY <2>a DEF FrameInv
    <2>d. \A i \in Slot \ {exec.slot} : ctx'[i] = ctx[i]
      BY <1>0, <2>a DEF TypeOK
    <2>1. FrameInv'
      <3>1. \A i \in Slot : state'[i] = "DEAD" => ctx'[i] = NoFrame
        BY <2>a, <2>c, <2>d DEF FrameInv, Runnable
      <3>2. ctx'[current_task'] \notin NoContext
        BY <1>0, <2>a, <2>c, <2>d DEF FrameInv, TypeOK
      <3> QED BY <2>b, <3>1, <3>2 DEF FrameInv
    <2>2. Live' = Live /\ Used' = Used
      BY <2>a, <2>b, <2>d DEF Live, Used, Runnable
    <2>3. Counted' = num_tasks /\ Counted = num_tasks /\ ~ExitedUncounted /\ ~ExitedUncounted'
      BY <2>a, <2>b, <2>c DEF Counted, ExitedUncounted, Runnable
    <2>4. CountInv'
      BY <1>0, <2>a, <2>b, <2>2, <2>3 DEF CountInv
    <2> QED BY <2>1, <2>4
  <1>4. CASE ExecLoad
    <2>a. /\ exec.pc = "load" /\ exec' = [exec EXCEPT !.pc = "store", !.n = num_tasks]
          /\ UNCHANGED <<state, ctx, current_task, num_tasks, cpu>>
      BY <1>4 DEF ExecLoad, InShell
    <2>b. exec'.pc = "store" /\ exec'.slot = exec.slot /\ exec'.n = num_tasks
      BY <1>0, <2>a DEF TypeOK
    <2>1. FrameInv'
      BY <2>a, <2>b DEF FrameInv
    <2>2. Live' = Live /\ Used' = Used
      BY <2>a, <2>b DEF Live, Used, Runnable
    <2>3. Counted' = num_tasks /\ Counted = num_tasks /\ (ExitedUncounted' <=> ExitedUncounted)
      BY <2>a, <2>b DEF Counted, ExitedUncounted
    <2>4. CountInv'
      BY <1>0, <2>a, <2>b, <2>2, <2>3 DEF CountInv
    <2> QED BY <2>1, <2>4
  <1>5. CASE ExecStore
    <2>a. /\ exec.pc = "store" /\ num_tasks' = exec.n + 1 /\ exec' = [exec EXCEPT !.pc = "idle"]
          /\ UNCHANGED <<state, ctx, current_task, cpu>>
      BY <1>5 DEF ExecStore, InShell
    <2>b. exec'.pc = "idle"
      BY <1>0, <2>a DEF TypeOK
    <2>1. FrameInv'
      BY <2>a, <2>b DEF FrameInv
    <2>2. Used' = Used /\ Live' \subseteq Live \cup {exec.slot}
      BY <2>a, <2>b DEF Live, Used, Runnable
    <2>3. state[exec.slot] = "ZOMBIE" => Live' = Live
      BY <2>a, <2>b DEF Live, Runnable
    <2>4. Counted' = exec.n + 1 /\ Counted = exec.n /\ ~ExitedUncounted'
      BY <2>a, <2>b DEF Counted, ExitedUncounted
    <2>5. Cardinality(Live') <= exec.n + 1
      <3>1. CASE state[exec.slot] = "ZOMBIE"
        BY <1>0, <2>a, <2>3, <2>4, <3>1 DEF CountInv, ExitedUncounted
      <3>2. CASE state[exec.slot] # "ZOMBIE"
        <4>1. Cardinality(Live) <= exec.n
          BY <2>a, <2>4, <3>2 DEF CountInv, ExitedUncounted
        <4>2. Cardinality(Live \cup {exec.slot}) <= Cardinality(Live) + 1
          BY <1>0, OneMore
        <4>3. Live \cup {exec.slot} \in SUBSET Slot /\ Live' \in SUBSET (Live \cup {exec.slot})
          BY <1>0, <2>2
        <4>4. Cardinality(Live') <= Cardinality(Live \cup {exec.slot})
          BY <4>3, FewerSlots
        <4>5. Cardinality(Live') \in Nat /\ Cardinality(Live \cup {exec.slot}) \in Nat
          BY <4>3, SlotsFinite
        <4> QED BY <1>0, <4>1, <4>2, <4>4, <4>5
      <3> QED BY <3>1, <3>2
    <2>6. Cardinality(Used') >= exec.n + 1
      BY <2>a, <2>2, <2>4 DEF CountInv
    <2>7. CountInv'
      BY <2>b, <2>4, <2>5, <2>6 DEF CountInv
    <2> QED BY <2>1, <2>7
  <1> QED BY <1>1, <1>2, <1>3, <1>4, <1>5 DEF ExecStep

\* A task that exits is counted out, also the one exec has not counted yet.
LEMMA ProcExitCount == Inv /\ FrameInv /\ CountInv /\ proc_exit => FrameInv' /\ CountInv'
  <1> SUFFICES ASSUME Inv, FrameInv, CountInv, proc_exit PROVE FrameInv' /\ CountInv'
    OBVIOUS
  <1>0. /\ TypeOK /\ Live \in SUBSET Slot /\ Cardinality(Live) \in Nat
        /\ Used \in SUBSET Slot /\ Cardinality(Used) \in Nat
        /\ Counted \in Int /\ exec.slot \in Slot /\ num_tasks \in Int /\ exec.n \in Int
    BY CountTypes DEF Inv
  <1> DEFINE c == current_task
  <1>a. /\ cpu = "task" /\ c \in Slot
        /\ state' = [state EXCEPT ![c] = "ZOMBIE"]
        /\ num_tasks' = num_tasks - 1 /\ cpu' = "search"
        /\ UNCHANGED <<ctx, current_task, next_pid, next, exec>>
    BY <1>0 DEF proc_exit, MayExit, TypeOK
  <1>b. state[c] \in {"READY", "RUNNING"} /\ ctx[c] \notin NoContext
    <2>1. c \in Runnable
      BY <1>0, <1>a, CurrentRunnable DEF Inv
    <2> QED BY <1>a, <2>1 DEF FrameInv, Runnable
  <1>c. \A i \in Slot : state'[i] = IF i = c THEN "ZOMBIE" ELSE state[i]
    BY <1>0, <1>a DEF TypeOK
  <1>d. exec.pc = "ready" => exec.slot # c
    BY <1>b DEF Inv, ExecSlot
  <1>e. exec.pc = "stack" => exec.slot # c
    BY <1>b DEF FrameInv
  <1>1. FrameInv'
    <2>1. \A i \in Slot : state'[i] = "DEAD" => ctx'[i] = NoFrame
      BY <1>a, <1>c DEF FrameInv
    <2>2. exec.pc = "stack" => exec.slot \in Runnable'
      BY <1>0, <1>c, <1>e DEF FrameInv, Runnable
    <2> QED BY <1>a, <2>1, <2>2 DEF FrameInv
  <1>2. Used' = Used
    BY <1>b, <1>c DEF Used
  <1>3. exec' = exec
    BY <1>a
  <1> HIDE DEF c
  <1>4. Counted' \in Int /\ Counted' <= Counted /\ (exec.pc # "store" => Counted' = Counted - 1)
    BY <1>0, <1>a, <1>3 DEF Counted
  <1>5. Cardinality(Used') >=
          IF exec'.pc \in {"stack", "load", "store"} THEN Counted' + 1 ELSE Counted'
    BY <1>0, <1>2, <1>3, <1>4 DEF CountInv
  <1>6. CASE exec.pc # "idle" /\ exec.slot = c
    <2>1. exec.pc \in {"load", "store"}
      BY <1>0, <1>d, <1>e, <1>6 DEF TypeOK
    <2>2. Live' = Live
      BY <1>a, <1>c, <1>3, <1>6 DEF Live, Runnable
    <2>3. ExitedUncounted' /\ ~ExitedUncounted
      BY <1>a, <1>b, <1>c, <1>3, <1>6, <2>1 DEF ExitedUncounted
    <2>4. Counted' >= Counted - 1
      BY <1>0, <1>a, <1>3 DEF Counted
    <2>5. Cardinality(Live') <= Counted' + 1
      BY <1>0, <1>4, <2>2, <2>3, <2>4 DEF CountInv
    <2> QED BY <1>1, <1>5, <2>3, <2>5 DEF CountInv
  <1>7. CASE ~(exec.pc # "idle" /\ exec.slot = c)
    <2>1. c \in Live /\ Live' = Live \ {c}
      <3>1. c \in Live
        BY <1>a, <1>b, <1>7 DEF Live, Runnable, NoContext
      <3>2. Live' = Live \ {c}
        BY <1>a, <1>c, <1>3 DEF Live, Runnable
      <3> QED BY <3>1, <3>2
    <2>2. Cardinality(Live') = Cardinality(Live) - 1
      <3>1. IsFiniteSet(Live)
        BY <1>0, SlotsFinite
      <3> QED BY <2>1, <3>1, FS_RemoveElement
    <2>3. ExitedUncounted' <=> ExitedUncounted
      BY <1>0, <1>c, <1>3, <1>7 DEF ExitedUncounted
    <2>4. Counted' >= Counted - 1
      BY <1>0, <1>a, <1>3 DEF Counted
    <2>5. Cardinality(Live') <= IF ExitedUncounted' THEN Counted' + 1 ELSE Counted'
      BY <1>0, <1>4, <2>2, <2>3, <2>4 DEF CountInv
    <2> QED BY <1>1, <1>5, <2>5 DEF CountInv
  <1> QED BY <1>6, <1>7

\* The search for the next task changes no count.
LEMMA ExitCount == Inv /\ FrameInv /\ CountInv /\ ExitStep => FrameInv' /\ CountInv'
  <1> SUFFICES ASSUME Inv, FrameInv, CountInv, ExitStep PROVE FrameInv' /\ CountInv'
    OBVIOUS
  <1>0. TypeOK /\ exec.slot \in Slot
    BY CountTypes DEF Inv
  <1>1. UNCHANGED <<ctx, num_tasks, exec>>
    BY DEF ExitStep, ExitSearch, ExitSet, ExitLoad
  <1>2. \A i \in Slot : /\ state'[i] = "ZOMBIE" <=> state[i] = "ZOMBIE"
                        /\ state'[i] = "DEAD" <=> state[i] = "DEAD"
                        /\ i \in Runnable' <=> i \in Runnable
    <2>1. CASE ExitSearch
      <3>1. PICK n \in Slot : Nearest(current_task, n) /\ state' = [state EXCEPT ![n] = "RUNNING"]
        BY <2>1 DEF ExitSearch
      <3>2. n \in Runnable
        BY <3>1 DEF Nearest
      <3> QED BY <1>0, <3>1, <3>2 DEF Runnable, TypeOK
    <2>2. CASE ExitSet \/ ExitLoad
      BY <2>2 DEF ExitSet, ExitLoad, Runnable
    <2> QED BY <2>1, <2>2 DEF ExitStep
  <1>3. cpu' \in {"task", "spin"} => ctx'[current_task'] \notin NoContext
    <2>1. CASE ExitSearch \/ ExitSet
      BY <2>1 DEF ExitSearch, ExitSet
    <2>2. CASE ExitLoad
      <3>1. cpu' \in Resume(current_task, "spin") /\ UNCHANGED <<ctx, current_task>>
        BY <2>2 DEF ExitLoad
      <3> QED BY <3>1, ResumeValues DEF NoContext
    <2> QED BY <2>1, <2>2 DEF ExitStep
  <1>4. FrameInv'
    BY <1>0, <1>1, <1>2, <1>3 DEF FrameInv
  <1>5. Live' = Live /\ Used' = Used /\ Counted' = Counted /\ (ExitedUncounted' <=> ExitedUncounted)
    BY <1>0, <1>1, <1>2 DEF Live, Used, Counted, ExitedUncounted, Runnable
  <1>6. CountInv'
    BY <1>1, <1>5 DEF CountInv
  <1> QED BY <1>4, <1>6

(***************************************************************************)
(* num_tasks between two execs lies between the number of live tasks and   *)
(* that of the slots in use, whatever exits while exec is counting.        *)
(***************************************************************************)
THEOREM CountCorrect == Spec => []CountCoversLive
  <1>1. Inv /\ FrameInv /\ CountInv /\ [Next]_vars => FrameInv' /\ CountInv'
    <2>1. ASSUME FrameInv, CountInv, UNCHANGED vars PROVE FrameInv' /\ CountInv'
      <3>1. Live' = Live /\ Used' = Used /\ Counted' = Counted /\ exec' = exec
        BY <2>1 DEF vars, Live, Used, Counted, Runnable
      <3> QED BY <2>1, <3>1 DEF vars, FrameInv, CountInv, ExitedUncounted, Runnable
    <2> QED BY <2>1, TickCount, AllocCount, ExecCount, ProcExitCount, ExitCount DEF Next
  <1>2. CountInv => CountCoversLive
    BY DEF CountInv, CountCoversLive, Counted, ExitedUncounted, Used
  <1> QED BY <1>1, <1>2, InitCount, SpecInv, PTL DEF Spec
=============================================================================
