------------------------------- MODULE Process ------------------------------
(***************************************************************************)
(* Tasks in HEXA OS: exec, exit, faults and the timer that switches tasks. *)
(*                                                                         *)
(* There is one processor.  cpu says what it is executing:                 *)
(*   "task"    the code of the task in slot current_task                   *)
(*   "search", "set", "load"   the end of proc_exit, after its sti()       *)
(*   "stuck"   a frame saved in the middle of proc_exit, which only        *)
(*             resumes itself                                              *)
(*   "lost"    whatever an esp that was never set leads to                 *)
(*   "fault"   an iret of schedule that raises #GP: isr_handler returns to *)
(*             the same iret, with interrupts off, for ever                *)
(*   "spin"    the same iret in proc_exit, where interrupts are on         *)
(* The timer interrupt (Tick) comes between any two other steps.  The      *)
(* shell runs with interrupts enabled, so exec is several steps; they are  *)
(* split where another task can tell the difference.  The build is         *)
(* unoptimised: stores happen in source order and num_tasks++ is a load    *)
(* and a store.                                                            *)
(*                                                                         *)
(* All tasks have priority 1, so both passes of schedule pick the nearest  *)
(* runnable task.  Only the shell runs exec, and sys_waitpid is called by  *)
(* programs only.  Programs exit; the shell does when it touches an        *)
(* address that isr_handler kills for; user_task never does.               *)
(*                                                                         *)
(* The first frame of a program has CS 0x18 and SS 0x20, selectors of      *)
(* privilege 0 for segments of privilege 3: as built, iret never accepts   *)
(* it, which is ENTERS = {FALSE}.  With TRUE in ENTERS programs run, so    *)
(* that what exec, exit and schedule do with them can be checked as well.  *)
(***************************************************************************)
EXTENDS Integers, FiniteSets, FiniteSetsExt

CONSTANTS MAX_TASKS,
          ENTERS     \* whether iret enters a program by its first frame

ASSUME TasksAssumption == MAX_TASKS \in Nat /\ MAX_TASKS >= 3
ASSUME EntersAssumption == ENTERS \in SUBSET BOOLEAN /\ ENTERS # {}

VARIABLES state,         \* tasks[i].state
          pid,           \* tasks[i].pid
          parent,        \* tasks[i].parent_pid
          ctx,           \* tasks[i].esp: the pid of the task whose code it resumes
          current_task, num_tasks, next_pid,
          cpu,           \* what the processor executes
          next,          \* the local variable of proc_exit
          exec           \* the shell's progress through proc_create_user

vars == <<state, pid, parent, ctx, current_task, num_tasks, next_pid, cpu, next, exec>>

Slot == 0 .. MAX_TASKS - 1
USER == 0      \* the slots kernel_main fills
SHELL == 1
NoPid == -1
NoFrame == 0   \* esp as proc_init leaves it
ExitFrame == -1
FirstFrame == -2   \* built by proc_create_user
SpinFrame == -3

Runnable == {i \in Slot : state[i] \in {"READY", "RUNNING"}}

\* Steps of the loops of schedule and proc_exit from slot c to slot i.
Steps(c, i) == IF i > c THEN i - c ELSE i - c + MAX_TASKS

\* Mutant: the search starts at slot 0 each time.
Nearest_FromZero(c, i) == /\ i \in Runnable \ {c}
                          /\ \A j \in Runnable \ {c} : i <= j

Nearest(c, i) == /\ i \in Runnable \ {c}
                 /\ \A j \in Runnable \ {c} : Steps(c, i) <= Steps(c, j)

\* An iret to the first frame of a program: it enters the program, or raises
\* #GP, from which isr_handler "recovers" by returning to it.
Entered(loop) == {IF ok THEN "task" ELSE loop : ok \in ENTERS}

\* What the processor may execute after loading esp from slot i.
Resume(i, loop) == CASE ctx[i] = NoFrame    -> {"lost"}
                     [] ctx[i] = ExitFrame  -> {"stuck"}
                     [] ctx[i] = SpinFrame  -> {"spin"}
                     [] ctx[i] = FirstFrame -> Entered(loop)
                     [] OTHER               -> {"task"}

(***************************************************************************)
(* schedule, from the timer interrupt or from yield.  The processor's      *)
(* state is saved for the interrupted slot whoever was executing.          *)
(***************************************************************************)
Saved == CASE cpu = "task" -> pid[current_task]
           [] cpu = "spin" -> SpinFrame
           [] OTHER        -> ExitFrame

\* Mutant: the interrupted task stays marked as running.
Preempted_Kept == state

Preempted == [state EXCEPT ![current_task] = IF @ = "RUNNING" THEN "READY" ELSE @]

Tick ==
  /\ cpu \notin {"lost", "fault"} /\ num_tasks > 1
  /\ ctx' = [ctx EXCEPT ![current_task] = Saved]
  /\ IF Runnable \subseteq {current_task}
     THEN /\ state' = Preempted
          /\ UNCHANGED <<current_task, cpu>>
     ELSE \E n \in Slot : /\ Nearest(current_task, n)
                          /\ state' = [Preempted EXCEPT ![n] = "RUNNING"]
                          /\ current_task' = n
                          /\ cpu' \in Resume(n, "fault")
  /\ UNCHANGED <<pid, parent, num_tasks, next_pid, next, exec>>

(***************************************************************************)
(* exec in the shell: proc_create_user.                                    *)
(***************************************************************************)
InShell(pc) == cpu = "task" /\ current_task = SHELL /\ exec.pc = pc

\* Mutant: next_pid is not advanced.
alloc_pid_NoAdvance ==
  /\ InShell("idle") /\ num_tasks < MAX_TASKS
  /\ \E i \in Slot : /\ state[i] = "DEAD"
                     /\ \A j \in Slot : state[j] = "DEAD" => i <= j
                     /\ pid' = [pid EXCEPT ![i] = next_pid]
                     /\ exec' = [exec EXCEPT !.pc = "ready", !.slot = i]
  /\ UNCHANGED <<state, parent, ctx, current_task, num_tasks, next_pid, cpu, next>>

\* Mutant: zombies are taken for free slots.
alloc_pid_TakesZombie ==
  /\ InShell("idle") /\ num_tasks < MAX_TASKS
  /\ \E i \in Slot : /\ state[i] \in {"DEAD", "ZOMBIE"}
                     /\ \A j \in Slot : state[j] \in {"DEAD", "ZOMBIE"} => i <= j
                     /\ pid' = [pid EXCEPT ![i] = next_pid]
                     /\ exec' = [exec EXCEPT !.pc = "ready", !.slot = i]
  /\ next_pid' = next_pid + 1
  /\ UNCHANGED <<state, parent, ctx, current_task, num_tasks, cpu, next>>

\* The guard of proc_create_user and alloc_pid; exec fails without effect when
\* every slot is taken, and a slot is never given back.
alloc_pid ==
  /\ InShell("idle") /\ num_tasks < MAX_TASKS
  /\ \E i \in Slot : /\ state[i] = "DEAD"
                     /\ \A j \in Slot : state[j] = "DEAD" => i <= j
                     /\ pid' = [pid EXCEPT ![i] = next_pid]
                     /\ exec' = [exec EXCEPT !.pc = "ready", !.slot = i]
  /\ next_pid' = next_pid + 1
  /\ UNCHANGED <<state, parent, ctx, current_task, num_tasks, cpu, next>>

\* Mutant: the parent is the last of the counted tasks, not the current one.
ExecReady_ParentLast ==
  /\ InShell("ready")
  /\ state' = [state EXCEPT ![exec.slot] = "READY"]
  /\ parent' = [parent EXCEPT ![exec.slot] = pid[num_tasks - 1]]
  /\ exec' = [exec EXCEPT !.pc = "stack"]
  /\ UNCHANGED <<pid, ctx, current_task, num_tasks, next_pid, cpu, next>>

\* t->state = TASK_READY and t->parent_pid, before there is anything to run.
ExecReady ==
  /\ InShell("ready")
  /\ state' = [state EXCEPT ![exec.slot] = "READY"]
  /\ parent' = [parent EXCEPT ![exec.slot] = pid[current_task]]
  /\ exec' = [exec EXCEPT !.pc = "stack"]
  /\ UNCHANGED <<pid, ctx, current_task, num_tasks, next_pid, cpu, next>>

\* pmm_alloc returned 0: exec fails and leaves the slot as it is.
ExecNoMemory ==
  /\ InShell("stack")
  /\ exec' = [exec EXCEPT !.pc = "idle"]
  /\ UNCHANGED <<state, pid, parent, ctx, current_task, num_tasks, next_pid, cpu, next>>

\* The first frame is built on the user stack and stored in t->esp.
ExecFrame ==
  /\ InShell("stack")
  /\ ctx' = [ctx EXCEPT ![exec.slot] = FirstFrame]
  /\ exec' = [exec EXCEPT !.pc = "load"]
  /\ UNCHANGED <<state, pid, parent, current_task, num_tasks, next_pid, cpu, next>>

ExecLoad ==
  /\ InShell("load")
  /\ exec' = [exec EXCEPT !.pc = "store", !.n = num_tasks]
  /\ UNCHANGED <<state, pid, parent, ctx, current_task, num_tasks, next_pid, cpu, next>>

\* Mutant: the task is not counted.
ExecStore_NoCount ==
  /\ InShell("store")
  /\ num_tasks' = exec.n
  /\ exec' = [exec EXCEPT !.pc = "idle"]
  /\ UNCHANGED <<state, pid, parent, ctx, current_task, next_pid, cpu, next>>

ExecStore ==
  /\ InShell("store")
  /\ num_tasks' = exec.n + 1
  /\ exec' = [exec EXCEPT !.pc = "idle"]
  /\ UNCHANGED <<state, pid, parent, ctx, current_task, next_pid, cpu, next>>

(***************************************************************************)
(* proc_exit: SYS_EXIT, EVENT_TERMINATE in sys_event_poll, or a page       *)
(* fault.  The shell meets one outside exec, when `mode clear` writes to a *)
(* frame buffer that nothing maps.                                         *)
(***************************************************************************)
MayExit == /\ cpu = "task" /\ current_task # USER
           /\ current_task = SHELL => exec.pc = "idle"

\* The part under cli(): t->pid is already -1 when the children are looked up.
proc_exit ==
  /\ MayExit
  /\ state' = [state EXCEPT ![current_task] = "ZOMBIE"]
  /\ pid' = [pid EXCEPT ![current_task] = NoPid]
  /\ num_tasks' = num_tasks - 1
  /\ parent' = [i \in Slot |-> IF state'[i] # "DEAD" /\ parent[i] = pid'[current_task]
                               THEN NoPid ELSE parent[i]]
  /\ cpu' = "search"
  /\ UNCHANGED <<ctx, current_task, next_pid, next, exec>>

\* The loop, interrupts enabled: it finds a task and marks it ...
ExitSearch ==
  /\ cpu = "search"
  /\ \E n \in Slot : /\ Nearest(current_task, n)
                     /\ state' = [state EXCEPT ![n] = "RUNNING"]
                     /\ next' = n
  /\ cpu' = "set"
  /\ UNCHANGED <<pid, parent, ctx, current_task, num_tasks, next_pid, exec>>

\* ... makes it current ...
ExitSet ==
  /\ cpu = "set"
  /\ current_task' = next
  /\ cpu' = "load"
  /\ UNCHANGED <<state, pid, parent, ctx, num_tasks, next_pid, next, exec>>

\* ... and loads its esp.
ExitLoad ==
  /\ cpu = "load"
  /\ cpu' \in Resume(current_task, "spin")
  /\ UNCHANGED <<state, pid, parent, ctx, current_task, num_tasks, next_pid, next, exec>>

\* The children proc_wait would find for the task in slot j.
Reapable(j) == {i \in Slot : parent[i] = pid[j] /\ state[i] = "ZOMBIE"}

(***************************************************************************)
(* kernel_main has created user_task (pid 1) and the shell (pid 2), both   *)
(* while current_task was 0, and runs on as the shell.                     *)
(***************************************************************************)
Init ==
  /\ state = [i \in Slot |-> IF i = USER THEN "READY"
                             ELSE IF i = SHELL THEN "RUNNING" ELSE "DEAD"]
  /\ pid = [i \in Slot |-> IF i \in {USER, SHELL} THEN i + 1 ELSE NoPid]
  /\ parent = [i \in Slot |-> IF i \in {USER, SHELL} THEN 1 ELSE NoPid]
  /\ ctx = [i \in Slot |-> IF i \in {USER, SHELL} THEN i + 1 ELSE NoFrame]
  /\ current_task = SHELL /\ num_tasks = 2 /\ next_pid = 3
  /\ cpu = "task" /\ next = 0
  /\ exec = [pc |-> "idle", slot |-> 0, n |-> 0]

ExecStep == ExecReady \/ ExecNoMemory \/ ExecFrame \/ ExecLoad \/ ExecStore
ExitStep == ExitSearch \/ ExitSet \/ ExitLoad

Next == Tick \/ alloc_pid \/ ExecStep \/ proc_exit \/ ExitStep

\* The timer fires 100 times a second and interrupts are enabled again and again,
\* except in "fault" and perhaps in "lost", where Tick is not enabled and nothing
\* is assumed of it; the processor carries on with whatever it is executing.
\* Nobody has to start a program, and a program need not exit.
Spec == Init /\ [][Next]_vars /\ WF_vars(Tick) /\ WF_vars(ExecStep) /\ WF_vars(ExitStep)

-----------------------------------------------------------------------------
\* The types of the task table; next_pid never passes the last slot's pid by
\* more than one, so at most MAX_TASKS pids are given out (alloc_pid).
TypeOK ==
  /\ state \in [Slot -> {"READY", "RUNNING", "ZOMBIE", "DEAD"}]
  /\ pid \in [Slot -> Int] /\ parent \in [Slot -> Int] /\ ctx \in [Slot -> Int]
  /\ current_task \in Slot /\ next \in Slot
  /\ num_tasks \in Int /\ next_pid \in 3 .. MAX_TASKS + 1
  /\ cpu \in {"task", "search", "set", "load", "stuck", "lost", "fault", "spin"}
  /\ exec \in [pc : {"idle", "ready", "stack", "load", "store"}, slot : Slot, n : Int]

(***************************************************************************)
(* At most one task is marked running and it is the one the kernel takes   *)
(* for the current one, at every point of schedule and proc_exit where an  *)
(* interrupt may look; the processor never goes back to a task that has    *)
(* exited.  Only a task that is alone may be running and marked ready:     *)
(* schedule marks it before it finds no other.                             *)
(***************************************************************************)
RunningIsCurrent ==
  LET running == {i \in Slot : state[i] = "RUNNING"}
  IN  CASE cpu = "search" -> running = {}
        [] cpu = "set"    -> running = {next}
        [] OTHER          -> \/ running = {current_task}
                             \/ running = {} /\ Runnable = {current_task}

(***************************************************************************)
(* Slots are spent in order and none is ever used twice, so a live pid is  *)
(* its slot plus one, pids are unique and never wrap, and a boot can start *)
(* MAX_TASKS - 2 programs and no more (alloc_pid, proc_exit, proc_wait).   *)
(***************************************************************************)
PidIsSlot ==
  \A i \in Slot : /\ pid[i] # NoPid => pid[i] = i + 1
                  /\ pid[i] # NoPid \/ state[i] = "ZOMBIE" <=> i + 1 < next_pid

(***************************************************************************)
(* sys_waitpid finds nothing: no zombie is the child of a task that may    *)
(* call it.  Programs are children of the shell and the shell is one of    *)
(* user_task; neither of them waits.                                       *)
(***************************************************************************)
WaitReapsNothing == \A j \in Runnable \ {USER, SHELL} : Reapable(j) = {}

\* Tasks that were created to the end, have not exited and can be resumed.
Live == {i \in Runnable : ctx[i] \notin {NoFrame, ExitFrame}} \
          (IF exec.pc = "idle" THEN {} ELSE {exec.slot})

(***************************************************************************)
(* num_tasks, on which schedule stops switching at 1 and exec refuses at   *)
(* MAX_TASKS: between two execs it is never below the number of live tasks *)
(* nor above that of the slots in use, whatever exited during an exec.     *)
(***************************************************************************)
CountCoversLive ==
  exec.pc = "idle" => /\ Cardinality(Live) <= num_tasks
                      /\ num_tasks <= Cardinality({i \in Slot : state[i] # "DEAD"})

(***************************************************************************)
(* Round robin: a ready task gets the processor, as long as schedule is    *)
(* not switched off by its count and the processor neither is lost nor     *)
(* repeats a refused iret with interrupts off.                             *)
(***************************************************************************)
ReadyRuns ==
  \A i \in Slot : state[i] = "READY" ~>
    (current_task = i \/ state[i] # "READY" \/ num_tasks <= 1 \/ cpu \in {"lost", "fault"})

(***************************************************************************)
(* README.md on the scheduler: it "cycles through ready tasks".            *)
(***************************************************************************)
CyclesThroughReady ==
  \A i \in Slot : state[i] = "READY" ~> (current_task = i \/ state[i] # "READY" \/ cpu = "lost")

(***************************************************************************)
(* README.md on the scheduler: it "saves/restores full register context".  *)
(* What the processor resumes for a task is what was saved for it.         *)
(***************************************************************************)
ResumesOwnContext == cpu \notin {"stuck", "lost"}
=============================================================================
