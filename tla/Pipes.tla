-------------------------------- MODULE Pipes -------------------------------
(***************************************************************************)
(* Pipes and typed pipes: pipe_create with the descriptors it hands out,   *)
(* the calls that move bytes and close the ends, and the typed pipes.      *)
(*                                                                         *)
(* Programs reach pipe_create and pipe_create_typed through system calls.  *)
(* The other calls are the interface of pipe.h: the code that would call   *)
(* them (vfs_read, vfs_write) is reached by no system call.  They are      *)
(* modelled as pipe.h offers them: one reader and one writer per pipe,     *)
(* each closing its end once.                                              *)
(*                                                                         *)
(* Each turn of the loops of pipe_read and pipe_write is one step under    *)
(* cli; the test for a closed peer comes after sti.  A task's pid is its   *)
(* slot plus one (PidIsSlot of Process).                                   *)
(***************************************************************************)
EXTENDS Ring

CONSTANTS MAX_PIPES, MAX_FDS, PIPE_BUF_SIZE, PIPE_TYPED_CAPACITY,
          Tasks,          \* the slots of tasks that are alive
          Schemas,
          MaxLen,         \* bound of the model on the length of a read or write
          MaxBytes,       \* bound of the model on what goes through a pipe
          MaxForms        \* bound of the model on what goes through a typed pipe

ASSUME PipesAssumption ==
  /\ MAX_PIPES \in Nat /\ MAX_FDS \in Nat
  /\ PIPE_BUF_SIZE \in Nat /\ PIPE_BUF_SIZE >= 2
  /\ PIPE_TYPED_CAPACITY \in Nat /\ PIPE_TYPED_CAPACITY >= 2
  /\ Tasks \subseteq Nat /\ MaxLen \in Nat /\ MaxBytes \in Nat /\ MaxForms \in Nat

VARIABLES pipes,          \* readers, writers and ring of each pipe
          pipe_allocated,
          fds,            \* the pipe ends in the descriptor table of each task
          reader, writer, \* progress of the calls on each pipe
          sent, received, \* history: bytes written, and bytes read in order
          eofs,           \* history: reads in a row that returned 0, counted up to 2
          typed           \* the typed pipes in use and what their readers got

pipeVars == <<pipes, pipe_allocated, fds, reader, writer, sent, received, eofs, typed>>
transfer == <<reader, writer, sent, received, eofs>>

PipeId == 0 .. MAX_PIPES - 1
Fd == 3 .. MAX_FDS - 1
NoEnd == -1
SHELL == 1      \* slots 0 and 1 make no system call for a pipe
Resting == [pc |-> "idle", left |-> 0, total |-> 0]

\* proc_alloc_fd: the lowest free descriptor in the table of the task with this
\* pid; no such task or no free descriptor leaves the tables as they are.
proc_alloc_fd(tables, pid, ref) ==
  [t \in Tasks |-> [f \in Fd |->
     IF /\ t + 1 = pid /\ tables[t][f] = NoEnd
        /\ \A g \in Fd : g < f => tables[t][g] # NoEnd
     THEN ref ELSE tables[t][f]]]

\* Mutant: the ring is not reset.
Created_KeepsRing(id) == [pipes EXCEPT ![id] = [ring |-> pipes[id].ring, readers |-> 1, writers |-> 1]]

Created(id) ==
  [pipes EXCEPT ![id] = [ring |-> [buf |-> pipes[id].ring.buf, head |-> 0, tail |-> 0],
                         readers |-> 1, writers |-> 1]]

\* sys_pipe of the task in slot t.  pipe_create passes current_task, its slot,
\* as the pid: the descriptors are those of another task.
pipe_create(t, id) ==
  /\ t > SHELL /\ id \notin pipe_allocated /\ \A j \in PipeId : j < id => j \in pipe_allocated
  /\ pipe_allocated' = pipe_allocated \cup {id}
  /\ pipes' = Created(id)
  /\ fds' = proc_alloc_fd(proc_alloc_fd(fds, t, id), t, id + MAX_PIPES)
  /\ sent' = [sent EXCEPT ![id] = 0] /\ received' = [received EXCEPT ![id] = <<>>]
  /\ eofs' = [eofs EXCEPT ![id] = 0]
  /\ UNCHANGED <<reader, writer, typed>>

ReadStart(id, len) ==
  /\ pipes[id].readers = 1 /\ reader[id].pc = "idle"
  /\ reader' = [reader EXCEPT ![id] = [pc |-> "loop", left |-> len, total |-> 0]]
  /\ UNCHANGED <<pipes, pipe_allocated, fds, writer, sent, received, eofs, typed>>

ReadByte(id) ==
  /\ reader[id].pc = "loop" /\ ~IsEmpty(pipes[id].ring)
  /\ pipes' = [pipes EXCEPT ![id].ring = DropFirst(PIPE_BUF_SIZE, @)]
  /\ received' = [received EXCEPT ![id] = Append(@, First(pipes[id].ring))]
  /\ reader' = [reader EXCEPT ![id] =
                  IF @.left = 1 THEN Resting
                  ELSE [pc |-> "loop", left |-> @.left - 1, total |-> @.total + 1]]
  /\ eofs' = [eofs EXCEPT ![id] = IF reader[id].left = 1 THEN 0 ELSE @]
  /\ UNCHANGED <<pipe_allocated, fds, writer, sent, typed>>

\* Mutant: the writers are looked at before the ring.
ReadEmpty_TestsFirst(id) ==
  /\ reader[id].pc = "loop"
  /\ reader' = [reader EXCEPT ![id].pc = "test"]
  /\ UNCHANGED <<pipes, pipe_allocated, fds, writer, sent, received, eofs, typed>>

\* The pipe was empty; interrupts are enabled ...
ReadEmpty(id) ==
  /\ reader[id].pc = "loop" /\ IsEmpty(pipes[id].ring)
  /\ reader' = [reader EXCEPT ![id].pc = "test"]
  /\ UNCHANGED <<pipes, pipe_allocated, fds, writer, sent, received, eofs, typed>>

\* Mutant: the reader only stops when both ends are closed.
ReadTest_BothClosed(id) ==
  /\ reader[id].pc = "test"
  /\ IF pipes[id].writers = 0 /\ pipes[id].readers = 0
     THEN /\ reader' = [reader EXCEPT ![id] = Resting]
          /\ eofs' = [eofs EXCEPT ![id] = IF reader[id].total > 0 THEN 0 ELSE IF @ < 2 THEN @ + 1 ELSE 2]
     ELSE reader' = [reader EXCEPT ![id].pc = "loop"] /\ UNCHANGED eofs
  /\ UNCHANGED <<pipes, pipe_allocated, fds, writer, sent, received, typed>>

\* ... and only then the writers are looked at.
ReadTest(id) ==
  /\ reader[id].pc = "test"
  /\ IF pipes[id].writers = 0
     THEN /\ reader' = [reader EXCEPT ![id] = Resting]
          /\ eofs' = [eofs EXCEPT ![id] = IF reader[id].total > 0 THEN 0 ELSE IF @ < 2 THEN @ + 1 ELSE 2]
     ELSE reader' = [reader EXCEPT ![id].pc = "loop"] /\ UNCHANGED eofs
  /\ UNCHANGED <<pipes, pipe_allocated, fds, writer, sent, received, typed>>

WriteStart(id, len) ==
  /\ pipes[id].writers = 1 /\ writer[id].pc = "idle" /\ sent[id] + len <= MaxBytes
  /\ writer' = [writer EXCEPT ![id] = [pc |-> "loop", left |-> len, total |-> 0]]
  /\ UNCHANGED <<pipes, pipe_allocated, fds, reader, sent, received, eofs, typed>>

WriteByte(id) ==
  /\ writer[id].pc = "loop" /\ ~Full(PIPE_BUF_SIZE, pipes[id].ring)
  /\ pipes' = [pipes EXCEPT ![id].ring = Put(PIPE_BUF_SIZE, @, sent[id] + 1)]
  /\ sent' = [sent EXCEPT ![id] = @ + 1]
  /\ writer' = [writer EXCEPT ![id] =
                  IF @.left = 1 THEN Resting
                  ELSE [pc |-> "loop", left |-> @.left - 1, total |-> @.total + 1]]
  /\ UNCHANGED <<pipe_allocated, fds, reader, received, eofs, typed>>

WriteFull(id) ==
  /\ writer[id].pc = "loop" /\ Full(PIPE_BUF_SIZE, pipes[id].ring)
  /\ writer' = [writer EXCEPT ![id].pc = "test"]
  /\ UNCHANGED <<pipes, pipe_allocated, fds, reader, sent, received, eofs, typed>>

WriteTest(id) ==
  /\ writer[id].pc = "test"
  /\ writer' = [writer EXCEPT ![id] = IF pipes[id].readers = 0 THEN Resting
                                      ELSE [@ EXCEPT !.pc = "loop"]]
  /\ UNCHANGED <<pipes, pipe_allocated, fds, reader, sent, received, eofs, typed>>

\* pipe_close: the last one frees the pipe; the descriptors stay.
Closed(id, closed) ==
  /\ pipes' = [pipes EXCEPT ![id] = closed]
  /\ pipe_allocated' = IF closed.readers = 0 /\ closed.writers = 0
                       THEN pipe_allocated \ {id} ELSE pipe_allocated
  /\ UNCHANGED <<fds, transfer, typed>>

CloseReader(id) ==
  /\ pipes[id].readers = 1 /\ reader[id].pc = "idle"
  /\ Closed(id, [pipes[id] EXCEPT !.readers = @ - 1])

CloseWriter(id) ==
  /\ pipes[id].writers = 1 /\ writer[id].pc = "idle"
  /\ Closed(id, [pipes[id] EXCEPT !.writers = @ - 1])

-----------------------------------------------------------------------------
(***************************************************************************)
(* Typed pipes: never given back, one schema each.  The pids and the       *)
(* capability token stored with them are not looked at.                    *)
(***************************************************************************)
pipe_create_typed(schema) ==
  /\ Len(typed) < MAX_PIPES
  /\ typed' = Append(typed, [schema |-> schema, ring |-> Empty(PIPE_TYPED_CAPACITY, 0),
                             sent |-> 0, got |-> <<>>])
  /\ UNCHANGED <<pipes, pipe_allocated, fds, transfer>>

pipe_typed_write(k, schema) ==
  /\ schema = typed[k].schema /\ ~Full(PIPE_TYPED_CAPACITY, typed[k].ring)
  /\ typed[k].sent < MaxForms
  /\ typed' = [typed EXCEPT ![k].ring = Put(PIPE_TYPED_CAPACITY, @, typed[k].sent + 1),
                            ![k].sent = @ + 1]
  /\ UNCHANGED <<pipes, pipe_allocated, fds, transfer>>

pipe_typed_read(k) ==
  /\ ~IsEmpty(typed[k].ring)
  /\ typed' = [typed EXCEPT ![k].ring = DropFirst(PIPE_TYPED_CAPACITY, @),
                            ![k].got = Append(@, First(typed[k].ring))]
  /\ UNCHANGED <<pipes, pipe_allocated, fds, transfer>>

-----------------------------------------------------------------------------
PipesInit ==
  /\ pipes = [id \in PipeId |-> [ring |-> Empty(PIPE_BUF_SIZE, 0), readers |-> 0, writers |-> 0]]
  /\ pipe_allocated = {} /\ fds = [t \in Tasks |-> [f \in Fd |-> NoEnd]]
  /\ reader = [id \in PipeId |-> Resting] /\ writer = [id \in PipeId |-> Resting]
  /\ sent = [id \in PipeId |-> 0] /\ received = [id \in PipeId |-> <<>>]
  /\ eofs = [id \in PipeId |-> 0] /\ typed = <<>>

ReadStep(id) == ReadByte(id) \/ ReadEmpty(id) \/ ReadTest(id)
WriteStep(id) == WriteByte(id) \/ WriteFull(id) \/ WriteTest(id)

PipesNext ==
  \/ \E t \in Tasks, id \in PipeId : pipe_create(t, id)
  \/ \E id \in PipeId, len \in 1 .. MaxLen : ReadStart(id, len) \/ WriteStart(id, len)
  \/ \E id \in PipeId : ReadStep(id) \/ WriteStep(id) \/ CloseReader(id) \/ CloseWriter(id)
  \/ \E s \in Schemas : pipe_create_typed(s) \/ \E k \in DOMAIN typed : pipe_typed_write(k, s)
  \/ \E k \in DOMAIN typed : pipe_typed_read(k)

\* A call that has started keeps running: it polls, and the scheduler gives
\* every ready task its turn.  Nobody has to read, write or close.
PipesFairness ==
  \A id \in PipeId : WF_pipeVars(ReadStep(id)) /\ WF_pipeVars(WriteStep(id))

PipesSpec == PipesInit /\ [][PipesNext]_pipeVars /\ PipesFairness

-----------------------------------------------------------------------------
Numbered(n) == [k \in 1 .. n |-> k]

(***************************************************************************)
(* What was read from a pipe and what is still in it are, in order, the    *)
(* bytes written since it was created, for any interleaving of partial     *)
(* reads and writes, and also when a pipe is used again.  The same holds   *)
(* for the forms of a typed pipe.                                          *)
(***************************************************************************)
BytesInOrder ==
  /\ \A id \in pipe_allocated :
       received[id] \o Contents(PIPE_BUF_SIZE, pipes[id].ring) = Numbered(sent[id])
  /\ \A k \in DOMAIN typed :
       typed[k].got \o Contents(PIPE_TYPED_CAPACITY, typed[k].ring) = Numbered(typed[k].sent)

(***************************************************************************)
(* A read may return 0 although the last bytes are in the pipe: they came, *)
(* with the close, after it had found the pipe empty.  When a second read  *)
(* returns 0 the pipe is empty for good.                                   *)
(***************************************************************************)
SecondEofFinal ==
  \A id \in PipeId : eofs[id] >= 2 => IsEmpty(pipes[id].ring) /\ pipes[id].writers = 0

(***************************************************************************)
(* Closing an end frees the peer that waits for it: a read ends after the  *)
(* writer has closed, a write after the reader has.                        *)
(***************************************************************************)
HangUpFreesPeer ==
  \A id \in PipeId :
    /\ (reader[id].pc # "idle" /\ pipes[id].writers = 0) ~> reader[id].pc = "idle"
    /\ (writer[id].pc # "idle" /\ pipes[id].readers = 0) ~> writer[id].pc = "idle"
=============================================================================
