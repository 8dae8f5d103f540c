------------------------------- MODULE Events -------------------------------
(***************************************************************************)
(* The inboxes of the tasks: process_event_send, the system calls and the  *)
(* shell command that call it, and sys_event_poll.                         *)
(*                                                                         *)
(* System calls start with interrupts disabled, so a program's send is one *)
(* step; the shell may be interrupted between finding the task and         *)
(* putting the event into its queue.  process_event_poll enables           *)
(* interrupts before it reads the answer out of the slot it has just given *)
(* back.  Of an event only the type reaches the program.                   *)
(***************************************************************************)
EXTENDS Ring

CONSTANTS Programs,           \* tasks other than the shell
          Pollers,            \* those that call sys_event_poll; user_task does not
          EVENT_QUEUE_SIZE,
          EventTypes,         \* types sent; one above 2^31 is negative as an int
          PollMasks,
          MaxSends            \* bound of the model on accepted events

EVENT_TERMINATE == 1
NoEvent == 0

ASSUME EventsAssumption ==
  /\ Pollers \subseteq Programs
  /\ EVENT_QUEUE_SIZE \in Nat /\ EVENT_QUEUE_SIZE >= 2
  /\ EventTypes \subseteq Int /\ NoEvent \notin EventTypes
  /\ PollMasks \subseteq Nat /\ MaxSends \in Nat

VARIABLES inbox, event_pending,
          poll,        \* each program's progress through sys_event_poll
          answer,      \* what process_event_poll returned to it last
          exited,
          sendevent,   \* the task and type the shell is about to send to
          sends        \* accepted events, for the bound

eventVars == <<inbox, event_pending, poll, answer, exited, sendevent, sends>>

NoTarget == [to |-> "none", type |-> NoEvent]
Progress(pc, mask, timed, slot, copy) ==
  [pc |-> pc, mask |-> mask, timed |-> timed, slot |-> slot, copy |-> copy]
Outside == Progress("out", 0, FALSE, 0, NoEvent)
Looping(mask, timed) == Progress("loop", mask, timed, 0, NoEvent)

\* Mutant: the flag follows the slot that was taken, not the queue.
EventsPut_NoFlag(p, type) ==
  /\ inbox' = IF Full(EVENT_QUEUE_SIZE, inbox[p]) THEN inbox
              ELSE [inbox EXCEPT ![p] = Put(EVENT_QUEUE_SIZE, @, type)]
  /\ sends' = IF Full(EVENT_QUEUE_SIZE, inbox[p]) THEN sends ELSE sends + 1
  /\ UNCHANGED event_pending

\* The part of process_event_send under cli; a full queue refuses.
EventsPut(p, type) ==
  IF Full(EVENT_QUEUE_SIZE, inbox[p]) THEN UNCHANGED <<inbox, event_pending, sends>>
  ELSE /\ inbox' = [inbox EXCEPT ![p] = Put(EVENT_QUEUE_SIZE, @, type)]
       /\ event_pending' = [event_pending EXCEPT ![p] = TRUE]
       /\ sends' = sends + 1

\* sys_event_send and sys_kill; the slot of a task that exited has no pid.
sys_event_send(s, p, type) ==
  /\ sends < MaxSends
  /\ s \notin exited /\ poll[s].pc = "out" /\ p \notin exited
  /\ EventsPut(p, type)
  /\ UNCHANGED <<poll, answer, exited, sendevent>>

\* cmd_sendevent: the task is found ...
SendEventFinds(p, type) ==
  /\ sends < MaxSends
  /\ sendevent = NoTarget /\ p \notin exited
  /\ sendevent' = [to |-> p, type |-> type]
  /\ UNCHANGED <<inbox, event_pending, poll, answer, exited, sends>>

\* ... and gets the event, whatever has become of it.
SendEventPuts ==
  /\ sendevent # NoTarget
  /\ EventsPut(sendevent.to, sendevent.type)
  /\ sendevent' = NoTarget
  /\ UNCHANGED <<poll, answer, exited>>

PollStart(p, mask, timed) ==
  /\ p \notin exited /\ poll[p].pc = "out"
  /\ poll' = [poll EXCEPT ![p] = Looping(mask, timed)]
  /\ UNCHANGED <<inbox, event_pending, answer, exited, sendevent, sends>>

\* type & mask, for the low three bits the types of process.h use.
Bit(x, b) == (x \div 2^b) % 2 = 1

\* Mutant: a mask of 0 asks for nothing.
Matches_NoWildcard(type, mask) == \E b \in 0 .. 2 : Bit(type, b) /\ Bit(mask, b)

Matches(type, mask) == mask = 0 \/ \E b \in 0 .. 2 : Bit(type, b) /\ Bit(mask, b)

\* Only the first event counts: one that does not match hides those behind it.
Waiting(p) == IsEmpty(inbox[p]) \/ ~Matches(First(inbox[p]), poll[p].mask)

\* Mutant: an event that does not match is thrown away.
PollNothing_Drops(p) ==
  /\ poll[p].pc = "loop" /\ Waiting(p)
  /\ inbox' = IF IsEmpty(inbox[p]) THEN inbox
              ELSE [inbox EXCEPT ![p] = DropFirst(EVENT_QUEUE_SIZE, @)]
  /\ event_pending' = [event_pending EXCEPT ![p] = @ /\ ~IsEmpty(inbox'[p])]
  /\ poll' \in {poll, [poll EXCEPT ![p] = IF @.timed THEN Outside ELSE @]}
  /\ UNCHANGED <<answer, exited, sendevent, sends>>

PollNothing(p) ==
  /\ poll[p].pc = "loop" /\ Waiting(p)
  /\ event_pending' = [event_pending EXCEPT ![p] = @ /\ ~IsEmpty(inbox[p])]
  /\ poll' \in {poll, [poll EXCEPT ![p] = IF @.timed THEN Outside ELSE @]}
  /\ UNCHANGED <<inbox, answer, exited, sendevent, sends>>

\* Mutant: the answer is read through the new tail.
PollTake_NewTail(p) ==
  /\ poll[p].pc = "loop" /\ ~Waiting(p)
  /\ inbox' = [inbox EXCEPT ![p] = DropFirst(EVENT_QUEUE_SIZE, @)]
  /\ event_pending' = [event_pending EXCEPT ![p] = @ /\ ~IsEmpty(inbox'[p])]
  /\ poll' = [poll EXCEPT ![p] = Progress("return", poll[p].mask, poll[p].timed, inbox'[p].tail,
                                           First(inbox[p]))]
  /\ UNCHANGED <<answer, exited, sendevent, sends>>

PollTake(p) ==
  /\ poll[p].pc = "loop" /\ ~Waiting(p)
  /\ inbox' = [inbox EXCEPT ![p] = DropFirst(EVENT_QUEUE_SIZE, @)]
  /\ event_pending' = [event_pending EXCEPT ![p] = @ /\ ~IsEmpty(inbox'[p])]
  /\ poll' = [poll EXCEPT ![p] = Progress("return", poll[p].mask, poll[p].timed, inbox[p].tail,
                                           First(inbox[p]))]
  /\ UNCHANGED <<answer, exited, sendevent, sends>>

\* What the slot that was given back holds now.
Returned(p) == inbox[p].buf[poll[p].slot]

\* A negative answer means none: the event is gone and the loop goes on, or times out.
AfterReturn(p) ==
  IF Returned(p) >= 0 THEN {Outside}
  ELSE {Looping(poll[p].mask, poll[p].timed)} \cup (IF poll[p].timed THEN {Outside} ELSE {})

PollReturn(p) ==
  /\ poll[p].pc = "return"
  /\ answer' = [answer EXCEPT ![p] = Returned(p)]
  /\ \E after \in AfterReturn(p) : poll' = [poll EXCEPT ![p] = after]
  /\ exited' = IF Returned(p) >= 0 /\ poll[p].copy = EVENT_TERMINATE
               THEN exited \cup {p} ELSE exited
  /\ UNCHANGED <<inbox, event_pending, sendevent, sends>>

\* SYS_EXIT or a fault, outside of a poll.
EventsExit(p) ==
  /\ p \notin exited /\ poll[p].pc = "out"
  /\ exited' = exited \cup {p}
  /\ UNCHANGED <<inbox, event_pending, poll, answer, sendevent, sends>>

EventsInit ==
  /\ inbox = [p \in Programs |-> Empty(EVENT_QUEUE_SIZE, NoEvent)]
  /\ event_pending = [p \in Programs |-> FALSE]
  /\ poll = [p \in Programs |-> Outside]
  /\ answer = [p \in Programs |-> NoEvent]
  /\ exited = {} /\ sendevent = NoTarget /\ sends = 0

PollStep(p) == PollNothing(p) \/ PollTake(p) \/ PollReturn(p)

EventsNext ==
  \/ \E s, p \in Programs, type \in EventTypes : sys_event_send(s, p, type)
  \/ \E p \in Programs, type \in EventTypes : SendEventFinds(p, type)
  \/ SendEventPuts
  \/ \E p \in Pollers, mask \in PollMasks, timed \in BOOLEAN : PollStart(p, mask, timed)
  \/ \E p \in Programs : PollStep(p) \/ EventsExit(p)

\* A program in sys_event_poll keeps looping: the scheduler gives every ready
\* task its turn.  Nobody has to send, poll or exit.
EventsFairness == \A p \in Programs : WF_eventVars(PollStep(p))

EventsSpec == EventsInit /\ [][EventsNext]_eventVars /\ EventsFairness

-----------------------------------------------------------------------------
\* The types of the inboxes and of the programs' progress.
EventsTypeOK ==
  /\ inbox \in [Programs -> [buf : [0 .. EVENT_QUEUE_SIZE - 1 -> EventTypes \cup {NoEvent}],
                             head : 0 .. EVENT_QUEUE_SIZE - 1,
                             tail : 0 .. EVENT_QUEUE_SIZE - 1]]
  /\ event_pending \in [Programs -> BOOLEAN]
  /\ poll \in [Programs -> [pc : {"out", "loop", "return"}, mask : PollMasks \cup {0},
                            timed : BOOLEAN, slot : 0 .. EVENT_QUEUE_SIZE - 1,
                            copy : EventTypes \cup {NoEvent}]]
  /\ answer \in [Programs -> EventTypes \cup {NoEvent}]
  /\ exited \subseteq Programs /\ sends \in Nat
  /\ sendevent = NoTarget \/ sendevent \in [to : Programs, type : EventTypes]

(***************************************************************************)
(* process_event_poll returns ev->event_type after sti, from a slot it has *)
(* already given back.  The unused slot of the ring protects it: whoever   *)
(* sends in between, the answer is the event that was taken.               *)
(***************************************************************************)
AnswerIntact == \A p \in Programs : poll[p].pc = "return" => Returned(p) = poll[p].copy

(***************************************************************************)
(* event_pending is set exactly while the inbox holds something, for every *)
(* order of sends and polls.                                               *)
(***************************************************************************)
PendingExact == \A p \in Programs : event_pending[p] <=> ~IsEmpty(inbox[p])

(***************************************************************************)
(* The inboxes are bounded queues: an accepted event is taken once, in     *)
(* order, and what the program is told is the event that was taken.        *)
(***************************************************************************)
InboxQueue == [p \in Programs |-> Contents(EVENT_QUEUE_SIZE, inbox[p])]
InboxTaken == [p \in Programs |-> IF poll[p].pc = "return" THEN Returned(p) ELSE answer[p]]

Inboxes == INSTANCE Mailbox WITH
  Owner <- Programs, Item <- EventTypes \cup {NoEvent}, Capacity <- EVENT_QUEUE_SIZE - 1,
  queue <- InboxQueue, taken <- InboxTaken

InboxesAreQueues == Inboxes!Spec

Doomed(p) == \E k \in 1 .. Len(InboxQueue[p]) : InboxQueue[p][k] = EVENT_TERMINATE
Asking(p) == poll[p].pc = "loop" /\ poll[p].mask = 0

(***************************************************************************)
(* sys_kill only leaves EVENT_TERMINATE in an inbox.  A program that again *)
(* and again asks for any event does exit, whatever was queued before it.  *)
(***************************************************************************)
KillTakesEffect ==
  \A p \in Programs : []<>Asking(p) => [](Doomed(p) => <>(p \in exited))
=============================================================================
