--------------------------- MODULE ChannelsProofs ---------------------------
(***************************************************************************)
(* What the rings, the event queues, the line editor, the pipes and the    *)
(* keyboard promise, for buffers of every size.                            *)
(***************************************************************************)
EXTENDS Events, Keyboard, LineEdit, Pipes, SequenceTheorems, TLAPS

-----------------------------------------------------------------------------
(***************************************************************************)
(* What the operations of a ring do to its contents.                       *)
(***************************************************************************)

(***************************************************************************)
(* The index after i wraps at the end of the array.                        *)
(***************************************************************************)
LEMMA AfterWraps ==
  ASSUME NEW n \in Nat, n >= 2, NEW i \in 0 .. n - 1
  PROVE  After(n, i) = IF i = n - 1 THEN 0 ELSE i + 1
<1>1. CASE i = n - 1
  <2>1. i + 1 = n BY <1>1
  <2>2. n % n = 0 BY SMT
  <2> QED BY <1>1, <2>1, <2>2 DEF After
<1>2. CASE i # n - 1
  <2>1. i + 1 \in 0 .. n - 1 BY <1>2
  <2>2. (i + 1) % n = i + 1 BY <2>1, SMT
  <2> QED BY <1>2, <2>2 DEF After
<1> QED BY <1>1, <1>2

(***************************************************************************)
(* A ring stays a ring when something is put into it.                      *)
(***************************************************************************)
LEMMA PutIsRing ==
  ASSUME NEW n \in Nat, n >= 2, NEW S, NEW x \in S, NEW r, IsRing(n, r, S)
  PROVE  IsRing(n, Put(n, r, x), S)
<1>1. After(n, r.head) \in 0 .. n - 1 BY AfterWraps DEF IsRing
<1> QED BY <1>1 DEF IsRing, Put

(***************************************************************************)
(* A ring stays a ring when its first item is dropped.                     *)
(***************************************************************************)
LEMMA DropIsRing ==
  ASSUME NEW n \in Nat, n >= 2, NEW S, NEW r, IsRing(n, r, S)
  PROVE  IsRing(n, DropFirst(n, r), S)
<1>1. After(n, r.tail) \in 0 .. n - 1 BY AfterWraps DEF IsRing
<1> QED BY <1>1 DEF IsRing, DropFirst

(***************************************************************************)
(* A ring is full when it holds n - 1 items and empty when it holds none.  *)
(***************************************************************************)
LEMMA HeldBounds ==
  ASSUME NEW n \in Nat, n >= 2, NEW S, NEW r, IsRing(n, r, S)
  PROVE  /\ Held(n, r) \in 0 .. n - 1
         /\ IsEmpty(r) <=> Held(n, r) = 0
         /\ Full(n, r) <=> Held(n, r) = n - 1
<1>1. After(n, r.head) = IF r.head = n - 1 THEN 0 ELSE r.head + 1
  BY AfterWraps DEF IsRing
<1>2. r.head \in 0 .. n - 1 /\ r.tail \in 0 .. n - 1 BY DEF IsRing
<1> QED BY <1>1, <1>2 DEF Held, IsEmpty, Full

(***************************************************************************)
(* The contents are a sequence of what the slots hold.                     *)
(***************************************************************************)
LEMMA ContentsSeq ==
  ASSUME NEW n \in Nat, n >= 2, NEW S, NEW r, IsRing(n, r, S)
  PROVE  Contents(n, r) \in Seq(S) /\ Len(Contents(n, r)) = Held(n, r)
<1>1. Held(n, r) \in Nat BY HeldBounds
<1>2. \A k \in 1 .. Held(n, r) : At(n, r, k - 1) \in S
  <2> SUFFICES ASSUME NEW k \in 1 .. Held(n, r) PROVE At(n, r, k - 1) \in S OBVIOUS
  <2>1. r.head \in 0 .. n - 1 /\ r.tail \in 0 .. n - 1 /\ r.buf \in [0 .. n - 1 -> S]
    BY DEF IsRing
  <2>2. k - 1 \in 0 .. n - 2 BY HeldBounds
  <2> QED BY <2>1, <2>2 DEF At
<1> QED BY <1>1, <1>2 DEF Contents

(***************************************************************************)
(* Putting x into a ring that is not full appends it to the contents.      *)
(***************************************************************************)
LEMMA PutAppends ==
  ASSUME NEW n \in Nat, n >= 2, NEW S, NEW x \in S, NEW r, IsRing(n, r, S), ~Full(n, r)
  PROVE  Contents(n, Put(n, r, x)) = Append(Contents(n, r), x)
<1> DEFINE s == Put(n, r, x)
           h == r.head
           t == r.tail
<1>1. h \in 0 .. n - 1 /\ t \in 0 .. n - 1 /\ r.buf \in [0 .. n - 1 -> S] BY DEF IsRing
<1>2. After(n, h) = IF h = n - 1 THEN 0 ELSE h + 1 BY <1>1, AfterWraps
<1>3. s.head = After(n, h) /\ s.tail = t /\ s.buf = [r.buf EXCEPT ![h] = x] BY DEF Put
<1>4. Held(n, s) = Held(n, r) + 1
  BY <1>1, <1>2, <1>3 DEF Held, Full
<1>5. Held(n, r) \in 0 .. n - 2
  <2>1. Held(n, r) \in 0 .. n - 1 /\ (Full(n, r) <=> Held(n, r) = n - 1) BY HeldBounds
  <2> QED BY <2>1
<1>6. ASSUME NEW k \in 1 .. Held(n, r) PROVE At(n, s, k - 1) = At(n, r, k - 1)
  BY <1>1, <1>3, <1>5, <1>6 DEF At, Held
<1>7. At(n, s, Held(n, r)) = x
  <2>1. CASE t <= h
    <3>1. t + Held(n, r) = h BY <1>1, <2>1 DEF Held
    <3> QED BY <1>1, <1>3, <3>1 DEF At
  <2>2. CASE ~(t <= h)
    <3>1. t + Held(n, r) = h + n BY <1>1, <2>2 DEF Held
    <3>2. ~(t + Held(n, r) < n) /\ (t + Held(n, r)) - n = h BY <1>1, <1>5, <3>1
    <3>3. At(n, s, Held(n, r)) = s.buf[(t + Held(n, r)) - n] BY <1>1, <1>3, <1>5, <3>2 DEF At
    <3>4. s.buf[h] = x BY <1>1, <1>3
    <3> QED BY <3>2, <3>3, <3>4
  <2> QED BY <2>1, <2>2
<1>8. Contents(n, r) \in Seq(S) /\ Len(Contents(n, r)) = Held(n, r) BY ContentsSeq
<1>9. Contents(n, s) \in Seq(S) /\ Len(Contents(n, s)) = Held(n, r) + 1
  BY <1>4, PutIsRing, ContentsSeq
<1>10. /\ Append(Contents(n, r), x) \in Seq(S)
       /\ Len(Append(Contents(n, r), x)) = Held(n, r) + 1
       /\ \A k \in 1 .. Held(n, r) : Append(Contents(n, r), x)[k] = Contents(n, r)[k]
       /\ Append(Contents(n, r), x)[Held(n, r) + 1] = x
  BY <1>8, AppendProperties
<1>11. ASSUME NEW k \in 1 .. Held(n, r) + 1
       PROVE  Contents(n, s)[k] = Append(Contents(n, r), x)[k]
  <2>1. Contents(n, s)[k] = At(n, s, k - 1) BY <1>4 DEF Contents
  <2>2. CASE k = Held(n, r) + 1
    <3>1. k - 1 = Held(n, r) BY <1>5, <2>2
    <3> QED BY <1>7, <1>10, <2>1, <2>2, <3>1
  <2>3. CASE k # Held(n, r) + 1
    <3>1. k \in 1 .. Held(n, r) BY <1>5, <2>3
    <3>2. Contents(n, r)[k] = At(n, r, k - 1) BY <3>1 DEF Contents
    <3> QED BY <1>6, <1>10, <2>1, <3>1, <3>2
  <2> QED BY <2>2, <2>3
<1> QED BY <1>9, <1>10, <1>11, SeqEqual

(***************************************************************************)
(* A ring that is not empty holds its first item before the others.        *)
(***************************************************************************)
LEMMA DropTakesHead ==
  ASSUME NEW n \in Nat, n >= 2, NEW S, NEW r, IsRing(n, r, S), ~IsEmpty(r)
  PROVE  /\ Contents(n, r) # <<>>
         /\ First(r) = Head(Contents(n, r))
         /\ Contents(n, DropFirst(n, r)) = Tail(Contents(n, r))
<1> DEFINE s == DropFirst(n, r)
           h == r.head
           t == r.tail
<1>1. h \in 0 .. n - 1 /\ t \in 0 .. n - 1 /\ r.buf \in [0 .. n - 1 -> S] BY DEF IsRing
<1>2. After(n, t) = IF t = n - 1 THEN 0 ELSE t + 1 BY <1>1, AfterWraps
<1>3. s.head = h /\ s.tail = After(n, t) /\ s.buf = r.buf BY DEF DropFirst, IsRing
<1>4. Held(n, s) = Held(n, r) - 1 BY <1>1, <1>2, <1>3 DEF Held, IsEmpty
<1>5. Held(n, r) \in 1 .. n - 1 BY <1>1, HeldBounds
<1>6. ASSUME NEW k \in 1 .. Held(n, r) - 1 PROVE At(n, s, k - 1) = At(n, r, k)
  BY <1>1, <1>2, <1>3, <1>5 DEF At
<1>7. At(n, r, 0) = First(r) BY <1>1 DEF At, First
<1>8. Contents(n, r) \in Seq(S) /\ Len(Contents(n, r)) = Held(n, r) BY ContentsSeq
<1>9. \A k \in 1 .. Held(n, r) : Contents(n, r)[k] = At(n, r, k - 1) BY DEF Contents
<1>10. Contents(n, r) # <<>> BY <1>5, <1>8
<1>11. Head(Contents(n, r)) = Contents(n, r)[1] BY <1>8, <1>10
<1>12. Contents(n, r)[1] = At(n, r, 0) BY <1>5, <1>9
<1>13. /\ Tail(Contents(n, r)) \in Seq(S)
       /\ Len(Tail(Contents(n, r))) = Held(n, r) - 1
       /\ \A k \in 1 .. Held(n, r) - 1 : Tail(Contents(n, r))[k] = Contents(n, r)[k + 1]
  BY <1>8, <1>10, HeadTailProperties
<1>14. Contents(n, s) \in Seq(S) /\ Len(Contents(n, s)) = Held(n, r) - 1
  BY <1>4, DropIsRing, ContentsSeq
<1>15. ASSUME NEW k \in 1 .. Held(n, r) - 1
       PROVE  Contents(n, s)[k] = Tail(Contents(n, r))[k]
  <2>1. k + 1 \in 1 .. Held(n, r) /\ (k + 1) - 1 = k BY <1>5
  <2>2. Contents(n, s)[k] = At(n, s, k - 1) BY <1>4 DEF Contents
  <2> QED BY <1>6, <1>9, <1>13, <2>1, <2>2
<1>16. Contents(n, s) = Tail(Contents(n, r)) BY <1>13, <1>14, <1>15, SeqEqual
<1> QED BY <1>7, <1>10, <1>11, <1>12, <1>16

-----------------------------------------------------------------------------
(***************************************************************************)
(* The inboxes for every number of programs, every size of the queue and   *)
(* every set of types and masks: an accepted event is taken once, in       *)
(* order, and the answer read after sti is the event that was taken.       *)
(***************************************************************************)

(***************************************************************************)
(* The slot an answer is read from is the one just behind the tail, which  *)
(* is the one slot a sender never writes.                                  *)
(***************************************************************************)
SlotBehindTail ==
  \A p \in Programs :
    poll[p].pc = "return" => After(EVENT_QUEUE_SIZE, poll[p].slot) = inbox[p].tail

EventsInv == EventsTypeOK /\ PendingExact /\ AnswerIntact /\ SlotBehindTail

Item == EventTypes \cup {NoEvent}

Reached == [pc : {"out", "loop", "return"}, mask : PollMasks \cup {0}, timed : BOOLEAN,
            slot : 0 .. EVENT_QUEUE_SIZE - 1, copy : Item]

(***************************************************************************)
(* The size of the queue, and every inbox a ring.                          *)
(***************************************************************************)
LEMMA SizeOK == EVENT_QUEUE_SIZE \in Nat /\ EVENT_QUEUE_SIZE >= 2
BY EventsAssumption

(***************************************************************************)
(* Every inbox is a ring of event types.                                   *)
(***************************************************************************)
LEMMA InboxRing ==
  ASSUME EventsTypeOK, NEW p \in Programs
  PROVE  IsRing(EVENT_QUEUE_SIZE, inbox[p], Item)
BY DEF EventsTypeOK, IsRing, Item

(***************************************************************************)
(* A put keeps the invariant: it writes at the head, which is not the slot *)
(* behind the tail unless the queue is full.                               *)
(***************************************************************************)
LEMMA PutKeepsInv ==
  ASSUME EventsInv, NEW p \in Programs, NEW type \in EventTypes, EventsPut(p, type),
         UNCHANGED <<poll, answer, exited>>,
         sendevent' = NoTarget \/ sendevent' = sendevent
  PROVE  EventsInv'
<1> DEFINE N == EVENT_QUEUE_SIZE
<1>1. CASE Full(N, inbox[p])
  <2>1. UNCHANGED <<inbox, event_pending, sends>> BY <1>1 DEF EventsPut
  <2> QED BY <2>1 DEF EventsInv, EventsTypeOK, PendingExact, AnswerIntact, SlotBehindTail, Returned
<1>2. CASE ~Full(N, inbox[p])
  <2>1. /\ inbox' = [inbox EXCEPT ![p] = Put(N, inbox[p], type)]
        /\ event_pending' = [event_pending EXCEPT ![p] = TRUE]
        /\ sends' = sends + 1
    BY <1>2 DEF EventsPut
  <2>2. IsRing(N, inbox[p], Item) BY InboxRing DEF EventsInv
  <2>3. IsRing(N, Put(N, inbox[p], type), Item) BY <2>2, SizeOK, PutIsRing DEF Item
  <2>4. EventsTypeOK'
    <3>1. inbox' \in [Programs -> [buf : [0 .. N - 1 -> Item], head : 0 .. N - 1,
                                   tail : 0 .. N - 1]]
      BY <2>1, <2>3 DEF EventsInv, EventsTypeOK, IsRing, Item
    <3>2. event_pending' \in [Programs -> BOOLEAN] /\ sends' \in Nat
      BY <2>1 DEF EventsInv, EventsTypeOK
    <3> QED BY <3>1, <3>2 DEF EventsInv, EventsTypeOK, Item
  <2>5. /\ inbox'[p].head = After(N, inbox[p].head) /\ inbox'[p].tail = inbox[p].tail
        /\ inbox'[p].buf = [inbox[p].buf EXCEPT ![inbox[p].head] = type]
        /\ \A q \in Programs \ {p} : inbox'[q] = inbox[q]
    BY <2>1 DEF EventsInv, EventsTypeOK, Put
  <2>6. PendingExact'
    <3>1. ~IsEmpty(inbox'[p]) BY <1>2, <2>5 DEF Full, IsEmpty
    <3>2. event_pending'[p] /\ \A q \in Programs \ {p} : event_pending'[q] = event_pending[q]
      BY <2>1 DEF EventsInv, EventsTypeOK
    <3> QED BY <2>5, <3>1, <3>2 DEF EventsInv, PendingExact
  <2>7. SlotBehindTail' BY <2>5 DEF EventsInv, SlotBehindTail
  <2>8. AnswerIntact'
    <3> SUFFICES ASSUME NEW q \in Programs, poll[q].pc = "return"
                 PROVE  inbox'[q].buf[poll[q].slot] = poll[q].copy
      BY DEF AnswerIntact, Returned
    <3>1. inbox[q].buf[poll[q].slot] = poll[q].copy BY DEF EventsInv, AnswerIntact, Returned
    <3>2. CASE q # p BY <2>5, <3>1, <3>2
    <3>3. CASE q = p
      <4>1. poll[p].slot # inbox[p].head
        BY <1>2, <3>3 DEF EventsInv, SlotBehindTail, Full
      <4>2. poll[p].slot \in 0 .. N - 1 /\ inbox[p].buf \in [0 .. N - 1 -> Item]
        BY DEF EventsInv, EventsTypeOK, Item
      <4> QED BY <2>5, <3>1, <3>3, <4>1, <4>2
    <3> QED BY <3>2, <3>3
  <2> QED BY <2>4, <2>6, <2>7, <2>8 DEF EventsInv
<1> QED BY <1>1, <1>2

(***************************************************************************)
(* Steps of a poll.  Taking an event makes its slot the one behind the     *)
(* tail; no other step of a poll touches an inbox.                         *)
(***************************************************************************)
LEMMA TakeKeepsInv ==
  ASSUME EventsInv, NEW p \in Programs, PollTake(p)
  PROVE  EventsInv'
<1> DEFINE N == EVENT_QUEUE_SIZE
<1>1. /\ poll[p].pc = "loop" /\ ~IsEmpty(inbox[p])
      /\ inbox' = [inbox EXCEPT ![p] = DropFirst(N, inbox[p])]
      /\ event_pending' = [event_pending EXCEPT ![p] = event_pending[p] /\ ~IsEmpty(inbox'[p])]
      /\ poll' = [poll EXCEPT ![p] = Progress("return", poll[p].mask, poll[p].timed,
                                           inbox[p].tail, First(inbox[p]))]
      /\ UNCHANGED <<answer, exited, sendevent, sends>>
  BY DEF PollTake, Waiting
<1>2. IsRing(N, inbox[p], Item) BY InboxRing DEF EventsInv
<1>3. IsRing(N, DropFirst(N, inbox[p]), Item) BY <1>2, SizeOK, DropIsRing
<1>4. inbox' \in [Programs -> [buf : [0 .. N - 1 -> Item], head : 0 .. N - 1, tail : 0 .. N - 1]]
  BY <1>1, <1>3 DEF EventsInv, EventsTypeOK, IsRing, Item
<1>5. event_pending' \in [Programs -> BOOLEAN] BY <1>1, Zenon DEF EventsInv, EventsTypeOK
<1>6. First(inbox[p]) \in Item /\ inbox[p].tail \in 0 .. N - 1 BY <1>2 DEF First, IsRing
<1>7. poll' \in [Programs -> Reached]
  <2>1. poll[p] \in Reached BY DEF EventsInv, EventsTypeOK, Item, Reached
  <2>2. poll[p].mask \in PollMasks \cup {0} /\ poll[p].timed \in BOOLEAN BY <2>1 DEF Reached
  <2>3. Progress("return", poll[p].mask, poll[p].timed, inbox[p].tail, First(inbox[p])) \in Reached
    BY <1>6, <2>2 DEF Progress, Reached
  <2> QED BY <1>1, <2>3, Zenon DEF EventsInv, EventsTypeOK, Item, Reached
<1>8. EventsTypeOK' BY <1>1, <1>4, <1>5, <1>7 DEF EventsInv, EventsTypeOK, Item, Reached
<1>9. /\ inbox'[p].tail = After(N, inbox[p].tail) /\ inbox'[p].buf = inbox[p].buf
      /\ poll'[p].pc = "return" /\ poll'[p].slot = inbox[p].tail
      /\ poll'[p].copy = First(inbox[p])
      /\ \A q \in Programs \ {p} : inbox'[q] = inbox[q] /\ poll'[q] = poll[q]
  BY <1>1 DEF EventsInv, EventsTypeOK, DropFirst, Progress
<1>10. PendingExact'
  <2>1. event_pending'[p] = (event_pending[p] /\ ~IsEmpty(inbox'[p]))
    BY <1>1, Zenon DEF EventsInv, EventsTypeOK
  <2>2. \A q \in Programs \ {p} : event_pending'[q] = event_pending[q]
    BY <1>1, Zenon DEF EventsInv, EventsTypeOK
  <2>3. event_pending[p] = TRUE BY <1>1, Zenon DEF EventsInv, EventsTypeOK, PendingExact
  <2> QED BY <1>9, <2>1, <2>2, <2>3 DEF EventsInv, PendingExact
<1>11. SlotBehindTail' BY <1>9 DEF EventsInv, SlotBehindTail
<1>12. AnswerIntact' BY <1>9 DEF EventsInv, AnswerIntact, Returned, First
<1> QED BY <1>8, <1>10, <1>11, <1>12 DEF EventsInv

(***************************************************************************)
(* A turn of the loop of sys_event_poll that finds nothing, or times out,  *)
(* keeps the invariant.                                                    *)
(***************************************************************************)
LEMMA NothingKeepsInv ==
  ASSUME EventsInv, NEW p \in Programs, PollNothing(p)
  PROVE  EventsInv'
<1>1. /\ poll[p].pc = "loop"
      /\ event_pending' = [event_pending EXCEPT ![p] = event_pending[p] /\ ~IsEmpty(inbox[p])]
      /\ UNCHANGED <<inbox, answer, exited, sendevent, sends>>
      /\ poll' = poll \/ poll' = [poll EXCEPT ![p] = IF poll[p].timed THEN Outside ELSE poll[p]]
  BY DEF PollNothing
<1>2. event_pending' \in [Programs -> BOOLEAN] BY <1>1, Zenon DEF EventsInv, EventsTypeOK
<1>3. Outside \in Reached BY SizeOK DEF Outside, Progress, Item, Reached
<1>4. poll' \in [Programs -> Reached]
  BY <1>1, <1>3, Zenon DEF EventsInv, EventsTypeOK, Item, Reached
<1>5. EventsTypeOK' BY <1>1, <1>2, <1>4 DEF EventsInv, EventsTypeOK, Item, Reached
<1>6. poll'[p].pc # "return" /\ \A q \in Programs \ {p} : poll'[q] = poll[q]
  BY <1>1 DEF EventsInv, EventsTypeOK, Outside, Progress
<1>7. PendingExact'
  <2>1. event_pending'[p] = (event_pending[p] /\ ~IsEmpty(inbox[p]))
    BY <1>1, Zenon DEF EventsInv, EventsTypeOK
  <2>2. \A q \in Programs \ {p} : event_pending'[q] = event_pending[q]
    BY <1>1, Zenon DEF EventsInv, EventsTypeOK
  <2> QED BY <1>1, <2>1, <2>2 DEF EventsInv, PendingExact
<1>8. SlotBehindTail' /\ AnswerIntact'
  BY <1>1, <1>6 DEF EventsInv, SlotBehindTail, AnswerIntact, Returned
<1> QED BY <1>5, <1>7, <1>8 DEF EventsInv

(***************************************************************************)
(* Reading the answer after sti keeps the invariant.                       *)
(***************************************************************************)
LEMMA ReturnKeepsInv ==
  ASSUME EventsInv, NEW p \in Programs, PollReturn(p)
  PROVE  EventsInv'
<1> DEFINE Again == Looping(poll[p].mask, poll[p].timed)
<1>1. /\ answer' = [answer EXCEPT ![p] = Returned(p)]
      /\ poll' = [poll EXCEPT ![p] = Again] \/ poll' = [poll EXCEPT ![p] = Outside]
      /\ exited' = exited \/ exited' = exited \cup {p}
      /\ UNCHANGED <<inbox, event_pending, sendevent, sends>>
  BY DEF PollReturn, AfterReturn
<1>2. poll[p] \in Reached BY DEF EventsInv, EventsTypeOK, Item, Reached
<1>3. Outside \in Reached /\ Again \in Reached
  BY <1>2, SizeOK DEF Outside, Looping, Progress, Item, Reached
<1>4. Outside.pc = "out" /\ Again.pc = "loop" BY DEF Outside, Looping, Progress
<1>5. poll' \in [Programs -> Reached]
  BY <1>1, <1>3, Zenon DEF EventsInv, EventsTypeOK, Item, Reached
<1>6. poll'[p].pc # "return" /\ \A q \in Programs \ {p} : poll'[q] = poll[q]
  BY <1>1, <1>4 DEF EventsInv, EventsTypeOK
<1>7. Returned(p) \in Item
  <2>1. IsRing(EVENT_QUEUE_SIZE, inbox[p], Item) BY InboxRing DEF EventsInv
  <2> QED BY <1>2, <2>1 DEF Returned, IsRing, Reached
<1>8. answer' \in [Programs -> Item] BY <1>1, <1>7 DEF EventsInv, EventsTypeOK, Item
<1>9. EventsTypeOK' BY <1>1, <1>5, <1>8 DEF EventsInv, EventsTypeOK, Item, Reached
<1>10. PendingExact' /\ SlotBehindTail' /\ AnswerIntact'
  BY <1>1, <1>6 DEF EventsInv, PendingExact, SlotBehindTail, AnswerIntact, Returned
<1> QED BY <1>9, <1>10 DEF EventsInv

(***************************************************************************)
(* A call of sys_event_poll keeps the invariant.                           *)
(***************************************************************************)
LEMMA StartKeepsInv ==
  ASSUME EventsInv, NEW p \in Pollers, NEW mask \in PollMasks, NEW timed \in BOOLEAN,
         PollStart(p, mask, timed)
  PROVE  EventsInv'
<1> DEFINE Started == Looping(mask, timed)
<1>1. /\ poll' = [poll EXCEPT ![p] = Started]
      /\ UNCHANGED <<inbox, event_pending, answer, exited, sendevent, sends>>
  BY DEF PollStart
<1>2. p \in Programs BY EventsAssumption
<1>4. Started \in Reached /\ Started.pc = "loop" BY SizeOK DEF Looping, Progress, Reached, Item
<1>5. poll' \in [Programs -> Reached]
  BY <1>1, <1>4, Zenon DEF EventsInv, EventsTypeOK, Item, Reached
<1>6. poll'[p].pc # "return" /\ \A q \in Programs \ {p} : poll'[q] = poll[q]
  BY <1>1, <1>2, <1>4 DEF EventsInv, EventsTypeOK
<1>7. EventsTypeOK' BY <1>1, <1>5 DEF EventsInv, EventsTypeOK, Item, Reached
<1>8. PendingExact' /\ SlotBehindTail' /\ AnswerIntact'
  BY <1>1, <1>6 DEF EventsInv, PendingExact, SlotBehindTail, AnswerIntact, Returned
<1> QED BY <1>7, <1>8 DEF EventsInv

-----------------------------------------------------------------------------
(***************************************************************************)
(* The invariant holds initially.                                          *)
(***************************************************************************)
LEMMA InitInv == EventsInit => EventsInv
<1> SUFFICES ASSUME EventsInit PROVE EventsInv OBVIOUS
<1>1. EventsTypeOK
  BY SizeOK, EventsAssumption DEF EventsInit, EventsTypeOK, Empty, Outside, Progress
<1>2. PendingExact BY DEF EventsInit, PendingExact, Empty, IsEmpty
<1>3. \A p \in Programs : poll[p].pc = "out" BY DEF EventsInit, Outside, Progress
<1>4. AnswerIntact /\ SlotBehindTail BY <1>3 DEF AnswerIntact, SlotBehindTail
<1> QED BY <1>1, <1>2, <1>4 DEF EventsInv

(***************************************************************************)
(* Every step keeps the invariant.                                         *)
(***************************************************************************)
LEMMA StepInv == EventsInv /\ [EventsNext]_eventVars => EventsInv'
<1> SUFFICES ASSUME EventsInv, [EventsNext]_eventVars PROVE EventsInv' OBVIOUS
<1>1. ASSUME NEW s \in Programs, NEW p \in Programs, NEW type \in EventTypes,
             sys_event_send(s, p, type)
      PROVE  EventsInv'
  BY <1>1, PutKeepsInv DEF sys_event_send
<1>2. ASSUME NEW p \in Programs, NEW type \in EventTypes, SendEventFinds(p, type)
      PROVE  EventsInv'
  <2>1. sendevent' \in [to : Programs, type : EventTypes] BY <1>2 DEF SendEventFinds
  <2> QED BY <1>2, <2>1 DEF SendEventFinds, EventsInv, EventsTypeOK, PendingExact, AnswerIntact,
                           SlotBehindTail, Returned
<1>3. ASSUME SendEventPuts PROVE EventsInv'
  <2>1. sendevent.to \in Programs /\ sendevent.type \in EventTypes
    BY <1>3 DEF SendEventPuts, EventsInv, EventsTypeOK
  <2> QED BY <1>3, <2>1, PutKeepsInv DEF SendEventPuts
<1>4. ASSUME NEW p \in Programs, EventsExit(p) PROVE EventsInv'
  BY <1>4 DEF EventsExit, EventsInv, EventsTypeOK, PendingExact, AnswerIntact, SlotBehindTail,
              Returned
<1>5. CASE UNCHANGED eventVars
  BY <1>5 DEF eventVars, EventsInv, EventsTypeOK, PendingExact, AnswerIntact, SlotBehindTail,
              Returned
<1> QED BY <1>1, <1>2, <1>3, <1>4, <1>5, StartKeepsInv, NothingKeepsInv, TakeKeepsInv,
           ReturnKeepsInv DEF EventsNext, PollStep

(***************************************************************************)
(* The inboxes keep their types and their indices stay inside the queue.   *)
(***************************************************************************)
THEOREM EventsTypeCorrect == EventsSpec => []EventsTypeOK
<1>1. EventsInv => EventsTypeOK BY DEF EventsInv
<1> QED BY <1>1, InitInv, StepInv, PTL DEF EventsSpec

(***************************************************************************)
(* event_pending is set exactly while the inbox holds something.           *)
(***************************************************************************)
THEOREM PendingCorrect == EventsSpec => []PendingExact
<1>1. EventsInv => PendingExact BY DEF EventsInv
<1> QED BY <1>1, InitInv, StepInv, PTL DEF EventsSpec

(***************************************************************************)
(* The answer that process_event_poll reads after sti, out of the slot it  *)
(* has given back, is the event it took, whoever sends in between.         *)
(***************************************************************************)
THEOREM AnswerCorrect == EventsSpec => []AnswerIntact
<1>1. EventsInv => AnswerIntact BY DEF EventsInv
<1> QED BY <1>1, InitInv, StepInv, PTL DEF EventsSpec

-----------------------------------------------------------------------------
(***************************************************************************)
(* A put appends to the queue of its task, or is refused and changes       *)
(* nothing.                                                                *)
(***************************************************************************)
LEMMA PutAccepts ==
  ASSUME EventsInv, EventsInv', NEW p \in Programs, NEW type \in EventTypes, EventsPut(p, type),
         UNCHANGED <<poll, answer>>
  PROVE  [Inboxes!Next]_<<InboxQueue, InboxTaken>>
<1> DEFINE N == EVENT_QUEUE_SIZE
<1>1. InboxTaken' = InboxTaken
  <2> SUFFICES ASSUME NEW q \in Programs
               PROVE  (IF poll[q].pc = "return" THEN Returned(q) ELSE answer[q])' =
                      (IF poll[q].pc = "return" THEN Returned(q) ELSE answer[q])
    BY DEF InboxTaken
  <2>1. poll'[q] = poll[q] /\ answer'[q] = answer[q] OBVIOUS
  <2>2. CASE poll[q].pc = "return"
    <3>1. Returned(q) = poll[q].copy BY <2>2 DEF EventsInv, AnswerIntact
    <3>2. Returned(q)' = poll'[q].copy BY <2>1, <2>2 DEF EventsInv, AnswerIntact
    <3> QED BY <2>1, <3>1, <3>2
  <2> QED BY <2>1, <2>2
<1>2. CASE Full(N, inbox[p])
  <2>1. inbox' = inbox BY <1>2 DEF EventsPut
  <2>2. InboxQueue' = InboxQueue BY <2>1 DEF InboxQueue
  <2> QED BY <1>1, <2>2
<1>3. CASE ~Full(N, inbox[p])
  <2>1. inbox' = [inbox EXCEPT ![p] = Put(N, inbox[p], type)] BY <1>3 DEF EventsPut
  <2>2. IsRing(N, inbox[p], Item) BY InboxRing DEF EventsInv
  <2>3. Contents(N, Put(N, inbox[p], type)) = Append(Contents(N, inbox[p]), type)
    BY <1>3, <2>2, SizeOK, PutAppends DEF Item
  <2>4. Len(InboxQueue[p]) < N - 1
    <3>1. Held(N, inbox[p]) \in 0 .. N - 1 /\ Held(N, inbox[p]) # N - 1
      BY <1>3, <2>2, SizeOK, HeldBounds
    <3>2. Len(Contents(N, inbox[p])) = Held(N, inbox[p]) BY <2>2, SizeOK, ContentsSeq
    <3> QED BY <3>1, <3>2, SizeOK DEF InboxQueue
  <2>5. InboxQueue' = [InboxQueue EXCEPT ![p] = Append(InboxQueue[p], type)]
    BY <2>1, <2>3 DEF InboxQueue, EventsInv, EventsTypeOK
  <2>6. Inboxes!Accept(p, type) BY <1>1, <2>4, <2>5 DEF Inboxes!Accept
  <2> QED BY <2>6 DEF Inboxes!Next
<1> QED BY <1>2, <1>3

(***************************************************************************)
(* Steps that leave the inboxes alone and finish no poll change nothing    *)
(* that the queues' owners see; taking is Take.                            *)
(***************************************************************************)
LEMMA QuietStep ==
  ASSUME EventsInv, UNCHANGED <<inbox, answer>>,
         \A q \in Programs : poll'[q] = poll[q] \/ (poll[q].pc # "return" /\ poll'[q].pc # "return")
  PROVE  UNCHANGED <<InboxQueue, InboxTaken>>
<1>1. InboxQueue' = InboxQueue BY DEF InboxQueue
<1>2. ASSUME NEW q \in Programs
      PROVE  (IF poll[q].pc = "return" THEN Returned(q) ELSE answer[q])' =
             (IF poll[q].pc = "return" THEN Returned(q) ELSE answer[q])
  BY DEF Returned
<1> QED BY <1>1, <1>2 DEF InboxTaken

(***************************************************************************)
(* process_event_poll taking an event takes the head of the abstract       *)
(* queue.                                                                  *)
(***************************************************************************)
LEMMA TakeTakes ==
  ASSUME EventsInv, NEW p \in Programs, PollTake(p)
  PROVE  Inboxes!Take(p)
<1> DEFINE N == EVENT_QUEUE_SIZE
<1>1. /\ ~IsEmpty(inbox[p]) /\ UNCHANGED answer
      /\ inbox' = [inbox EXCEPT ![p] = DropFirst(N, inbox[p])]
      /\ poll' = [poll EXCEPT ![p] = Progress("return", poll[p].mask, poll[p].timed,
                                              inbox[p].tail, First(inbox[p]))]
  BY DEF PollTake, Waiting
<1>2. IsRing(N, inbox[p], Item) BY InboxRing DEF EventsInv
<1>3. /\ Contents(N, inbox[p]) # <<>>
      /\ First(inbox[p]) = Head(Contents(N, inbox[p]))
      /\ Contents(N, DropFirst(N, inbox[p])) = Tail(Contents(N, inbox[p]))
  BY <1>1, <1>2, SizeOK, DropTakesHead
<1>4. InboxQueue' = [InboxQueue EXCEPT ![p] = Tail(InboxQueue[p])]
  BY <1>1, <1>3 DEF InboxQueue, EventsInv, EventsTypeOK
<1>5. /\ inbox'[p].buf = inbox[p].buf
      /\ poll'[p].pc = "return" /\ poll'[p].slot = inbox[p].tail
      /\ \A q \in Programs \ {p} : inbox'[q] = inbox[q] /\ poll'[q] = poll[q]
  BY <1>1 DEF EventsInv, EventsTypeOK, DropFirst, Progress
<1>6. InboxTaken' = [InboxTaken EXCEPT ![p] = Head(InboxQueue[p])]
  <2>1. Returned(p)' = First(inbox[p]) BY <1>5 DEF Returned, First
  <2>2. \A q \in Programs \ {p} : Returned(q)' = Returned(q) BY <1>5 DEF Returned
  <2>3. Head(InboxQueue[p]) = First(inbox[p]) BY <1>3 DEF InboxQueue
  <2> QED BY <1>1, <1>5, <2>1, <2>2, <2>3 DEF InboxTaken
<1>7. InboxQueue[p] # <<>> BY <1>3 DEF InboxQueue
<1> QED BY <1>4, <1>6, <1>7 DEF Inboxes!Take

(***************************************************************************)
(* The empty inboxes are empty queues.                                     *)
(***************************************************************************)
LEMMA InboxesInit == EventsInit => Inboxes!Init
<1> SUFFICES ASSUME EventsInit PROVE Inboxes!Init OBVIOUS
<1>1. ASSUME NEW p \in Programs PROVE Contents(EVENT_QUEUE_SIZE, inbox[p]) = <<>>
  <2>1. EventsTypeOK BY InitInv DEF EventsInv
  <2>2. IsRing(EVENT_QUEUE_SIZE, inbox[p], Item) BY <2>1, InboxRing
  <2>3. IsEmpty(inbox[p]) BY DEF EventsInit, Empty, IsEmpty
  <2>4. Held(EVENT_QUEUE_SIZE, inbox[p]) = 0 BY <2>2, <2>3, SizeOK, HeldBounds
  <2>5. /\ Contents(EVENT_QUEUE_SIZE, inbox[p]) \in Seq(Item)
        /\ Len(Contents(EVENT_QUEUE_SIZE, inbox[p])) = 0
    BY <2>2, <2>4, SizeOK, ContentsSeq
  <2> QED BY <2>5
<1>2. \A p \in Programs : poll[p].pc = "out" BY DEF EventsInit, Outside, Progress
<1>3. InboxTaken \in [Programs -> EventTypes \cup {NoEvent}]
  BY <1>2 DEF InboxTaken, EventsInit
<1> QED BY <1>1, <1>3 DEF Inboxes!Init, InboxQueue

(***************************************************************************)
(* Every step is a step of the abstract queues or leaves them as they are. *)
(***************************************************************************)
LEMMA InboxesStep ==
  EventsInv /\ [EventsNext]_eventVars => [Inboxes!Next]_<<InboxQueue, InboxTaken>>
<1> SUFFICES ASSUME EventsInv, [EventsNext]_eventVars
             PROVE  [Inboxes!Next]_<<InboxQueue, InboxTaken>>
  OBVIOUS
<1>0. EventsInv' BY StepInv
<1>1. ASSUME NEW s \in Programs, NEW p \in Programs, NEW type \in EventTypes,
             sys_event_send(s, p, type)
      PROVE  [Inboxes!Next]_<<InboxQueue, InboxTaken>>
  BY <1>0, <1>1, PutAccepts DEF sys_event_send
<1>2. ASSUME NEW p \in Programs, NEW type \in EventTypes, SendEventFinds(p, type)
      PROVE  UNCHANGED <<InboxQueue, InboxTaken>>
  BY <1>2, QuietStep DEF SendEventFinds
<1>3. ASSUME SendEventPuts PROVE [Inboxes!Next]_<<InboxQueue, InboxTaken>>
  <2>1. sendevent.to \in Programs /\ sendevent.type \in EventTypes
    BY <1>3 DEF SendEventPuts, EventsInv, EventsTypeOK
  <2> QED BY <1>0, <1>3, <2>1, PutAccepts DEF SendEventPuts
<1>4. ASSUME NEW p \in Pollers, NEW mask \in PollMasks, NEW timed \in BOOLEAN,
             PollStart(p, mask, timed)
      PROVE  UNCHANGED <<InboxQueue, InboxTaken>>
  <2>1. p \in Programs BY EventsAssumption
  <2>2. /\ poll[p].pc = "out" /\ poll'[p].pc = "loop"
        /\ \A q \in Programs \ {p} : poll'[q] = poll[q]
    BY <1>4, <2>1 DEF PollStart, Looping, Progress, EventsInv, EventsTypeOK
  <2> QED BY <1>4, <2>2, QuietStep DEF PollStart
<1>5. ASSUME NEW p \in Programs, PollNothing(p) PROVE UNCHANGED <<InboxQueue, InboxTaken>>
  <2>1. poll' = poll \/ poll' = [poll EXCEPT ![p] = IF poll[p].timed THEN Outside ELSE poll[p]]
    BY <1>5 DEF PollNothing
  <2>2. /\ poll[p].pc = "loop" /\ poll'[p].pc # "return"
        /\ \A q \in Programs \ {p} : poll'[q] = poll[q]
    BY <1>5, <2>1 DEF PollNothing, Outside, Progress, EventsInv, EventsTypeOK
  <2> QED BY <1>5, <2>2, QuietStep DEF PollNothing
<1>6. ASSUME NEW p \in Programs, PollReturn(p) PROVE UNCHANGED <<InboxQueue, InboxTaken>>
  <2>1. /\ poll[p].pc = "return" /\ UNCHANGED inbox
        /\ answer' = [answer EXCEPT ![p] = Returned(p)]
        /\ \/ poll' = [poll EXCEPT ![p] = Looping(poll[p].mask, poll[p].timed)]
           \/ poll' = [poll EXCEPT ![p] = Outside]
    BY <1>6 DEF PollReturn, AfterReturn
  <2>2. poll'[p].pc # "return" /\ \A q \in Programs \ {p} : poll'[q] = poll[q]
    BY <2>1 DEF Looping, Outside, Progress, EventsInv, EventsTypeOK
  <2>3. answer'[p] = Returned(p) /\ \A q \in Programs \ {p} : answer'[q] = answer[q]
    BY <2>1 DEF EventsInv, EventsTypeOK
  <2>4. \A q \in Programs \ {p} : Returned(q)' = Returned(q) BY <2>1, <2>2 DEF Returned
  <2> QED BY <2>1, <2>2, <2>3, <2>4 DEF InboxQueue, InboxTaken
<1>7. ASSUME NEW p \in Programs, PollTake(p) PROVE Inboxes!Next
  BY <1>7, TakeTakes DEF Inboxes!Next
<1>8. ASSUME NEW p \in Programs, EventsExit(p) PROVE UNCHANGED <<InboxQueue, InboxTaken>>
  BY <1>8, QuietStep DEF EventsExit
<1>9. CASE UNCHANGED eventVars
  BY <1>9, QuietStep DEF eventVars
<1> QED BY <1>1, <1>2, <1>3, <1>4, <1>5, <1>6, <1>7, <1>8, <1>9 DEF EventsNext, PollStep

(***************************************************************************)
(* process_event_send and process_event_poll implement bounded queues, one *)
(* per task: nothing accepted is lost, repeated, reordered or altered      *)
(* before the program has its answer.                                      *)
(***************************************************************************)
THEOREM InboxesImplementQueues == EventsSpec => InboxesAreQueues
<1>1. EventsSpec => []EventsInv BY InitInv, StepInv, PTL DEF EventsSpec
<1> QED BY <1>1, InboxesInit, InboxesStep, PTL DEF EventsSpec, InboxesAreQueues, Inboxes!Spec

-----------------------------------------------------------------------------
(***************************************************************************)
(* The line editor.                                                        *)
(***************************************************************************)

(***************************************************************************)
(* A number below twice the size of a ring wraps at most once.             *)
(***************************************************************************)
LEMMA WrapsOnce ==
  ASSUME NEW n \in Nat, n >= 1, NEW a \in Nat, a < 2 * n
  PROVE  a % n = IF a < n THEN a ELSE a - n
<1>1. CASE a < n BY <1>1, SMT
<1>2. CASE a >= n
  <2>1. a = n * 1 + (a - n) BY <1>2
  <2>2. a - n \in 0 .. n - 1 BY <1>2
  <2> QED BY <1>2, <2>1, <2>2, SMT
<1> QED BY <1>1, <1>2

\* The index of the command entered k commands before the last one, when the
\* next one goes to i.
EntryAt(i, k) == IF k < i THEN i - k - 1 ELSE i - k - 1 + HIST_MAX

(***************************************************************************)
(* The remainder in the arrow keys' index is that subtraction.             *)
(***************************************************************************)
LEMMA EntryWraps ==
  ASSUME NEW i \in 0 .. HIST_MAX - 1, NEW k \in 0 .. HIST_MAX - 1
  PROVE  /\ (i - k - 1 + HIST_MAX) % HIST_MAX = EntryAt(i, k)
         /\ EntryAt(i, k) \in 0 .. HIST_MAX - 1
<1> USE LineAssumption
<1> DEFINE a == i - k - 1 + HIST_MAX
<1>1. a \in Nat /\ a < 2 * HIST_MAX OBVIOUS
<1>2. a % HIST_MAX = IF a < HIST_MAX THEN a ELSE a - HIST_MAX BY <1>1, WrapsOnce
<1> QED BY <1>2 DEF EntryAt

(***************************************************************************)
(* After a command has gone to i, the entries seen from the next index are *)
(* that command and the ones seen before, one further away.                *)
(***************************************************************************)
LEMMA EntryShifts ==
  ASSUME NEW i \in 0 .. HIST_MAX - 1
  PROVE  /\ (i + 1) % HIST_MAX \in 0 .. HIST_MAX - 1
         /\ EntryAt((i + 1) % HIST_MAX, 0) = i
         /\ \A k \in 1 .. HIST_MAX - 1 :
              /\ EntryAt((i + 1) % HIST_MAX, k) = EntryAt(i, k - 1)
              /\ EntryAt(i, k - 1) # i
<1> USE LineAssumption
<1>1. (i + 1) % HIST_MAX = IF i + 1 < HIST_MAX THEN i + 1 ELSE i + 1 - HIST_MAX
  <2> DEFINE a == i + 1
  <2>1. a \in Nat /\ a < 2 * HIST_MAX OBVIOUS
  <2>2. a % HIST_MAX = IF a < HIST_MAX THEN a ELSE a - HIST_MAX
    <3> HIDE DEF a
    <3> QED BY <2>1, WrapsOnce
  <2> QED BY <2>2
<1> QED BY <1>1 DEF EntryAt

(***************************************************************************)
(* The first m characters of a line are a line of m characters.            *)
(***************************************************************************)
LEMMA Shortened ==
  ASSUME NEW S, NEW s \in Seq(S), NEW m \in 0 .. Len(s)
  PROVE  SubSeq(s, 1, m) \in Seq(S) /\ Len(SubSeq(s, 1, m)) = m
<1>1. 1 \in Int /\ m \in Int OBVIOUS
<1>2. \A i \in 1 .. m : s[i] \in S OBVIOUS
<1>3. SubSeq(s, 1, m) \in Seq(S) BY <1>1, <1>2, SubSeqProperties
<1>4. Len(SubSeq(s, 1, m)) = IF 1 <= m THEN m - 1 + 1 ELSE 0 BY <1>1, <1>2, SubSeqProperties
<1>5. m = IF 1 <= m THEN m - 1 + 1 ELSE 0 OBVIOUS
<1> QED BY <1>3, <1>4, <1>5

\* The types of the line, the history and the prompt.
LineTyped ==
  /\ prompt \in Prompts /\ line \in Seq(Chars)
  /\ hist_buf \in [0 .. HIST_MAX - 1 -> Seq(Chars)] /\ entered \in Seq(Seq(Chars))
  /\ hist_idx \in 0 .. HIST_MAX - 1 /\ hist_count \in 0 .. HIST_MAX
  /\ hist_scroll \in -1 .. hist_count - 1

\* Every entry is a command that fitted the buffer it was typed in.
EntriesFit == \A i \in 0 .. HIST_MAX - 1 : Len(hist_buf[i]) < LINE

\* The ring of entries is the end of the list of commands entered, backwards.
HistoryRemembers ==
  /\ hist_count <= Len(entered)
  /\ \A k \in 0 .. hist_count - 1 :
       hist_buf[EntryAt(hist_idx, k)] = entered[Len(entered) - k]

LineInv == LineTyped /\ EntriesFit /\ HistoryRemembers /\ LineFits

(***************************************************************************)
(* At every prompt there is room for a character and the terminator, and a *)
(* command's buffer is as long as an entry.                                *)
(***************************************************************************)
LEMMA PromptSizes ==
  ASSUME NEW p \in Prompts
  PROVE  /\ p.max_len \in 2 .. LINE
         /\ p.command => p.max_len = LINE
<1> USE LineAssumption
<1>1. CASE p = Command BY <1>1 DEF Command
<1>2. CASE p \in [max_len : Short \cup {LINE}, command : {FALSE}]
  <2>1. p.max_len \in Short \cup {LINE} BY <1>2
  <2>2. p.max_len \in 2 .. LINE
    <3>1. CASE p.max_len \in Short BY <3>1
    <3>2. CASE p.max_len = LINE BY <3>2
    <3> QED BY <2>1, <3>1, <3>2
  <2>3. ~p.command BY <1>2
  <2> QED BY <2>2, <2>3
<1> QED BY <1>1, <1>2 DEF Prompts

(***************************************************************************)
(* The invariant holds when the shell starts.                              *)
(***************************************************************************)
LEMMA LineInitInv == LineInit => LineInv
<1> USE LineAssumption
<1> SUFFICES ASSUME LineInit PROVE LineInv OBVIOUS
<1>1. prompt.max_len \in 2 .. LINE BY PromptSizes DEF LineInit
<1>2. LineTyped BY DEF LineInit, LineTyped
<1>3. EntriesFit BY DEF LineInit, EntriesFit
<1>4. HistoryRemembers BY DEF LineInit, HistoryRemembers
<1>5. LineFits BY <1>1 DEF LineInit, LineFits
<1> QED BY <1>2, <1>3, <1>4, <1>5 DEF LineInv

(***************************************************************************)
(* Recalling an entry keeps the invariant: the entry may be longer than    *)
(* the buffer of the prompt, but then it is a short one.                   *)
(***************************************************************************)
LEMMA RecallKeeps ==
  ASSUME LineInv, NEW s \in 0 .. hist_count - 1, Recall(s)
  PROVE  LineInv'
<1> USE LineAssumption
<1>1. /\ hist_idx \in 0 .. HIST_MAX - 1 /\ hist_count \in 0 .. HIST_MAX
      /\ hist_buf \in [0 .. HIST_MAX - 1 -> Seq(Chars)]
      /\ prompt \in Prompts
  BY DEF LineInv, LineTyped
<1>2. Entry(s) \in 0 .. HIST_MAX - 1
  <2>1. s \in 0 .. HIST_MAX - 1 BY <1>1
  <2> QED BY <1>1, <2>1, EntryWraps DEF Entry
<1>3. line' \in Seq(Chars) /\ Len(line') < LINE
  BY <1>1, <1>2 DEF Recall, LineInv, EntriesFit
<1>4. prompt.max_len \in 2 .. LINE BY <1>1, PromptSizes
<1>5. LineTyped' BY <1>3 DEF LineInv, LineTyped, Recall, history
<1>6. EntriesFit' BY DEF LineInv, EntriesFit, Recall, history
<1>7. HistoryRemembers' BY DEF LineInv, HistoryRemembers, Recall, history
<1>8. LineFits'
  <2>1. overrun' = (Len(line') >= prompt.max_len) /\ hist_scroll' = s /\ prompt' = prompt
    BY DEF Recall
  <2>2. Len(line') \in Nat BY <1>3
  <2>3. CASE Len(line') >= prompt.max_len
    <3>1. overrun' = TRUE BY <2>1, <2>3, Zenon
    <3>2. prompt'.max_len < LINE /\ hist_scroll' >= 0
      BY <1>3, <1>4, <2>1, <2>2, <2>3
    <3> QED BY <3>1, <3>2, Zenon DEF LineFits
  <2>4. CASE Len(line') < prompt.max_len
    <3>1. ~(Len(line') >= prompt.max_len)
      <4>1. Len(line') \in Nat /\ prompt.max_len \in Nat BY <1>4, <2>2
      <4> QED BY <2>4, <4>1
    <3>2. ~overrun' BY <2>1, <3>1, Zenon
    <3>3. Len(line') < prompt'.max_len BY <2>1, <2>4
    <3> QED BY <3>2, <3>3, Zenon DEF LineFits
  <2> QED BY <1>4, <2>2, <2>3, <2>4
<1> QED BY <1>5, <1>6, <1>7, <1>8 DEF LineInv

(***************************************************************************)
(* Entering a line keeps the invariant: a command goes into the ring in    *)
(* place of the oldest, any other line leaves the history alone.           *)
(***************************************************************************)
LEMMA EnterKeeps ==
  ASSUME LineInv, NEW p \in Prompts, Enter(p)
  PROVE  LineInv'
<1> USE LineAssumption
<1>1. /\ hist_idx \in 0 .. HIST_MAX - 1 /\ hist_count \in 0 .. HIST_MAX
      /\ hist_buf \in [0 .. HIST_MAX - 1 -> Seq(Chars)]
      /\ prompt \in Prompts /\ line \in Seq(Chars) /\ entered \in Seq(Seq(Chars))
      /\ hist_scroll \in -1 .. hist_count - 1
  BY DEF LineInv, LineTyped
<1>2. prompt' = p /\ line' = <<>> /\ overrun' = overrun /\ ~overrun BY DEF Enter
<1>3. LineFits'
  <2>1. p.max_len \in 2 .. LINE BY PromptSizes
  <2> QED BY <1>2, <2>1 DEF LineFits
<1>4. CASE prompt.command /\ line # <<>>
  <2> DEFINE c == hist_count
             i == hist_idx
             j == (hist_idx + 1) % HIST_MAX
             n == Len(entered)
  <2>1. /\ hist_buf' = [hist_buf EXCEPT ![i] = line]
        /\ hist_idx' = j
        /\ hist_count' = IF c < HIST_MAX THEN c + 1 ELSE c
        /\ entered' = Append(entered, line)
        /\ hist_scroll' = -1
    BY <1>4 DEF Enter, Remember
  <2>2. Len(line) < LINE
    BY <1>1, <1>2, <1>4, PromptSizes DEF LineInv, LineFits
  <2>3. n \in Nat /\ c <= n BY <1>1 DEF LineInv, HistoryRemembers
  <2>4. j \in 0 .. HIST_MAX - 1 BY <1>1, EntryShifts
  <2>5. entered' \in Seq(Seq(Chars)) /\ Len(entered') = n + 1
    BY <1>1, <2>1
  <2>6. LineTyped' BY <1>1, <1>2, <2>1, <2>4, <2>5 DEF LineTyped
  <2>7. EntriesFit' BY <1>1, <2>1, <2>2 DEF LineInv, EntriesFit
  <2>8. HistoryRemembers'
    <3>1. hist_count' <= Len(entered') BY <1>1, <2>1, <2>3, <2>5
    <3>2. ASSUME NEW k \in 0 .. hist_count' - 1
          PROVE  hist_buf'[EntryAt(j, k)] = entered'[n + 1 - k]
      <4>1. CASE k = 0
        <5>1. EntryAt(j, k) = i BY <1>1, <4>1, EntryShifts
        <5>2. entered'[n + 1] = line BY <1>1, <2>1, <2>3
        <5> QED BY <1>1, <2>1, <2>3, <4>1, <5>1, <5>2
      <4>2. CASE k # 0
        <5>1. k \in 1 .. HIST_MAX - 1 /\ k - 1 \in 0 .. c - 1 BY <1>1, <2>1, <4>2
        <5>2. EntryAt(j, k) = EntryAt(i, k - 1) /\ EntryAt(i, k - 1) # i
          BY <1>1, <5>1, EntryShifts
        <5>3. EntryAt(i, k - 1) \in 0 .. HIST_MAX - 1
          <6>1. k - 1 \in 0 .. HIST_MAX - 1 BY <5>1
          <6> QED BY <1>1, <6>1, EntryWraps
        <5>4. hist_buf'[EntryAt(j, k)] = hist_buf[EntryAt(i, k - 1)]
          BY <1>1, <2>1, <5>2, <5>3
        <5>5. hist_buf[EntryAt(i, k - 1)] = entered[n - (k - 1)]
          BY <5>1 DEF LineInv, HistoryRemembers
        <5>6. n - (k - 1) = n + 1 - k /\ n + 1 - k \in 1 .. n BY <1>1, <2>3, <5>1
        <5>7. entered'[n + 1 - k] = entered[n + 1 - k] BY <1>1, <2>1, <5>6
        <5> QED BY <5>4, <5>5, <5>6, <5>7
      <4> QED BY <4>1, <4>2
    <3> QED BY <2>1, <2>5, <3>1, <3>2 DEF HistoryRemembers
  <2> QED BY <1>3, <2>6, <2>7, <2>8 DEF LineInv
<1>5. CASE ~(prompt.command /\ line # <<>>)
  <2>1. /\ hist_buf' = hist_buf /\ hist_idx' = hist_idx
        /\ hist_count' = hist_count /\ entered' = entered
    BY <1>5 DEF Enter, Remember, history
  <2>2. hist_scroll' \in -1 .. hist_count' - 1 BY <1>1, <2>1 DEF Enter
  <2>3. LineTyped' BY <1>1, <1>2, <2>1, <2>2 DEF LineTyped
  <2>4. EntriesFit' BY <2>1 DEF LineInv, EntriesFit
  <2>5. HistoryRemembers' BY <2>1 DEF LineInv, HistoryRemembers
  <2> QED BY <1>3, <2>3, <2>4, <2>5 DEF LineInv
<1> QED BY <1>4, <1>5

(***************************************************************************)
(* Every key keeps the invariant.                                          *)
(***************************************************************************)
LEMMA LineStep == LineInv /\ [LineNext]_lineVars => LineInv'
<1> USE LineAssumption
<1> SUFFICES ASSUME LineInv, [LineNext]_lineVars PROVE LineInv' OBVIOUS
<1>1. /\ hist_idx \in 0 .. HIST_MAX - 1 /\ hist_count \in 0 .. HIST_MAX
      /\ prompt \in Prompts /\ line \in Seq(Chars)
      /\ hist_scroll \in -1 .. hist_count - 1
  BY DEF LineInv, LineTyped
<1>2. prompt.max_len \in 2 .. LINE BY <1>1, PromptSizes
<1>3. ASSUME /\ UNCHANGED <<prompt, history>> /\ UNCHANGED overrun /\ ~overrun
             /\ line' \in Seq(Chars) /\ Len(line') < prompt.max_len
             /\ hist_scroll' \in -1 .. hist_count - 1
      PROVE  LineInv'
  <2>1. LineTyped' BY <1>3 DEF LineInv, LineTyped, history
  <2>2. EntriesFit' BY <1>3 DEF LineInv, EntriesFit, history
  <2>3. HistoryRemembers' BY <1>3 DEF LineInv, HistoryRemembers, history
  <2>4. LineFits' BY <1>3 DEF LineFits
  <2> QED BY <2>1, <2>2, <2>3, <2>4 DEF LineInv
<1>4. ASSUME NEW c \in Chars, TypeChar(c) PROVE LineInv'
  <2>1. line' \in Seq(Chars) /\ Len(line') < prompt.max_len
    BY <1>1, <1>2, <1>4 DEF TypeChar, LineInv, LineFits
  <2> QED BY <1>1, <1>3, <1>4, <2>1 DEF TypeChar
<1>5. CASE Backspace
  <2>1. Len(line) \in Nat /\ Len(line) >= 1 /\ Len(line) < prompt.max_len
    BY <1>1, <1>5 DEF Backspace, LineInv, LineFits
  <2>2. line' \in Seq(Chars) /\ Len(line') = Len(line) - 1
    <3>1. line' = SubSeq(line, 1, Len(line) - 1) BY <1>5 DEF Backspace
    <3>2. Len(line) - 1 \in 0 .. Len(line) BY <2>1
    <3> QED BY <1>1, <3>1, <3>2, Shortened
  <2>3. Len(line') < prompt.max_len BY <1>2, <2>1, <2>2
  <2> QED BY <1>1, <1>3, <1>5, <2>2, <2>3 DEF Backspace
<1>6. CASE ArrowUp
  <2>1. hist_scroll + 1 \in 0 .. hist_count - 1 BY <1>1, <1>6 DEF ArrowUp
  <2> QED BY <1>6, <2>1, RecallKeeps DEF ArrowUp
<1>7. CASE ArrowDown
  <2>1. hist_scroll - 1 \in 0 .. hist_count - 1 BY <1>1, <1>7 DEF ArrowDown
  <2> QED BY <1>7, <2>1, RecallKeeps DEF ArrowDown
<1>8. CASE ArrowDownOut
  <2>1. line' \in Seq(Chars) /\ Len(line') < prompt.max_len
    BY <1>2, <1>8 DEF ArrowDownOut
  <2> QED BY <1>1, <1>3, <1>8, <2>1 DEF ArrowDownOut
<1>9. CASE UNCHANGED lineVars
  BY <1>9 DEF lineVars, LineInv, LineTyped, EntriesFit, HistoryRemembers, LineFits
<1> QED BY <1>4, <1>5, <1>6, <1>7, <1>8, <1>9, EnterKeeps DEF LineNext

(***************************************************************************)
(* What the invariant says to the user of the shell.                       *)
(***************************************************************************)
LEMMA LineInvImplies == LineInv /\ overrun \in BOOLEAN => LineTypeOK /\ RecallsEntered /\ LineFits
<1> USE LineAssumption
<1> SUFFICES ASSUME LineInv, overrun \in BOOLEAN
             PROVE LineTypeOK /\ RecallsEntered /\ LineFits OBVIOUS
<1>1. /\ hist_idx \in 0 .. HIST_MAX - 1 /\ hist_count \in 0 .. HIST_MAX
      /\ hist_scroll \in -1 .. hist_count - 1 /\ prompt \in Prompts
  BY DEF LineInv, LineTyped
<1>2. LineTypeOK
  <2>1. /\ hist_scroll \in -1 .. HIST_MAX - 1
        /\ hist_idx - hist_scroll - 1 + HIST_MAX >= 0
    BY <1>1
  <2> QED BY <1>1, <2>1, Zenon DEF LineTypeOK, LineInv, EntriesFit
<1>3. RecallsEntered
  <2> SUFFICES ASSUME hist_scroll >= 0 PROVE RecallsEntered BY DEF RecallsEntered
  <2>1. hist_scroll \in 0 .. hist_count - 1 /\ hist_scroll \in 0 .. HIST_MAX - 1 BY <1>1
  <2>2. Entry(hist_scroll) = EntryAt(hist_idx, hist_scroll) BY <1>1, <2>1, EntryWraps DEF Entry
  <2> QED BY <1>1, <2>1, <2>2 DEF RecallsEntered, LineInv, HistoryRemembers
<1> QED BY <1>2, <1>3 DEF LineInv

(***************************************************************************)
(* overrun is a Boolean.                                                   *)
(***************************************************************************)
LEMMA OverrunStep == overrun \in BOOLEAN /\ [LineNext]_lineVars => (overrun \in BOOLEAN)'
<1> SUFFICES ASSUME overrun \in BOOLEAN, [LineNext]_lineVars PROVE overrun' \in BOOLEAN OBVIOUS
<1>1. ASSUME NEW s, Recall(s) PROVE overrun' \in BOOLEAN BY <1>1, SMT DEF Recall
<1>2. ASSUME overrun' = overrun PROVE overrun' \in BOOLEAN BY <1>2, Zenon
<1>3. ASSUME NEW c, TypeChar(c) PROVE overrun' \in BOOLEAN BY <1>2, <1>3 DEF TypeChar
<1>4. ASSUME NEW p, Enter(p) PROVE overrun' \in BOOLEAN BY <1>2, <1>4 DEF Enter
<1>5. CASE Backspace \/ ArrowDownOut BY <1>2, <1>5 DEF Backspace, ArrowDownOut
<1>6. CASE ArrowUp \/ ArrowDown BY <1>1, <1>6, Zenon DEF ArrowUp, ArrowDown
<1>7. CASE UNCHANGED lineVars BY <1>2, <1>7 DEF lineVars
<1> QED BY <1>3, <1>4, <1>5, <1>6, <1>7, Zenon DEF LineNext

(***************************************************************************)
(* The index of a history entry that an arrow key computes is never        *)
(* negative, and no entry is longer than the buffer of a command.          *)
(***************************************************************************)
THEOREM LineTyping == LineSpec => []LineTypeOK
<1>1. LineInit => overrun \in BOOLEAN BY Zenon DEF LineInit
<1> QED BY <1>1, LineInitInv, LineStep, LineInvImplies, OverrunStep, PTL DEF LineSpec

(***************************************************************************)
(* The arrow keys recall the command entered that many commands ago, for   *)
(* every size of the history and every session at prompts of any kind.     *)
(***************************************************************************)
THEOREM ArrowsRecall == LineSpec => []RecallsEntered
<1>1. LineInit => overrun \in BOOLEAN BY Zenon DEF LineInit
<1> QED BY <1>1, LineInitInv, LineStep, LineInvImplies, OverrunStep, PTL DEF LineSpec

(***************************************************************************)
(* A line fits the buffer get_line was given, but where a command was      *)
(* recalled into a buffer shorter than a command's.                        *)
(***************************************************************************)
THEOREM LinesFit == LineSpec => []LineFits
<1>1. LineInv => LineFits BY DEF LineInv
<1> QED BY <1>1, LineInitInv, LineStep, PTL DEF LineSpec

-----------------------------------------------------------------------------
(***************************************************************************)
(* Pipes and typed pipes.                                                  *)
(***************************************************************************)

(***************************************************************************)
(* The numbers up to n + 1 are those up to n and n + 1.                    *)
(***************************************************************************)
LEMMA NumberedNext ==
  ASSUME NEW n \in Nat
  PROVE  /\ Numbered(n) \in Seq(Nat) /\ Len(Numbered(n)) = n
         /\ Numbered(n + 1) = Append(Numbered(n), n + 1)
<1>1. /\ Numbered(n) \in Seq(Nat) /\ Len(Numbered(n)) = n
      /\ Numbered(n + 1) \in Seq(Nat) /\ Len(Numbered(n + 1)) = n + 1
  BY DEF Numbered
<1>2. /\ Append(Numbered(n), n + 1) \in Seq(Nat)
      /\ Len(Append(Numbered(n), n + 1)) = n + 1
      /\ \A k \in 1 .. n : Append(Numbered(n), n + 1)[k] = Numbered(n)[k]
      /\ Append(Numbered(n), n + 1)[n + 1] = n + 1
  BY <1>1, AppendProperties
<1>3. \A k \in 1 .. n + 1 : Numbered(n + 1)[k] = Append(Numbered(n), n + 1)[k]
  BY <1>2 DEF Numbered
<1> QED BY <1>1, <1>2, <1>3, SeqEqual

(***************************************************************************)
(* Moving the head of c to the end of g does not change g followed by c.   *)
(***************************************************************************)
LEMMA ConcatMovesHead ==
  ASSUME NEW S, NEW g \in Seq(S), NEW c \in Seq(S), c # <<>>
  PROVE  /\ Head(c) \in S
         /\ Append(g, Head(c)) \o Tail(c) = g \o c
<1> DEFINE a == Append(g, Head(c))
           t == Tail(c)
<1>1. /\ Head(c) \in S /\ Head(c) = c[1] /\ Len(c) \in Nat /\ Len(c) >= 1
      /\ t \in Seq(S) /\ Len(t) = Len(c) - 1
      /\ \A k \in 1 .. Len(t) : t[k] = c[k + 1]
  BY HeadTailProperties
<1>2. /\ a \in Seq(S) /\ Len(a) = Len(g) + 1 /\ Len(g) \in Nat
      /\ \A k \in 1 .. Len(g) : a[k] = g[k]
      /\ a[Len(g) + 1] = Head(c)
  BY <1>1, AppendProperties
<1> HIDE DEF a, t
<1>3. /\ a \o t \in Seq(S) /\ Len(a \o t) = Len(g) + Len(c)
      /\ \A k \in 1 .. Len(g) + Len(c) :
           (a \o t)[k] = IF k <= Len(a) THEN a[k] ELSE t[k - Len(a)]
  <2>1. Len(a) + Len(t) = Len(g) + Len(c) BY <1>1, <1>2
  <2>2. /\ a \o t \in Seq(S) /\ Len(a \o t) = Len(a) + Len(t)
        /\ \A k \in 1 .. Len(a) + Len(t) :
             (a \o t)[k] = IF k <= Len(a) THEN a[k] ELSE t[k - Len(a)]
    BY <1>1, <1>2, ConcatProperties
  <2> QED BY <2>1, <2>2, Zenon
<1>4. /\ g \o c \in Seq(S) /\ Len(g \o c) = Len(g) + Len(c)
      /\ \A k \in 1 .. Len(g) + Len(c) :
           (g \o c)[k] = IF k <= Len(g) THEN g[k] ELSE c[k - Len(g)]
  BY ConcatProperties
<1>5. ASSUME NEW k \in 1 .. Len(g) + Len(c) PROVE (a \o t)[k] = (g \o c)[k]
  <2>1. CASE k <= Len(g) BY <1>2, <1>3, <1>4, <2>1
  <2>2. CASE k = Len(g) + 1
    <3>1. k - Len(g) = 1 BY <1>2, <2>2
    <3> QED BY <1>1, <1>2, <1>3, <1>4, <2>2, <3>1
  <2>3. CASE k > Len(g) + 1
    <3>1. k - Len(a) \in 1 .. Len(t) /\ (k - Len(a)) + 1 = k - Len(g) BY <1>1, <1>2, <2>3
    <3>2. (a \o t)[k] = t[k - Len(a)] BY <1>2, <1>3, <2>3
    <3>3. (g \o c)[k] = c[k - Len(g)] BY <1>2, <1>4, <2>3
    <3>4. t[k - Len(a)] = c[(k - Len(a)) + 1] BY <1>1, <3>1
    <3> QED BY <3>1, <3>2, <3>3, <3>4
  <2>4. k <= Len(g) \/ k = Len(g) + 1 \/ k > Len(g) + 1
    <3>1. k \in Int /\ Len(g) \in Int OBVIOUS
    <3> QED BY <3>1
  <2> QED BY <2>1, <2>2, <2>3, <2>4
<1>6. a \o t = g \o c BY <1>3, <1>4, <1>5, SeqEqual
<1> QED BY <1>1, <1>6 DEF a, t

(***************************************************************************)
(* Appending to c appends to g followed by c.                              *)
(***************************************************************************)
LEMMA ConcatAppends ==
  ASSUME NEW S, NEW g \in Seq(S), NEW c \in Seq(S), NEW x \in S
  PROVE  g \o Append(c, x) = Append(g \o c, x)
<1> DEFINE a == Append(c, x)
           b == Append(g \o c, x)
<1>1. /\ a \in Seq(S) /\ Len(a) = Len(c) + 1 /\ Len(c) \in Nat /\ Len(g) \in Nat
      /\ \A k \in 1 .. Len(c) : a[k] = c[k]
      /\ a[Len(c) + 1] = x
  BY AppendProperties
<1>2. /\ g \o c \in Seq(S) /\ Len(g \o c) = Len(g) + Len(c)
      /\ \A k \in 1 .. Len(g) + Len(c) :
           (g \o c)[k] = IF k <= Len(g) THEN g[k] ELSE c[k - Len(g)]
  BY ConcatProperties
<1>3. /\ b \in Seq(S) /\ Len(b) = Len(g) + Len(c) + 1
      /\ \A k \in 1 .. Len(g) + Len(c) : b[k] = (g \o c)[k]
      /\ b[Len(g) + Len(c) + 1] = x
  BY <1>1, <1>2, AppendProperties
<1> HIDE DEF a, b
<1>4. /\ g \o a \in Seq(S) /\ Len(g \o a) = Len(g) + Len(c) + 1
      /\ \A k \in 1 .. Len(g) + Len(c) + 1 :
           (g \o a)[k] = IF k <= Len(g) THEN g[k] ELSE a[k - Len(g)]
  <2>1. Len(g) + Len(a) = Len(g) + Len(c) + 1 BY <1>1
  <2>2. /\ g \o a \in Seq(S) /\ Len(g \o a) = Len(g) + Len(a)
        /\ \A k \in 1 .. Len(g) + Len(a) :
             (g \o a)[k] = IF k <= Len(g) THEN g[k] ELSE a[k - Len(g)]
    BY <1>1, ConcatProperties
  <2> QED BY <2>1, <2>2, Zenon
<1>5. ASSUME NEW k \in 1 .. Len(g) + Len(c) + 1 PROVE (g \o a)[k] = b[k]
  <2>1. CASE k <= Len(g)
    <3>1. (g \o a)[k] = g[k] BY <1>4, <2>1
    <3>2. k \in 1 .. Len(g) + Len(c) BY <1>1, <2>1
    <3>3. b[k] = (g \o c)[k] /\ (g \o c)[k] = g[k] BY <1>2, <1>3, <2>1, <3>2
    <3> QED BY <3>1, <3>3
  <2>2. CASE k > Len(g) /\ k <= Len(g) + Len(c)
    <3>1. k - Len(g) \in 1 .. Len(c) BY <1>1, <2>2
    <3>2. k \in 1 .. Len(g) + Len(c) /\ ~(k <= Len(g)) BY <1>1, <2>2
    <3>3. (g \o a)[k] = a[k - Len(g)] BY <1>4, <3>2
    <3>4. b[k] = (g \o c)[k] /\ (g \o c)[k] = c[k - Len(g)] BY <1>2, <1>3, <3>2
    <3> QED BY <1>1, <3>1, <3>3, <3>4
  <2>3. CASE k = Len(g) + Len(c) + 1
    <3>1. k - Len(g) = Len(c) + 1 /\ ~(k <= Len(g)) BY <1>1, <2>3
    <3>2. (g \o a)[k] = a[k - Len(g)] BY <1>4, <3>1
    <3>3. b[k] = x BY <1>3, <2>3
    <3> QED BY <1>1, <3>1, <3>2, <3>3
  <2>4. \/ k <= Len(g)
        \/ k > Len(g) /\ k <= Len(g) + Len(c)
        \/ k = Len(g) + Len(c) + 1
    <3>1. Len(g) \in Nat /\ Len(c) \in Nat OBVIOUS
    <3> QED BY <3>1
  <2> QED BY <2>1, <2>2, <2>3, <2>4
<1> QED BY <1>3, <1>4, <1>5, SeqEqual DEF a, b

(***************************************************************************)
(* Putting the next number into a ring keeps what was got and what the     *)
(* ring holds in order.                                                    *)
(***************************************************************************)
LEMMA PutKeepsOrder ==
  ASSUME NEW n \in Nat, n >= 2, NEW r, IsRing(n, r, Nat), ~Full(n, r),
         NEW g \in Seq(Nat), NEW s \in Nat, g \o Contents(n, r) = Numbered(s)
  PROVE  /\ IsRing(n, Put(n, r, s + 1), Nat)
         /\ g \o Contents(n, Put(n, r, s + 1)) = Numbered(s + 1)
<1>1. Contents(n, r) \in Seq(Nat) /\ s + 1 \in Nat BY ContentsSeq
<1>2. Contents(n, Put(n, r, s + 1)) = Append(Contents(n, r), s + 1) BY <1>1, PutAppends
<1>3. g \o Append(Contents(n, r), s + 1) = Append(g \o Contents(n, r), s + 1)
  BY <1>1, ConcatAppends
<1>4. IsRing(n, Put(n, r, s + 1), Nat) BY <1>1, PutIsRing
<1>5. Numbered(s + 1) = Append(Numbered(s), s + 1) BY NumberedNext
<1> QED BY <1>2, <1>3, <1>4, <1>5

(***************************************************************************)
(* Taking the first number out of a ring keeps that order, too.            *)
(***************************************************************************)
LEMMA DropKeepsOrder ==
  ASSUME NEW n \in Nat, n >= 2, NEW r, IsRing(n, r, Nat), ~IsEmpty(r), NEW g \in Seq(Nat)
  PROVE  /\ IsRing(n, DropFirst(n, r), Nat)
         /\ Append(g, First(r)) \in Seq(Nat)
         /\ Append(g, First(r)) \o Contents(n, DropFirst(n, r)) = g \o Contents(n, r)
<1>1. Contents(n, r) \in Seq(Nat) BY ContentsSeq
<1>2. /\ Contents(n, r) # <<>>
      /\ First(r) = Head(Contents(n, r))
      /\ Contents(n, DropFirst(n, r)) = Tail(Contents(n, r))
  BY DropTakesHead
<1>3. Head(Contents(n, r)) \in Nat BY <1>1, <1>2, ConcatMovesHead
<1> QED BY <1>1, <1>2, <1>3, ConcatMovesHead, DropIsRing

(***************************************************************************)
(* An empty ring holds nothing.                                            *)
(***************************************************************************)
LEMMA FreshInOrder ==
  ASSUME NEW n \in Nat, n >= 2, NEW r, IsRing(n, r, Nat), IsEmpty(r)
  PROVE  <<>> \o Contents(n, r) = Numbered(0)
<1>1. Contents(n, r) \in Seq(Nat) /\ Len(Contents(n, r)) = 0 BY ContentsSeq, HeldBounds
<1>2. Contents(n, r) = <<>> BY <1>1
<1>3. Numbered(0) \in Seq(Nat) /\ Len(Numbered(0)) = 0 BY NumberedNext
<1>4. Numbered(0) = <<>> BY <1>3
<1>5. <<>> \o <<>> = <<>> OBVIOUS
<1> QED BY <1>2, <1>4, <1>5

Pipe == [ring : [buf : [0 .. PIPE_BUF_SIZE - 1 -> Nat], head : 0 .. PIPE_BUF_SIZE - 1,
                 tail : 0 .. PIPE_BUF_SIZE - 1],
         readers : {0, 1}, writers : {0, 1}]
Call == [pc : {"idle", "loop", "test"}, left : Int, total : Int]

\* What holds of a pipe, its calls and its history.  A writer has its end open;
\* a reader that has got 0 bytes had no writer, so from then on the ring only
\* empties: it is empty while the reader looks again, and for good after that.
PipeOK(p, rd, wr, s, g, e) ==
  /\ p \in Pipe /\ rd \in Call /\ wr \in Call /\ s \in Nat /\ g \in Seq(Nat) /\ e \in Nat
  /\ g \o Contents(PIPE_BUF_SIZE, p.ring) = Numbered(s)
  /\ wr.pc # "idle" => p.writers = 1
  /\ e >= 1 => p.writers = 0
  /\ e >= 1 /\ rd.pc = "test" => IsEmpty(p.ring)
  /\ e >= 2 => IsEmpty(p.ring)

PipeInv(id) == PipeOK(pipes[id], reader[id], writer[id], sent[id], received[id], eofs[id])

\* The tables have an entry for every pipe.
PipeTables ==
  /\ pipes \in [PipeId -> Pipe] /\ reader \in [PipeId -> Call] /\ writer \in [PipeId -> Call]
  /\ sent \in [PipeId -> Nat] /\ received \in [PipeId -> Seq(Nat)] /\ eofs \in [PipeId -> Nat]

TypedPipe ==
  [schema : Schemas,
   ring : [buf : [0 .. PIPE_TYPED_CAPACITY - 1 -> Nat], head : 0 .. PIPE_TYPED_CAPACITY - 1,
           tail : 0 .. PIPE_TYPED_CAPACITY - 1],
   sent : Nat, got : Seq(Nat)]

TypedInv ==
  /\ typed \in Seq(TypedPipe)
  /\ \A k \in DOMAIN typed :
       typed[k].got \o Contents(PIPE_TYPED_CAPACITY, typed[k].ring) = Numbered(typed[k].sent)

PipesInv == PipeTables /\ (\A id \in PipeId : PipeInv(id)) /\ pipe_allocated \subseteq PipeId

(***************************************************************************)
(* The invariant holds when the kernel starts.                             *)
(***************************************************************************)
LEMMA PipesInitInv == PipesInit => PipesInv /\ TypedInv
<1> USE PipesAssumption
<1> SUFFICES ASSUME PipesInit PROVE PipesInv /\ TypedInv OBVIOUS
<1> DEFINE r == Empty(PIPE_BUF_SIZE, 0)
           p == [ring |-> r, readers |-> 0, writers |-> 0]
<1>1. /\ pipes = [id \in PipeId |-> p] /\ reader = [id \in PipeId |-> Resting]
      /\ writer = [id \in PipeId |-> Resting] /\ sent = [id \in PipeId |-> 0]
      /\ received = [id \in PipeId |-> <<>>] /\ eofs = [id \in PipeId |-> 0]
      /\ pipe_allocated = {} /\ typed = <<>>
  BY DEF PipesInit
<1>2. IsRing(PIPE_BUF_SIZE, r, Nat) /\ IsEmpty(r) BY DEF Empty, IsRing, IsEmpty
<1>3. p \in Pipe BY <1>2 DEF Pipe, IsRing
<1>4. Resting \in Call BY DEF Resting, Call
<1>5. <<>> \o Contents(PIPE_BUF_SIZE, r) = Numbered(0) BY <1>2, FreshInOrder
<1>6. <<>> \in Seq(Nat) OBVIOUS
<1>7. PipeOK(p, Resting, Resting, 0, <<>>, 0)
  <2>1. p.ring = r /\ Resting.pc = "idle" BY DEF Resting
  <2> QED BY <1>3, <1>4, <1>5, <1>6, <2>1 DEF PipeOK
<1>8. PipeTables BY <1>1, <1>3, <1>4, <1>6 DEF PipeTables
<1>9. TypedInv BY <1>1 DEF TypedInv
<1>10. \A id \in PipeId : PipeInv(id) BY <1>1, <1>7 DEF PipeInv
<1> QED BY <1>1, <1>8, <1>9, <1>10 DEF PipesInv

(***************************************************************************)
(* A step on one pipe leaves the others alone.                             *)
(***************************************************************************)
LEMMA PipeChanged ==
  ASSUME PipesInv, NEW id \in PipeId, NEW p, NEW rd, NEW wr, NEW s, NEW g, NEW e,
         PipeOK(p, rd, wr, s, g, e),
         pipes' = [pipes EXCEPT ![id] = p], reader' = [reader EXCEPT ![id] = rd],
         writer' = [writer EXCEPT ![id] = wr], sent' = [sent EXCEPT ![id] = s],
         received' = [received EXCEPT ![id] = g], eofs' = [eofs EXCEPT ![id] = e]
  PROVE  PipeTables' /\ \A j \in PipeId : PipeInv(j)'
<1>1. PipeTables BY DEF PipesInv
<1>2. /\ p \in Pipe /\ rd \in Call /\ wr \in Call /\ s \in Nat /\ g \in Seq(Nat) /\ e \in Nat
  BY DEF PipeOK
<1>3. PipeTables' BY <1>1, <1>2 DEF PipeTables
<1>4. ASSUME NEW j \in PipeId PROVE PipeInv(j)'
  <2>1. CASE j = id
    <3>1. /\ pipes'[j] = p /\ reader'[j] = rd /\ writer'[j] = wr /\ sent'[j] = s
          /\ received'[j] = g /\ eofs'[j] = e
      BY <1>1, <2>1 DEF PipeTables
    <3> QED BY <3>1 DEF PipeInv
  <2>2. CASE j # id
    <3>1. /\ pipes'[j] = pipes[j] /\ reader'[j] = reader[j] /\ writer'[j] = writer[j]
          /\ sent'[j] = sent[j] /\ received'[j] = received[j] /\ eofs'[j] = eofs[j]
      BY <1>1, <2>2 DEF PipeTables
    <3> QED BY <3>1 DEF PipeInv, PipesInv
  <2> QED BY <2>1, <2>2
<1> QED BY <1>3, <1>4

(***************************************************************************)
(* A pipe that is created is empty; its history starts again.              *)
(***************************************************************************)
LEMMA CreateKeeps ==
  ASSUME PipesInv, NEW t \in Tasks, NEW id \in PipeId, pipe_create(t, id)
  PROVE  PipesInv'
<1> USE PipesAssumption
<1> DEFINE r == [buf |-> pipes[id].ring.buf, head |-> 0, tail |-> 0]
           p == [ring |-> r, readers |-> 1, writers |-> 1]
<1>1. PipeTables /\ PipeInv(id) /\ pipe_allocated \subseteq PipeId BY DEF PipesInv
<1>2. pipes[id] \in Pipe /\ reader[id] \in Call /\ writer[id] \in Call BY <1>1 DEF PipeTables
<1>3. /\ pipes' = [pipes EXCEPT ![id] = p]
      /\ sent' = [sent EXCEPT ![id] = 0] /\ received' = [received EXCEPT ![id] = <<>>]
      /\ eofs' = [eofs EXCEPT ![id] = 0] /\ reader' = reader /\ writer' = writer
      /\ pipe_allocated' = pipe_allocated \cup {id}
  BY DEF pipe_create, Created
<1>4. reader' = [reader EXCEPT ![id] = reader[id]] /\ writer' = [writer EXCEPT ![id] = writer[id]]
  BY <1>1, <1>3 DEF PipeTables
<1>5. IsRing(PIPE_BUF_SIZE, r, Nat) /\ IsEmpty(r) BY <1>2 DEF Pipe, IsRing, IsEmpty
<1>6. p \in Pipe BY <1>5 DEF Pipe, IsRing
<1>7. <<>> \o Contents(PIPE_BUF_SIZE, r) = Numbered(0) BY <1>5, FreshInOrder
<1>8. PipeOK(p, reader[id], writer[id], 0, <<>>, 0)
  <2>1. p.ring = r /\ p.writers = 1 /\ <<>> \in Seq(Nat) OBVIOUS
  <2> HIDE DEF p, r
  <2> QED BY <1>2, <1>6, <1>7, <2>1 DEF PipeOK
<1> HIDE DEF p, r
<1>9. PipeTables' /\ \A j \in PipeId : PipeInv(j)'
  BY <1>3, <1>4, <1>8, PipeChanged
<1> QED BY <1>1, <1>3, <1>9 DEF PipesInv

(***************************************************************************)
(* Entries that a step leaves alone.                                       *)
(***************************************************************************)
LEMMA PipeSame ==
  ASSUME PipesInv, NEW id \in PipeId
  PROVE  /\ pipes = [pipes EXCEPT ![id] = pipes[id]]
         /\ reader = [reader EXCEPT ![id] = reader[id]]
         /\ writer = [writer EXCEPT ![id] = writer[id]]
         /\ sent = [sent EXCEPT ![id] = sent[id]]
         /\ received = [received EXCEPT ![id] = received[id]]
         /\ eofs = [eofs EXCEPT ![id] = eofs[id]]
         /\ pipes[id] \in Pipe /\ reader[id] \in Call /\ writer[id] \in Call
         /\ sent[id] \in Nat /\ received[id] \in Seq(Nat) /\ eofs[id] \in Nat
         /\ IsRing(PIPE_BUF_SIZE, pipes[id].ring, Nat)
         /\ PipeInv(id)
<1>1. PipeTables /\ PipeInv(id) BY DEF PipesInv
<1>2. /\ pipes[id] \in Pipe /\ reader[id] \in Call /\ writer[id] \in Call
      /\ sent[id] \in Nat /\ received[id] \in Seq(Nat) /\ eofs[id] \in Nat
  BY <1>1 DEF PipeTables
<1>3. IsRing(PIPE_BUF_SIZE, pipes[id].ring, Nat) BY <1>2 DEF Pipe, IsRing
<1> QED BY <1>1, <1>2, <1>3 DEF PipeTables

(***************************************************************************)
(* A step of pipe_read keeps the invariant.                                *)
(***************************************************************************)
LEMMA ReadKeeps ==
  ASSUME PipesInv, NEW id \in PipeId,
         (\E len \in 1 .. MaxLen : ReadStart(id, len)) \/ ReadStep(id)
  PROVE  PipesInv'
<1> USE PipesAssumption
<1> DEFINE p == pipes[id]
           rd == reader[id]
           g == received[id]
           e == eofs[id]
<1>1. /\ p \in Pipe /\ rd \in Call /\ writer[id] \in Call
      /\ sent[id] \in Nat /\ g \in Seq(Nat) /\ e \in Nat
      /\ IsRing(PIPE_BUF_SIZE, p.ring, Nat)
      /\ PipeOK(p, rd, writer[id], sent[id], g, e)
  BY PipeSame DEF PipeInv
<1>2. /\ pipes = [pipes EXCEPT ![id] = p] /\ reader = [reader EXCEPT ![id] = rd]
      /\ writer = [writer EXCEPT ![id] = writer[id]] /\ sent = [sent EXCEPT ![id] = sent[id]]
      /\ received = [received EXCEPT ![id] = g] /\ eofs = [eofs EXCEPT ![id] = e]
  BY PipeSame
<1>3. writer' = writer /\ sent' = sent /\ pipe_allocated' = pipe_allocated
  BY DEF ReadStart, ReadStep, ReadByte, ReadEmpty, ReadTest
<1>4. ASSUME NEW np, NEW nr, NEW ng, NEW ne, PipeOK(np, nr, writer[id], sent[id], ng, ne),
             pipes' = [pipes EXCEPT ![id] = np], reader' = [reader EXCEPT ![id] = nr],
             received' = [received EXCEPT ![id] = ng], eofs' = [eofs EXCEPT ![id] = ne]
      PROVE  PipesInv'
  <2>1. writer' = [writer EXCEPT ![id] = writer[id]] /\ sent' = [sent EXCEPT ![id] = sent[id]]
    BY <1>2, <1>3
  <2>2. PipeTables' /\ \A j \in PipeId : PipeInv(j)' BY <1>4, <2>1, PipeChanged
  <2> QED BY <1>3, <2>2 DEF PipesInv
<1>5. ASSUME NEW len \in 1 .. MaxLen, ReadStart(id, len) PROVE PipesInv'
  <2> DEFINE nr == [pc |-> "loop", left |-> len, total |-> 0]
  <2>1. reader' = [reader EXCEPT ![id] = nr] /\ UNCHANGED <<pipes, received, eofs>>
    BY <1>5 DEF ReadStart
  <2>2. nr \in Call /\ nr.pc = "loop" BY DEF Call
  <2> HIDE DEF nr
  <2>3. PipeOK(p, nr, writer[id], sent[id], g, e) BY <1>1, <2>2 DEF PipeOK
  <2>4. /\ pipes' = [pipes EXCEPT ![id] = p] /\ received' = [received EXCEPT ![id] = g]
        /\ eofs' = [eofs EXCEPT ![id] = e]
    BY <1>2, <2>1
  <2> QED BY <1>4, <2>1, <2>3, <2>4
<1>6. CASE ReadByte(id)
  <2> DEFINE r == DropFirst(PIPE_BUF_SIZE, p.ring)
             np == [p EXCEPT !.ring = r]
             nr == IF rd.left = 1 THEN Resting
                   ELSE [pc |-> "loop", left |-> rd.left - 1, total |-> rd.total + 1]
             ng == Append(g, First(p.ring))
             ne == IF rd.left = 1 THEN 0 ELSE e
  <2>1. rd.pc = "loop" /\ ~IsEmpty(p.ring) BY <1>6 DEF ReadByte
  <2>2. /\ pipes' = [pipes EXCEPT ![id].ring = DropFirst(PIPE_BUF_SIZE, @)]
        /\ received' = [received EXCEPT ![id] = Append(@, First(pipes[id].ring))]
        /\ reader' = [reader EXCEPT ![id] =
                        IF @.left = 1 THEN Resting
                        ELSE [pc |-> "loop", left |-> @.left - 1, total |-> @.total + 1]]
        /\ eofs' = [eofs EXCEPT ![id] = IF reader[id].left = 1 THEN 0 ELSE @]
    BY <1>6 DEF ReadByte
  <2>3. /\ pipes' = [pipes EXCEPT ![id] = np] /\ reader' = [reader EXCEPT ![id] = nr]
        /\ received' = [received EXCEPT ![id] = ng] /\ eofs' = [eofs EXCEPT ![id] = ne]
    BY <2>2
  <2>4. /\ IsRing(PIPE_BUF_SIZE, r, Nat) /\ ng \in Seq(Nat)
        /\ ng \o Contents(PIPE_BUF_SIZE, r) = Numbered(sent[id])
    <3>1. g \o Contents(PIPE_BUF_SIZE, p.ring) = Numbered(sent[id]) BY <1>1 DEF PipeOK
    <3>2. /\ IsRing(PIPE_BUF_SIZE, r, Nat) /\ ng \in Seq(Nat)
          /\ ng \o Contents(PIPE_BUF_SIZE, r) = g \o Contents(PIPE_BUF_SIZE, p.ring)
      BY <1>1, <2>1, DropKeepsOrder
    <3> QED BY <3>1, <3>2
  <2>5. np \in Pipe /\ np.ring = r /\ np.writers = p.writers
    BY <1>1, <2>4 DEF Pipe, IsRing
  <2>6. nr \in Call /\ nr.pc # "test" BY <1>1 DEF Call, Resting
  <2>7. ne \in Nat /\ (ne >= 1 => ne = e) /\ ~(e >= 2) BY <1>1, <2>1 DEF PipeOK
  <2> HIDE DEF np, nr, ng, ne, r
  <2>8. PipeOK(np, nr, writer[id], sent[id], ng, ne)
    BY <1>1, <2>4, <2>5, <2>6, <2>7 DEF PipeOK
  <2> QED BY <1>4, <2>3, <2>8
<1>7. CASE ReadEmpty(id)
  <2> DEFINE nr == [rd EXCEPT !.pc = "test"]
  <2>1. /\ reader' = [reader EXCEPT ![id] = nr] /\ UNCHANGED <<pipes, received, eofs>>
        /\ IsEmpty(p.ring)
    BY <1>7 DEF ReadEmpty
  <2>2. nr \in Call BY <1>1 DEF Call
  <2> HIDE DEF nr
  <2>3. PipeOK(p, nr, writer[id], sent[id], g, e) BY <1>1, <2>1, <2>2 DEF PipeOK
  <2>4. /\ pipes' = [pipes EXCEPT ![id] = p] /\ received' = [received EXCEPT ![id] = g]
        /\ eofs' = [eofs EXCEPT ![id] = e]
    BY <1>2, <2>1
  <2> QED BY <1>4, <2>1, <2>3, <2>4
<1>8. CASE ReadTest(id) /\ p.writers = 0
  <2> DEFINE ne == IF rd.total > 0 THEN 0 ELSE IF e < 2 THEN e + 1 ELSE 2
  <2>1. /\ reader' = [reader EXCEPT ![id] = Resting] /\ eofs' = [eofs EXCEPT ![id] = ne]
        /\ rd.pc = "test" /\ UNCHANGED <<pipes, received>>
    BY <1>8 DEF ReadTest
  <2>2. ne \in Nat /\ (ne >= 2 => e >= 1) BY <1>1
  <2>3. Resting \in Call /\ Resting.pc # "test" BY DEF Call, Resting
  <2> HIDE DEF ne
  <2>4. PipeOK(p, Resting, writer[id], sent[id], g, ne)
    BY <1>1, <1>8, <2>1, <2>2, <2>3 DEF PipeOK
  <2>5. pipes' = [pipes EXCEPT ![id] = p] /\ received' = [received EXCEPT ![id] = g]
    BY <1>2, <2>1
  <2> QED BY <1>4, <2>1, <2>4, <2>5
<1>9. CASE ReadTest(id) /\ p.writers # 0
  <2> DEFINE nr == [rd EXCEPT !.pc = "loop"]
  <2>1. reader' = [reader EXCEPT ![id] = nr] /\ UNCHANGED <<pipes, received, eofs>>
    BY <1>9 DEF ReadTest
  <2>2. nr \in Call /\ nr.pc = "loop" BY <1>1 DEF Call
  <2> HIDE DEF nr
  <2>3. PipeOK(p, nr, writer[id], sent[id], g, e) BY <1>1, <2>2 DEF PipeOK
  <2>4. /\ pipes' = [pipes EXCEPT ![id] = p] /\ received' = [received EXCEPT ![id] = g]
        /\ eofs' = [eofs EXCEPT ![id] = e]
    BY <1>2, <2>1
  <2> QED BY <1>4, <2>1, <2>3, <2>4
<1> QED BY <1>5, <1>6, <1>7, <1>8, <1>9 DEF ReadStep

(***************************************************************************)
(* A step of pipe_write keeps the invariant.                               *)
(***************************************************************************)
LEMMA WriteKeeps ==
  ASSUME PipesInv, NEW id \in PipeId,
         (\E len \in 1 .. MaxLen : WriteStart(id, len)) \/ WriteStep(id)
  PROVE  PipesInv'
<1> USE PipesAssumption
<1> DEFINE p == pipes[id]
           rd == reader[id]
           wr == writer[id]
           g == received[id]
           e == eofs[id]
           s == sent[id]
<1>1. /\ p \in Pipe /\ rd \in Call /\ wr \in Call
      /\ s \in Nat /\ g \in Seq(Nat) /\ e \in Nat
      /\ IsRing(PIPE_BUF_SIZE, p.ring, Nat)
      /\ PipeOK(p, rd, wr, s, g, e)
  BY PipeSame DEF PipeInv
<1>2. /\ pipes = [pipes EXCEPT ![id] = p] /\ reader = [reader EXCEPT ![id] = rd]
      /\ writer = [writer EXCEPT ![id] = wr] /\ sent = [sent EXCEPT ![id] = s]
      /\ received = [received EXCEPT ![id] = g] /\ eofs = [eofs EXCEPT ![id] = e]
  BY PipeSame
<1>3. /\ reader' = reader /\ received' = received /\ eofs' = eofs
      /\ pipe_allocated' = pipe_allocated
  BY DEF WriteStart, WriteStep, WriteByte, WriteFull, WriteTest
<1>4. ASSUME NEW np, NEW nw, NEW ns, PipeOK(np, rd, nw, ns, g, e),
             pipes' = [pipes EXCEPT ![id] = np], writer' = [writer EXCEPT ![id] = nw],
             sent' = [sent EXCEPT ![id] = ns]
      PROVE  PipesInv'
  <2>1. /\ reader' = [reader EXCEPT ![id] = rd] /\ received' = [received EXCEPT ![id] = g]
        /\ eofs' = [eofs EXCEPT ![id] = e]
    BY <1>2, <1>3
  <2> HIDE DEF p, rd, wr, g, e, s
  <2>2. PipeTables' /\ \A j \in PipeId : PipeInv(j)' BY <1>4, <2>1, PipeChanged
  <2> QED BY <1>3, <2>2 DEF PipesInv
<1>5. ASSUME NEW len \in 1 .. MaxLen, WriteStart(id, len) PROVE PipesInv'
  <2> DEFINE nw == [pc |-> "loop", left |-> len, total |-> 0]
  <2>1. writer' = [writer EXCEPT ![id] = nw] /\ UNCHANGED <<pipes, sent>> /\ p.writers = 1
    BY <1>5 DEF WriteStart
  <2>2. nw \in Call BY DEF Call
  <2> HIDE DEF nw
  <2>3. PipeOK(p, rd, nw, s, g, e) BY <1>1, <2>1, <2>2 DEF PipeOK
  <2> QED BY <1>2, <1>4, <2>1, <2>3
<1>6. CASE WriteByte(id)
  <2> DEFINE r == Put(PIPE_BUF_SIZE, p.ring, s + 1)
             np == [p EXCEPT !.ring = r]
             nw == IF wr.left = 1 THEN Resting
                   ELSE [pc |-> "loop", left |-> wr.left - 1, total |-> wr.total + 1]
  <2>1. wr.pc = "loop" /\ ~Full(PIPE_BUF_SIZE, p.ring) BY <1>6 DEF WriteByte
  <2>2. /\ pipes' = [pipes EXCEPT ![id].ring = Put(PIPE_BUF_SIZE, @, sent[id] + 1)]
        /\ sent' = [sent EXCEPT ![id] = @ + 1]
        /\ writer' = [writer EXCEPT ![id] =
                        IF @.left = 1 THEN Resting
                        ELSE [pc |-> "loop", left |-> @.left - 1, total |-> @.total + 1]]
    BY <1>6 DEF WriteByte
  <2>3. /\ pipes' = [pipes EXCEPT ![id] = np] /\ writer' = [writer EXCEPT ![id] = nw]
        /\ sent' = [sent EXCEPT ![id] = s + 1]
    BY <2>2
  <2>4. /\ IsRing(PIPE_BUF_SIZE, r, Nat)
        /\ g \o Contents(PIPE_BUF_SIZE, r) = Numbered(s + 1)
    <3>1. g \o Contents(PIPE_BUF_SIZE, p.ring) = Numbered(s) BY <1>1 DEF PipeOK
    <3> QED BY <1>1, <2>1, <3>1, PutKeepsOrder
  <2>5. np \in Pipe /\ np.ring = r /\ np.writers = p.writers
    BY <1>1, <2>4 DEF Pipe, IsRing
  <2>6. nw \in Call BY <1>1 DEF Call, Resting
  <2>7. p.writers = 1 /\ ~(e >= 1) BY <1>1, <2>1 DEF PipeOK
  <2>8. s + 1 \in Nat /\ ~(e >= 2) BY <1>1, <2>7
  <2> HIDE DEF np, nw, r
  <2>9. PipeOK(np, rd, nw, s + 1, g, e)
    BY <1>1, <2>4, <2>5, <2>6, <2>7, <2>8 DEF PipeOK
  <2> QED BY <1>4, <2>3, <2>9
<1>7. CASE WriteFull(id)
  <2> DEFINE nw == [wr EXCEPT !.pc = "test"]
  <2>1. writer' = [writer EXCEPT ![id] = nw] /\ UNCHANGED <<pipes, sent>> /\ wr.pc = "loop"
    BY <1>7 DEF WriteFull
  <2>2. nw \in Call BY <1>1 DEF Call
  <2> HIDE DEF nw
  <2>3. PipeOK(p, rd, nw, s, g, e) BY <1>1, <2>1, <2>2 DEF PipeOK
  <2> QED BY <1>2, <1>4, <2>1, <2>3
<1>8. CASE WriteTest(id)
  <2> DEFINE nw == IF p.readers = 0 THEN Resting ELSE [wr EXCEPT !.pc = "loop"]
  <2>1. writer' = [writer EXCEPT ![id] = nw] /\ UNCHANGED <<pipes, sent>> /\ wr.pc = "test"
    BY <1>8 DEF WriteTest
  <2>2. nw \in Call
    <3>1. Resting \in Call BY DEF Call, Resting
    <3>2. [wr EXCEPT !.pc = "loop"] \in Call BY <1>1 DEF Call
    <3> QED BY <3>1, <3>2
  <2> HIDE DEF nw
  <2>3. PipeOK(p, rd, nw, s, g, e) BY <1>1, <2>1, <2>2 DEF PipeOK
  <2> QED BY <1>2, <1>4, <2>1, <2>3
<1> QED BY <1>5, <1>6, <1>7, <1>8 DEF WriteStep

(***************************************************************************)
(* Closing an end keeps the invariant: the writer's only when it is not in *)
(* pipe_write.                                                             *)
(***************************************************************************)
LEMMA CloseKeeps ==
  ASSUME PipesInv, NEW id \in PipeId, CloseReader(id) \/ CloseWriter(id)
  PROVE  PipesInv'
<1> USE PipesAssumption
<1> DEFINE p == pipes[id]
<1>1. /\ p \in Pipe /\ eofs[id] \in Nat
      /\ PipeOK(p, reader[id], writer[id], sent[id], received[id], eofs[id])
  BY PipeSame DEF PipeInv
<1>2. ASSUME NEW np, PipeOK(np, reader[id], writer[id], sent[id], received[id], eofs[id]),
             Closed(id, np)
      PROVE  PipesInv'
  <2>1. pipes' = [pipes EXCEPT ![id] = np] /\ UNCHANGED transfer BY <1>2 DEF Closed
  <2>2. /\ reader' = [reader EXCEPT ![id] = reader[id]]
        /\ writer' = [writer EXCEPT ![id] = writer[id]]
        /\ sent' = [sent EXCEPT ![id] = sent[id]]
        /\ received' = [received EXCEPT ![id] = received[id]]
        /\ eofs' = [eofs EXCEPT ![id] = eofs[id]]
    BY <2>1, PipeSame DEF transfer
  <2>3. PipeTables' /\ \A j \in PipeId : PipeInv(j)' BY <1>2, <2>1, <2>2, PipeChanged
  <2>4. pipe_allocated' \subseteq PipeId BY <1>2 DEF Closed, PipesInv
  <2> QED BY <2>3, <2>4 DEF PipesInv
<1>3. CASE CloseReader(id)
  <2> DEFINE np == [p EXCEPT !.readers = @ - 1]
  <2>1. p.readers = 1 /\ Closed(id, np) BY <1>3 DEF CloseReader
  <2>2. p.readers - 1 = 0 BY <2>1
  <2>3. np = [ring |-> p.ring, readers |-> 0, writers |-> p.writers]
    BY <1>1, <2>2 DEF Pipe
  <2>4. np \in Pipe /\ np.ring = p.ring /\ np.writers = p.writers BY <1>1, <2>3 DEF Pipe
  <2> HIDE DEF np
  <2>5. PipeOK(np, reader[id], writer[id], sent[id], received[id], eofs[id])
    BY <1>1, <2>4 DEF PipeOK
  <2> QED BY <1>2, <2>1, <2>5
<1>4. CASE CloseWriter(id)
  <2> DEFINE np == [p EXCEPT !.writers = @ - 1]
  <2>1. p.writers = 1 /\ writer[id].pc = "idle" /\ Closed(id, np) BY <1>4 DEF CloseWriter
  <2>2. p.writers - 1 = 0 BY <2>1
  <2>3. np = [ring |-> p.ring, readers |-> p.readers, writers |-> 0]
    BY <1>1, <2>2 DEF Pipe
  <2>4. np \in Pipe /\ np.ring = p.ring /\ np.writers = 0 BY <1>1, <2>3 DEF Pipe
  <2> HIDE DEF np
  <2>5. PipeOK(np, reader[id], writer[id], sent[id], received[id], eofs[id])
    BY <1>1, <2>1, <2>4 DEF PipeOK
  <2> QED BY <1>2, <2>1, <2>5
<1> QED BY <1>3, <1>4

(***************************************************************************)
(* Replacing the ring and the count of a typed pipe leaves a typed pipe.   *)
(***************************************************************************)
LEMMA TypedRecord ==
  ASSUME NEW A, NEW B, NEW C, NEW D, NEW t \in [schema : A, ring : B, sent : C, got : D],
         NEW r \in B, NEW m \in C
  PROVE  [t EXCEPT !.ring = r, !.sent = m] \in [schema : A, ring : B, sent : C, got : D]
OBVIOUS

(***************************************************************************)
(* The calls on typed pipes keep what was sent in order.                   *)
(***************************************************************************)
LEMMA TypedKeeps ==
  ASSUME TypedInv, NEW k \in DOMAIN typed,
         (\E schema \in Schemas : pipe_typed_write(k, schema)) \/ pipe_typed_read(k)
  PROVE  TypedInv'
<1> USE PipesAssumption
<1> DEFINE t == typed[k]
           n == PIPE_TYPED_CAPACITY
<1>1. /\ t \in TypedPipe /\ t.sent \in Nat /\ t.got \in Seq(Nat)
      /\ t.got \o Contents(n, t.ring) = Numbered(t.sent)
  <2>1. t \in TypedPipe BY DEF TypedInv
  <2>2. t.got \o Contents(n, t.ring) = Numbered(t.sent) BY DEF TypedInv
  <2> HIDE DEF t
  <2> QED BY <2>1, <2>2 DEF TypedPipe
<1>2. IsRing(n, t.ring, Nat) BY <1>1 DEF TypedPipe, IsRing
<1>3. ASSUME NEW u \in TypedPipe, u.got \o Contents(n, u.ring) = Numbered(u.sent),
             typed' = [typed EXCEPT ![k] = u]
      PROVE  TypedInv'
  <2>1. typed' \in Seq(TypedPipe) /\ DOMAIN typed' = DOMAIN typed BY <1>3 DEF TypedInv
  <2>2. \A j \in DOMAIN typed : typed'[j] = IF j = k THEN u ELSE typed[j] BY <1>3 DEF TypedInv
  <2> QED BY <1>3, <2>1, <2>2 DEF TypedInv
<1>4. ASSUME NEW schema \in Schemas, pipe_typed_write(k, schema) PROVE TypedInv'
  <2> DEFINE r == Put(n, t.ring, t.sent + 1)
             u == [t EXCEPT !.ring = r, !.sent = t.sent + 1]
  <2>1. ~Full(n, t.ring)
    BY <1>4 DEF pipe_typed_write
  <2>2. typed' = [typed EXCEPT ![k].ring = Put(PIPE_TYPED_CAPACITY, @, typed[k].sent + 1),
                               ![k].sent = @ + 1]
    BY <1>4 DEF pipe_typed_write
  <2>3. typed' = [typed EXCEPT ![k] = u] BY <1>1, <2>2 DEF TypedInv, TypedPipe
  <2>4. IsRing(n, r, Nat) /\ t.got \o Contents(n, r) = Numbered(t.sent + 1)
    BY <1>1, <1>2, <2>1, PutKeepsOrder
  <2>5. u \in TypedPipe
    <3>1. t.sent + 1 \in Nat BY <1>1
    <3> DEFINE m == t.sent + 1
    <3>2. u = [t EXCEPT !.ring = r, !.sent = m] OBVIOUS
    <3> HIDE DEF r, t, u, m
    <3>3. m \in Nat BY <3>1 DEF m
    <3> QED BY <1>1, <2>4, <3>2, <3>3, TypedRecord DEF TypedPipe, IsRing
  <2>6. u.got = t.got /\ u.ring = r /\ u.sent = t.sent + 1 BY <1>1 DEF TypedPipe
  <2> HIDE DEF u, r
  <2> QED BY <1>3, <2>3, <2>4, <2>5, <2>6
<1>5. CASE pipe_typed_read(k)
  <2> DEFINE r == DropFirst(n, t.ring)
             g == Append(t.got, First(t.ring))
             u == [t EXCEPT !.ring = r, !.got = g]
  <2>1. ~IsEmpty(t.ring)
    BY <1>5 DEF pipe_typed_read
  <2>2. typed' = [typed EXCEPT ![k].ring = DropFirst(PIPE_TYPED_CAPACITY, @),
                               ![k].got = Append(@, First(typed[k].ring))]
    BY <1>5 DEF pipe_typed_read
  <2>3. typed' = [typed EXCEPT ![k] = u] BY <1>1, <2>2 DEF TypedInv, TypedPipe
  <2>4. IsRing(n, r, Nat) /\ g \in Seq(Nat) /\ g \o Contents(n, r) = Numbered(t.sent)
    <3>1. /\ IsRing(n, r, Nat) /\ g \in Seq(Nat)
          /\ g \o Contents(n, r) = t.got \o Contents(n, t.ring)
      BY <1>1, <1>2, <2>1, DropKeepsOrder
    <3> QED BY <1>1, <3>1
  <2>5. u \in TypedPipe
    <3> HIDE DEF g
    <3> QED BY <1>1, <2>4 DEF TypedPipe, IsRing
  <2>6. u.got = g /\ u.ring = r /\ u.sent = t.sent
    <3> HIDE DEF g, r
    <3> QED BY <1>1 DEF TypedPipe
  <2> HIDE DEF u, r, g
  <2> QED BY <1>3, <2>3, <2>4, <2>5, <2>6
<1> QED BY <1>4, <1>5

(***************************************************************************)
(* A new typed pipe is empty.                                              *)
(***************************************************************************)
LEMMA TypedCreateKeeps ==
  ASSUME TypedInv, NEW schema \in Schemas, pipe_create_typed(schema)
  PROVE  TypedInv'
<1> USE PipesAssumption
<1> DEFINE n == PIPE_TYPED_CAPACITY
           r == Empty(n, 0)
           u == [schema |-> schema, ring |-> r, sent |-> 0, got |-> <<>>]
<1>1. typed' = Append(typed, u) BY DEF pipe_create_typed
<1>2. IsRing(n, r, Nat) /\ IsEmpty(r) BY DEF Empty, IsRing, IsEmpty
<1>3. u \in TypedPipe BY <1>2 DEF TypedPipe, IsRing
<1>4. u.got \o Contents(n, u.ring) = Numbered(u.sent)
  <2>1. <<>> \o Contents(n, r) = Numbered(0) BY <1>2, FreshInOrder
  <2>2. u.got = <<>> /\ u.ring = r /\ u.sent = 0 OBVIOUS
  <2> HIDE DEF u, r
  <2> QED BY <2>1, <2>2
<1> HIDE DEF u
<1>5. typed \in Seq(TypedPipe) BY DEF TypedInv
<1>6. /\ typed' \in Seq(TypedPipe) /\ Len(typed') = Len(typed) + 1
      /\ \A j \in 1 .. Len(typed) : typed'[j] = typed[j]
      /\ typed'[Len(typed) + 1] = u
  BY <1>1, <1>3, <1>5, AppendProperties
<1>7. ASSUME NEW j \in DOMAIN typed'
      PROVE  typed'[j].got \o Contents(n, typed'[j].ring) = Numbered(typed'[j].sent)
  <2>1. CASE j = Len(typed) + 1 BY <1>4, <1>6, <2>1
  <2>2. CASE j # Len(typed) + 1
    <3>1. DOMAIN typed' = 1 .. Len(typed) + 1 /\ DOMAIN typed = 1 .. Len(typed)
          /\ Len(typed) \in Nat
      BY <1>5, <1>6
    <3>2. j \in 1 .. Len(typed) BY <2>2, <3>1
    <3> QED BY <1>6, <3>1, <3>2 DEF TypedInv
  <2> QED BY <2>1, <2>2
<1> QED BY <1>6, <1>7 DEF TypedInv

(***************************************************************************)
(* Every step keeps the invariant.                                         *)
(***************************************************************************)
LEMMA PipesStep ==
  PipesInv /\ TypedInv /\ [PipesNext]_pipeVars => PipesInv' /\ TypedInv'
<1> SUFFICES ASSUME PipesInv, TypedInv, [PipesNext]_pipeVars PROVE PipesInv' /\ TypedInv'
  OBVIOUS
<1>1. ASSUME UNCHANGED typed PROVE TypedInv' BY <1>1 DEF TypedInv
<1>2. ASSUME UNCHANGED <<pipes, pipe_allocated, transfer>> PROVE PipesInv'
  BY <1>2 DEF PipesInv, PipeTables, PipeInv, transfer
<1>3. ASSUME NEW t \in Tasks, NEW id \in PipeId, pipe_create(t, id)
      PROVE  PipesInv' /\ TypedInv'
  BY <1>1, <1>3, CreateKeeps DEF pipe_create
<1>4. ASSUME NEW id \in PipeId, NEW len \in 1 .. MaxLen,
             ReadStart(id, len) \/ WriteStart(id, len)
      PROVE  PipesInv' /\ TypedInv'
  <2>1. UNCHANGED typed BY <1>4 DEF ReadStart, WriteStart
  <2> QED BY <1>1, <1>4, <2>1, ReadKeeps, WriteKeeps
<1>5. ASSUME NEW id \in PipeId,
             ReadStep(id) \/ WriteStep(id) \/ CloseReader(id) \/ CloseWriter(id)
      PROVE  PipesInv' /\ TypedInv'
  <2>1. UNCHANGED typed
    BY <1>5 DEF ReadStep, ReadByte, ReadEmpty, ReadTest, WriteStep, WriteByte, WriteFull,
                WriteTest, CloseReader, CloseWriter, Closed
  <2> QED BY <1>1, <1>5, <2>1, ReadKeeps, WriteKeeps, CloseKeeps
<1>6. ASSUME NEW schema \in Schemas, pipe_create_typed(schema) PROVE PipesInv' /\ TypedInv'
  BY <1>2, <1>6, TypedCreateKeeps DEF pipe_create_typed
<1>7. ASSUME NEW schema \in Schemas, NEW k \in DOMAIN typed, pipe_typed_write(k, schema)
      PROVE  PipesInv' /\ TypedInv'
  BY <1>2, <1>7, TypedKeeps DEF pipe_typed_write
<1>8. ASSUME NEW k \in DOMAIN typed, pipe_typed_read(k) PROVE PipesInv' /\ TypedInv'
  BY <1>2, <1>8, TypedKeeps DEF pipe_typed_read
<1>9. CASE UNCHANGED pipeVars
  BY <1>1, <1>2, <1>9 DEF pipeVars, transfer
<1> QED BY <1>3, <1>4, <1>5, <1>6, <1>7, <1>8, <1>9 DEF PipesNext

(***************************************************************************)
(* For pipes of every size and any number of them, what was read and what  *)
(* is still in the ring are the bytes written since the pipe was created,  *)
(* in order; the same for the forms of typed pipes.                        *)
(***************************************************************************)
THEOREM PipesKeepOrder == PipesSpec => []BytesInOrder
<1>1. PipesInv /\ TypedInv => BytesInOrder
  BY DEF PipesInv, PipeInv, PipeOK, TypedInv, BytesInOrder
<1> QED BY <1>1, PipesInitInv, PipesStep, PTL DEF PipesSpec

(***************************************************************************)
(* A second read that returns 0 comes from a pipe that is empty and has no *)
(* writer any more.                                                        *)
(***************************************************************************)
THEOREM SecondEofIsFinal == PipesSpec => []SecondEofFinal
<1>1. PipesInv => SecondEofFinal
  <2> SUFFICES ASSUME PipesInv, NEW id \in PipeId, eofs[id] >= 2
               PROVE  IsEmpty(pipes[id].ring) /\ pipes[id].writers = 0
    BY DEF SecondEofFinal
  <2>1. PipeInv(id) /\ eofs[id] \in Nat BY PipeSame
  <2>2. eofs[id] >= 1 BY <2>1
  <2> QED BY <2>1, <2>2 DEF PipeInv, PipeOK
<1> QED BY <1>1, PipesInitInv, PipesStep, PTL DEF PipesSpec

-----------------------------------------------------------------------------
(***************************************************************************)
(* The keyboard.  A reader is given a key either from kbuf or from the     *)
(* controller.  Each of the two gives a key at most once and in order: the *)
(* interrupt stores the byte of the controller once for each interrupt,    *)
(* and get_char reads the controller only after it has seen a new byte.    *)
(* D is the set of positions in got that came from the controller.         *)
(***************************************************************************)
Increasing(s, I) == \A i, j \in I : i < j => s[i].key < s[j].key

\* What came from kbuf, and what is in it (c): keys up to lim.
FromRing(g, c, D, lim) ==
  /\ Increasing(c, 1 .. Len(c))
  /\ \A k \in 1 .. Len(c) : c[k].key <= lim
  /\ Increasing(g, (1 .. Len(g)) \ D)
  /\ \A i \in (1 .. Len(g)) \ D : g[i].key <= lim
  /\ \A i \in (1 .. Len(g)) \ D : \A k \in 1 .. Len(c) : g[i].key < c[k].key

\* What came from the controller: keys up to lim.
FromPort(g, D, lim) ==
  /\ D \subseteq 1 .. Len(g)
  /\ Increasing(g, D)
  /\ \A i \in D : g[i].key <= lim

(***************************************************************************)
(* A higher limit holds, too.                                              *)
(***************************************************************************)
LEMMA Relaxed ==
  ASSUME NEW S, \A x \in S : x.key \in Int,
         NEW g \in Seq(S), NEW c \in Seq(S), NEW D, D \subseteq 1 .. Len(g),
         NEW l \in Int, NEW m \in Int, l <= m
  PROVE  /\ FromRing(g, c, D, l) => FromRing(g, c, D, m)
         /\ FromPort(g, D, l) => FromPort(g, D, m)
<1>1. ASSUME NEW i \in 1 .. Len(g), g[i].key <= l PROVE g[i].key <= m
  <2>1. g[i].key \in Int OBVIOUS
  <2> QED BY <1>1, <2>1
<1>2. ASSUME NEW i \in 1 .. Len(c), c[i].key <= l PROVE c[i].key <= m
  <2>1. c[i].key \in Int OBVIOUS
  <2> QED BY <1>2, <2>1
<1>3. FromRing(g, c, D, l) => FromRing(g, c, D, m) BY <1>1, <1>2, Zenon DEF FromRing
<1>4. FromPort(g, D, l) => FromPort(g, D, m) BY <1>1, Zenon DEF FromPort
<1> QED BY <1>3, <1>4

(***************************************************************************)
(* The interrupt appends a key above the limit to kbuf.                    *)
(***************************************************************************)
LEMMA RingStores ==
  ASSUME NEW S, \A x \in S : x.key \in Int,
         NEW g \in Seq(S), NEW c \in Seq(S), NEW D, NEW l \in Int,
         NEW x \in S, l < x.key, FromRing(g, c, D, l)
  PROVE  FromRing(g, Append(c, x), D, x.key)
<1> DEFINE d == Append(c, x)
<1>1. /\ d \in Seq(S) /\ Len(d) = Len(c) + 1 /\ Len(c) \in Nat
      /\ \A k \in 1 .. Len(c) : d[k] = c[k]
      /\ d[Len(c) + 1] = x
  BY AppendProperties
<1> HIDE DEF d
<1>2. \A k \in 1 .. Len(d) : k \in 1 .. Len(c) \/ k = Len(c) + 1 BY <1>1
<1>3. ASSUME NEW k \in 1 .. Len(c) PROVE d[k].key < x.key
  <2>1. c[k].key \in Int /\ x.key \in Int OBVIOUS
  <2>2. c[k].key <= l BY DEF FromRing
  <2> QED BY <1>1, <2>1, <2>2
<1>4. \A k \in 1 .. Len(d) : d[k].key <= x.key
  <2>1. \A k \in 1 .. Len(d) : d[k].key \in Int BY <1>1
  <2>2. x.key \in Int OBVIOUS
  <2> QED BY <1>1, <1>2, <1>3, <2>1, <2>2
<1>5. Increasing(d, 1 .. Len(d))
  <2> SUFFICES ASSUME NEW i \in 1 .. Len(d), NEW j \in 1 .. Len(d), i < j
               PROVE  d[i].key < d[j].key
    BY DEF Increasing
  <2>1. i \in 1 .. Len(c) BY <1>1
  <2>2. CASE j \in 1 .. Len(c) BY <1>1, <2>1, <2>2 DEF FromRing, Increasing
  <2>3. CASE j = Len(c) + 1 BY <1>1, <1>3, <2>1, <2>3
  <2> QED BY <1>2, <2>2, <2>3
<1>6. ASSUME NEW i \in (1 .. Len(g)) \ D PROVE g[i].key < x.key
  <2>1. g[i].key \in Int /\ x.key \in Int OBVIOUS
  <2>2. g[i].key <= l BY DEF FromRing
  <2> QED BY <2>1, <2>2
<1>7. ASSUME NEW i \in (1 .. Len(g)) \ D, NEW k \in 1 .. Len(d) PROVE g[i].key < d[k].key
  <2>1. CASE k \in 1 .. Len(c) BY <1>1, <2>1 DEF FromRing
  <2>2. CASE k = Len(c) + 1 BY <1>1, <1>6, <2>2
  <2> QED BY <1>2, <2>1, <2>2
<1>8. \A i \in (1 .. Len(g)) \ D : g[i].key <= x.key
  <2>1. \A i \in (1 .. Len(g)) \ D : g[i].key \in Int OBVIOUS
  <2>2. x.key \in Int OBVIOUS
  <2> QED BY <1>6, <2>1, <2>2
<1>9. Increasing(g, (1 .. Len(g)) \ D) BY DEF FromRing
<1>10. FromRing(g, d, D, x.key) BY <1>4, <1>5, <1>7, <1>8, <1>9 DEF FromRing
<1> QED BY <1>10 DEF d

(***************************************************************************)
(* kb_getchar takes the first key out of kbuf, for a reader or for nobody. *)
(***************************************************************************)
LEMMA RingGives ==
  ASSUME NEW S, \A x \in S : x.key \in Int,
         NEW g \in Seq(S), NEW c \in Seq(S), c # <<>>, NEW D, D \subseteq 1 .. Len(g),
         NEW l \in Int, FromRing(g, c, D, l)
  PROVE  /\ FromRing(g, Tail(c), D, l)
         /\ FromRing(Append(g, Head(c)), Tail(c), D, l)
<1> DEFINE h == Append(g, Head(c))
           t == Tail(c)
<1>1. /\ Head(c) \in S /\ Head(c) = c[1] /\ Len(c) \in Nat /\ Len(c) >= 1
      /\ t \in Seq(S) /\ Len(t) = Len(c) - 1
      /\ \A k \in 1 .. Len(t) : t[k] = c[k + 1]
  BY HeadTailProperties
<1>2. /\ h \in Seq(S) /\ Len(h) = Len(g) + 1 /\ Len(g) \in Nat
      /\ \A k \in 1 .. Len(g) : h[k] = g[k]
      /\ h[Len(g) + 1] = c[1]
  BY <1>1, AppendProperties
<1> HIDE DEF h, t
<1>3. 1 \in 1 .. Len(c) /\ \A k \in 1 .. Len(t) : k + 1 \in 1 .. Len(c) /\ 1 < k + 1 BY <1>1
<1>4. Increasing(t, 1 .. Len(t))
  <2> SUFFICES ASSUME NEW i \in 1 .. Len(t), NEW j \in 1 .. Len(t), i < j
               PROVE  t[i].key < t[j].key
    BY DEF Increasing
  <2>1. i + 1 \in 1 .. Len(c) /\ j + 1 \in 1 .. Len(c) /\ i + 1 < j + 1 BY <1>3
  <2> QED BY <1>1, <2>1 DEF FromRing, Increasing
<1>5. \A k \in 1 .. Len(t) : t[k].key <= l BY <1>1, <1>3 DEF FromRing
<1>6. /\ Increasing(g, (1 .. Len(g)) \ D)
      /\ \A i \in (1 .. Len(g)) \ D : g[i].key <= l
  BY DEF FromRing
<1>7. \A i \in (1 .. Len(g)) \ D : \A k \in 1 .. Len(t) : g[i].key < t[k].key
  BY <1>1, <1>3 DEF FromRing
<1>8. FromRing(g, t, D, l) BY <1>4, <1>5, <1>6, <1>7 DEF FromRing
<1>9. \A i \in (1 .. Len(h)) \ D : i \in (1 .. Len(g)) \ D \/ i = Len(g) + 1 BY <1>2
<1>10. Increasing(h, (1 .. Len(h)) \ D)
  <2> SUFFICES ASSUME NEW i \in (1 .. Len(h)) \ D, NEW j \in (1 .. Len(h)) \ D, i < j
               PROVE  h[i].key < h[j].key
    BY DEF Increasing
  <2>1. i \in (1 .. Len(g)) \ D BY <1>2
  <2>2. CASE j \in (1 .. Len(g)) \ D BY <1>2, <1>6, <2>1, <2>2 DEF Increasing
  <2>3. CASE j = Len(g) + 1 BY <1>2, <1>3, <2>1, <2>3 DEF FromRing
  <2> QED BY <1>9, <2>2, <2>3
<1>11. \A i \in (1 .. Len(h)) \ D : h[i].key <= l
  <2>1. c[1].key <= l BY <1>3 DEF FromRing
  <2> QED BY <1>2, <1>6, <1>9, <2>1
<1>12. ASSUME NEW i \in (1 .. Len(h)) \ D, NEW k \in 1 .. Len(t) PROVE h[i].key < t[k].key
  <2>1. CASE i \in (1 .. Len(g)) \ D BY <1>2, <1>7, <2>1
  <2>2. CASE i = Len(g) + 1
    <3>1. c[1].key < c[k + 1].key BY <1>3 DEF FromRing, Increasing
    <3> QED BY <1>1, <1>2, <2>2, <3>1
  <2> QED BY <1>9, <2>1, <2>2
<1>13. FromRing(h, t, D, l) BY <1>4, <1>5, <1>10, <1>11, <1>12 DEF FromRing
<1> QED BY <1>8, <1>13 DEF h, t

(***************************************************************************)
(* A key given from kbuf is none of those from the controller.             *)
(***************************************************************************)
LEMMA PortUntouched ==
  ASSUME NEW S, NEW g \in Seq(S), NEW x \in S, NEW D, NEW l \in Int, FromPort(g, D, l)
  PROVE  FromPort(Append(g, x), D, l)
<1>1. /\ Append(g, x) \in Seq(S) /\ Len(Append(g, x)) = Len(g) + 1 /\ Len(g) \in Nat
      /\ \A k \in 1 .. Len(g) : Append(g, x)[k] = g[k]
  BY AppendProperties
<1>2. D \subseteq 1 .. Len(Append(g, x)) /\ D \subseteq 1 .. Len(g) BY <1>1 DEF FromPort
<1> QED BY <1>1, <1>2 DEF FromPort, Increasing

(***************************************************************************)
(* get_char appends the key in the controller, above the limit.            *)
(***************************************************************************)
LEMMA PortGives ==
  ASSUME NEW S, \A y \in S : y.key \in Int,
         NEW g \in Seq(S), NEW c \in Seq(S), NEW D, NEW l \in Int, NEW m \in Int,
         NEW x \in S, l < x.key, FromPort(g, D, l), FromRing(g, c, D, m)
  PROVE  /\ FromPort(Append(g, x), D \cup {Len(g) + 1}, x.key)
         /\ FromRing(Append(g, x), c, D \cup {Len(g) + 1}, m)
<1> DEFINE h == Append(g, x)
           E == D \cup {Len(g) + 1}
<1>1. /\ h \in Seq(S) /\ Len(h) = Len(g) + 1 /\ Len(g) \in Nat
      /\ \A k \in 1 .. Len(g) : h[k] = g[k]
      /\ h[Len(g) + 1] = x
  BY AppendProperties
<1>2. D \subseteq 1 .. Len(g) /\ E \subseteq 1 .. Len(h)
  <2>1. D \subseteq 1 .. Len(g) BY DEF FromPort
  <2> HIDE DEF h
  <2>2. \A i \in E : i \in 1 .. Len(h) BY <1>1, <2>1
  <2> QED BY <2>1, <2>2
<1>3. \A i : i \in (1 .. Len(h)) \ E <=> i \in (1 .. Len(g)) \ D BY <1>1, <1>2
<1>4. (1 .. Len(h)) \ E = (1 .. Len(g)) \ D BY <1>3
<1> HIDE DEF h
<1>5. \A i \in D : h[i].key < x.key
  <2> SUFFICES ASSUME NEW i \in D PROVE h[i].key < x.key OBVIOUS
  <2>1. i \in 1 .. Len(g) BY <1>2
  <2>2. g[i].key \in Int /\ x.key \in Int BY <2>1
  <2>3. g[i].key <= l BY DEF FromPort
  <2> QED BY <1>1, <2>1, <2>2, <2>3
<1>6. \A i \in E : h[i].key <= x.key
  <2>1. \A i \in E : h[i].key \in Int BY <1>1, <1>2
  <2>2. x.key \in Int OBVIOUS
  <2> QED BY <1>1, <1>5, <2>1, <2>2
<1>7. Increasing(h, E)
  <2> SUFFICES ASSUME NEW i \in E, NEW j \in E, i < j PROVE h[i].key < h[j].key
    BY DEF Increasing
  <2>1. i \in D BY <1>1, <1>2
  <2>2. CASE j \in D BY <1>1, <1>2, <2>1, <2>2 DEF FromPort, Increasing
  <2>3. CASE j = Len(g) + 1 BY <1>1, <1>5, <2>1, <2>3
  <2> QED BY <2>2, <2>3
<1>8. FromPort(h, E, x.key) BY <1>2, <1>6, <1>7 DEF FromPort
<1> HIDE DEF E
<1>9. FromRing(h, c, E, m)
  <2>1. \A i \in (1 .. Len(h)) \ E : i \in (1 .. Len(g)) \ D /\ h[i] = g[i] BY <1>1, <1>3
  <2>2. Increasing(h, (1 .. Len(h)) \ E) BY <2>1 DEF FromRing, Increasing
  <2> QED BY <2>1, <2>2 DEF FromRing
<1> QED BY <1>8, <1>9 DEF h, E

Slot == [key : Nat, kind : Kinds \cup {"none"}, upper : BOOLEAN]
Kbuf == Contents(KBUF_SIZE, kbuf)

\* The next key to come from kbuf, and from the controller, is above these.
RingLimit == IF irq THEN port.key - 1 ELSE port.key
PortLimit == IF port.new \/ get_char = "data" THEN port.key - 1 ELSE port.key

KeyOrder ==
  \E D : /\ ~polled => D = {}
         /\ FromRing(got, Kbuf, D, RingLimit)
         /\ FromPort(got, D, PortLimit)

KeyboardTyped ==
  /\ IsRing(KBUF_SIZE, kbuf, Slot)
  /\ \A i \in 0 .. KBUF_SIZE - 1 : kbuf.buf[i] = NoKey \/ kbuf.buf[i].key \in 1 .. Len(keys)
  /\ got \in Seq(Slot) /\ keys \in Seq([kind : Kinds, upper : BOOLEAN])
  /\ port \in [new : BOOLEAN, key : Nat, kind : Kinds \cup {"none"}]
  /\ port.key = Len(keys)
  /\ irq \/ port.new \/ get_char = "data" => port.key >= 1 /\ port.kind \in Kinds

FlagsOK ==
  /\ irq \in BOOLEAN /\ shift_irq \in BOOLEAN /\ shift_shell \in BOOLEAN /\ held \in BOOLEAN
  /\ polled \in BOOLEAN /\ sys_read \in BOOLEAN
  /\ get_char \in {"buffer", "status", "data"}

\* Each key of s has the case it was meant in.
CaseKept(s) == \A i \in 1 .. Len(s) : s[i].key \in 1 .. Len(keys)
                                     /\ s[i].upper = keys[s[i].key].upper

\* As long as only the interrupt reads the controller: it knows whether shift
\* is held as soon as it has read the last byte.
CaseInv ==
  ~polled => /\ irq <=> port.new
             /\ ~irq => shift_irq = held
             /\ irq => held = ShiftAfter(port.kind, shift_irq) /\ keys[port.key].upper = shift_irq
             /\ CaseKept(got) /\ CaseKept(Kbuf)

(***************************************************************************)
(* The keys of slots are numbers.                                          *)
(***************************************************************************)
LEMMA SlotKeys == \A x \in Slot : x.key \in Int /\ x.key \in Nat
BY DEF Slot

(***************************************************************************)
(* The flags keep their types.                                             *)
(***************************************************************************)
LEMMA FlagsStep == FlagsOK /\ [KeyboardNext]_keyboardVars => FlagsOK'
<1> SUFFICES ASSUME FlagsOK, [KeyboardNext]_keyboardVars PROVE FlagsOK' OBVIOUS
<1>1. ASSUME NEW kind \in Kinds, KeyPressed(kind) PROVE FlagsOK'
  BY <1>1 DEF KeyPressed, FlagsOK
<1>2. CASE irq_handler BY <1>2 DEF irq_handler, ShiftAfter, FlagsOK
<1>3. CASE GetChar
  BY <1>3 DEF GetChar, GetCharBuffered, GetCharEmpty, GetCharStatus, GetCharData, ShiftAfter, FlagsOK
<1>4. CASE SysReadStart BY <1>4 DEF SysReadStart, FlagsOK
<1>5. CASE SysReadTakes BY <1>5 DEF SysReadTakes, FlagsOK
<1>6. CASE UNCHANGED keyboardVars BY <1>6 DEF keyboardVars, FlagsOK
<1> QED BY <1>1, <1>2, <1>3, <1>4, <1>5, <1>6 DEF KeyboardNext

(***************************************************************************)
(* kb_getchar takes the first key of kbuf; it is a reader's when it is a   *)
(* character.                                                              *)
(***************************************************************************)
LEMMA TakeEffect ==
  ASSUME KeyboardTyped, kb_getchar
  PROVE  /\ IsRing(KBUF_SIZE, kbuf', Slot) /\ kbuf'.buf = kbuf.buf
         /\ Kbuf \in Seq(Slot) /\ Kbuf # <<>> /\ Kbuf' = Tail(Kbuf) /\ Head(Kbuf) \in Slot
         /\ got' = got \/ got' = Append(got, Head(Kbuf))
         /\ got' \in Seq(Slot)
<1> USE KeyboardAssumption
<1>1. /\ ~IsEmpty(kbuf) /\ kbuf' = DropFirst(KBUF_SIZE, kbuf)
      /\ got' = got \/ got' = Append(got, First(kbuf))
  BY DEF kb_getchar
<1>2. IsRing(KBUF_SIZE, kbuf, Slot) /\ got \in Seq(Slot) BY DEF KeyboardTyped
<1>3. IsRing(KBUF_SIZE, kbuf', Slot) BY <1>1, <1>2, DropIsRing
<1>4. kbuf'.buf = kbuf.buf BY <1>1 DEF DropFirst
<1>5. Kbuf \in Seq(Slot) BY <1>2, ContentsSeq DEF Kbuf
<1>6. Kbuf # <<>> /\ First(kbuf) = Head(Kbuf) /\ Kbuf' = Tail(Kbuf)
  BY <1>1, <1>2, DropTakesHead DEF Kbuf
<1>7. Head(Kbuf) \in Slot BY <1>5, <1>6, ConcatMovesHead
<1>8. got' = got \/ got' = Append(got, Head(Kbuf)) BY <1>1, <1>6
<1>9. got' \in Seq(Slot) BY <1>2, <1>7, <1>8, AppendProperties
<1> QED BY <1>3, <1>4, <1>5, <1>6, <1>7, <1>8, <1>9

(***************************************************************************)
(* The interrupt stores the key in the controller with the case of its own *)
(* shift_pressed, or leaves kbuf alone.                                    *)
(***************************************************************************)
LEMMA StoreEffect ==
  ASSUME KeyboardTyped, shift_irq \in BOOLEAN, irq_handler
  PROVE  \/ kbuf' = kbuf
         \/ \E x \in Slot :
              /\ x.key = port.key /\ x.upper = shift_irq
              /\ Kbuf' = Append(Kbuf, x) /\ IsRing(KBUF_SIZE, kbuf', Slot)
              /\ \A i \in 0 .. KBUF_SIZE - 1 : kbuf'.buf[i] = kbuf.buf[i] \/ kbuf'.buf[i] = x
<1> USE KeyboardAssumption
<1> DEFINE x == [key |-> port.key, kind |-> port.kind, upper |-> shift_irq]
<1>1. IsRing(KBUF_SIZE, kbuf, Slot) BY DEF KeyboardTyped
<1>2. x \in Slot
  <2>1. port.key \in Nat /\ port.kind \in Kinds \cup {"none"} BY DEF KeyboardTyped
  <2> QED BY <2>1, Zenon DEF Slot
<1>3. kbuf' = kbuf \/ (~Full(KBUF_SIZE, kbuf) /\ kbuf' = Put(KBUF_SIZE, kbuf, x))
  BY DEF irq_handler, Stored
<1>4. x.key = port.key /\ x.upper = shift_irq BY Zenon
<1> HIDE DEF x
<1>5. CASE ~Full(KBUF_SIZE, kbuf) /\ kbuf' = Put(KBUF_SIZE, kbuf, x)
  <2>1. Kbuf' = Append(Kbuf, x) BY <1>1, <1>2, <1>5, PutAppends DEF Kbuf
  <2>2. IsRing(KBUF_SIZE, kbuf', Slot) BY <1>1, <1>2, <1>5, PutIsRing
  <2>3. kbuf'.buf = [kbuf.buf EXCEPT ![kbuf.head] = x] BY <1>5 DEF Put
  <2>4. kbuf.buf \in [0 .. KBUF_SIZE - 1 -> Slot] BY <1>1 DEF IsRing
  <2>5. \A i \in 0 .. KBUF_SIZE - 1 : kbuf'.buf[i] = kbuf.buf[i] \/ kbuf'.buf[i] = x
    BY <2>3, <2>4
  <2> QED BY <1>2, <1>4, <2>1, <2>2, <2>5
<1> QED BY <1>3, <1>5

(***************************************************************************)
(* kbuf holds slots in order.                                              *)
(***************************************************************************)
LEMMA KbufSeq == KeyboardTyped => Kbuf \in Seq(Slot)
BY KeyboardAssumption, ContentsSeq DEF KeyboardTyped, Kbuf

(***************************************************************************)
(* The types of the ring, the controller and the histories are kept.       *)
(***************************************************************************)
LEMMA KeyboardTypedStep ==
  KeyboardTyped /\ FlagsOK /\ [KeyboardNext]_keyboardVars => KeyboardTyped'
<1> USE KeyboardAssumption
<1> SUFFICES ASSUME KeyboardTyped, FlagsOK, [KeyboardNext]_keyboardVars PROVE KeyboardTyped'
  OBVIOUS
<1>1. /\ IsRing(KBUF_SIZE, kbuf, Slot)
      /\ \A i \in 0 .. KBUF_SIZE - 1 : kbuf.buf[i] = NoKey \/ kbuf.buf[i].key \in 1 .. Len(keys)
      /\ got \in Seq(Slot) /\ keys \in Seq([kind : Kinds, upper : BOOLEAN])
      /\ port \in [new : BOOLEAN, key : Nat, kind : Kinds \cup {"none"}]
      /\ port.key = Len(keys)
  BY DEF KeyboardTyped
<1>2. irq \/ port.new \/ get_char = "data" => port.key >= 1 /\ port.kind \in Kinds
  BY DEF KeyboardTyped
<1>3. ASSUME NEW kind \in Kinds, KeyPressed(kind) PROVE KeyboardTyped'
  <2> DEFINE k == [kind |-> kind, upper |-> held]
  <2>1. /\ keys' = Append(keys, k) /\ kbuf' = kbuf /\ got' = got
        /\ port' = [new |-> TRUE, key |-> Len(keys) + 1, kind |-> kind]
    BY <1>3 DEF KeyPressed
  <2>2. k \in [kind : Kinds, upper : BOOLEAN] BY Zenon DEF FlagsOK
  <2> HIDE DEF k
  <2>3. keys' \in Seq([kind : Kinds, upper : BOOLEAN]) /\ Len(keys') = Len(keys) + 1
        /\ Len(keys) \in Nat
    BY <1>1, <2>1, <2>2, AppendProperties
  <2>4. \A i \in 1 .. Len(keys) : i \in 1 .. Len(keys') BY <2>3
  <2>5. Len(keys) + 1 \in Nat /\ Len(keys) + 1 >= 1 BY <2>3
  <2>6. port' \in [new : BOOLEAN, key : Nat, kind : Kinds \cup {"none"}]
    BY <2>1, <2>5, Zenon
  <2>7. port'.key = Len(keys') /\ port'.kind \in Kinds /\ port'.key >= 1 BY <2>1, <2>3, <2>5
  <2>8. \A i \in 0 .. KBUF_SIZE - 1 : kbuf'.buf[i] = NoKey \/ kbuf'.buf[i].key \in 1 .. Len(keys')
    BY <1>1, <2>1, <2>4, Zenon
  <2> QED BY <1>1, <2>1, <2>3, <2>6, <2>7, <2>8, Zenon DEF KeyboardTyped
<1>4. CASE irq_handler
  <2>1. /\ irq /\ ~irq' /\ port' = [port EXCEPT !.new = FALSE] /\ keys' = keys /\ got' = got
        /\ get_char' = get_char
    BY <1>4 DEF irq_handler
  <2>2. port.key \in 1 .. Len(keys) /\ port.kind \in Kinds BY <1>1, <1>2, <2>1
  <2>3. /\ port' \in [new : BOOLEAN, key : Nat, kind : Kinds \cup {"none"}]
        /\ port'.key = port.key /\ port'.kind = port.kind
    BY <1>1, <2>1
  <2>4. /\ IsRing(KBUF_SIZE, kbuf', Slot)
        /\ \A i \in 0 .. KBUF_SIZE - 1 : kbuf'.buf[i] = NoKey \/ kbuf'.buf[i].key \in 1 .. Len(keys')
    <3>1. CASE kbuf' = kbuf BY <1>1, <2>1, <3>1
    <3>2. ASSUME NEW x \in Slot, x.key = port.key, IsRing(KBUF_SIZE, kbuf', Slot),
                 \A i \in 0 .. KBUF_SIZE - 1 : kbuf'.buf[i] = kbuf.buf[i] \/ kbuf'.buf[i] = x
          PROVE  /\ IsRing(KBUF_SIZE, kbuf', Slot)
                 /\ \A i \in 0 .. KBUF_SIZE - 1 :
                      kbuf'.buf[i] = NoKey \/ kbuf'.buf[i].key \in 1 .. Len(keys')
      BY <1>1, <2>1, <2>2, <3>2
    <3>3. shift_irq \in BOOLEAN BY DEF FlagsOK
    <3> QED BY <1>4, <3>1, <3>2, <3>3, StoreEffect
  <2>5. port'.key >= 1 BY <2>2, <2>3
  <2> QED BY <1>1, <2>1, <2>2, <2>3, <2>4, <2>5, Zenon DEF KeyboardTyped
<1>5. ASSUME kb_getchar, UNCHANGED <<port, irq, keys>>,
             get_char' = get_char \/ get_char' \in {"buffer", "status"}
      PROVE  KeyboardTyped'
  <2>1. IsRing(KBUF_SIZE, kbuf', Slot) /\ kbuf'.buf = kbuf.buf /\ got' \in Seq(Slot)
    BY <1>5, TakeEffect
  <2>2. get_char' = "data" => get_char = "data" BY <1>5
  <2>3. /\ keys' = keys /\ port' = port /\ irq' = irq BY <1>5
  <2>4. \A i \in 0 .. KBUF_SIZE - 1 : kbuf'.buf[i] = NoKey \/ kbuf'.buf[i].key \in 1 .. Len(keys')
    BY <1>1, <2>1, <2>3, Zenon
  <2> QED BY <1>1, <1>2, <2>1, <2>2, <2>3, <2>4, Zenon DEF KeyboardTyped
<1>6. CASE GetCharBuffered BY <1>5, <1>6 DEF GetCharBuffered
<1>7. CASE SysReadTakes BY <1>5, <1>7 DEF SysReadTakes
<1>8. CASE GetCharEmpty \/ GetCharStatus
  <2>1. /\ kbuf' = kbuf /\ keys' = keys /\ port' = port /\ irq' = irq /\ got' = got
        /\ get_char' = "data" => port.new
    BY <1>8 DEF GetCharEmpty, GetCharStatus
  <2> QED BY <1>1, <1>2, <2>1, Zenon DEF KeyboardTyped
<1>9. CASE GetCharData
  <2> DEFINE x == [key |-> port.key, kind |-> port.kind, upper |-> shift_shell]
  <2>1. /\ kbuf' = kbuf /\ keys' = keys /\ port' = [port EXCEPT !.new = FALSE]
        /\ get_char = "data" /\ (got' = got \/ got' = Append(got, x))
    BY <1>9 DEF GetCharData
  <2>2. port.key >= 1 /\ port.kind \in Kinds BY <1>2, <2>1
  <2>3. /\ port' \in [new : BOOLEAN, key : Nat, kind : Kinds \cup {"none"}]
        /\ port'.key = port.key /\ port'.kind = port.kind
    BY <1>1, <2>1
  <2>4. x \in Slot
    <3>1. port.key \in Nat /\ port.kind \in Kinds \cup {"none"} /\ shift_shell \in BOOLEAN
      BY <1>1 DEF FlagsOK
    <3> QED BY <3>1, Zenon DEF Slot
  <2> HIDE DEF x
  <2>5. got' \in Seq(Slot) BY <1>1, <2>1, <2>4, AppendProperties
  <2> QED BY <1>1, <2>1, <2>2, <2>3, <2>5, Zenon DEF KeyboardTyped
<1>10. CASE SysReadStart \/ UNCHANGED keyboardVars
  <2>1. /\ kbuf' = kbuf /\ keys' = keys /\ port' = port /\ irq' = irq /\ got' = got
        /\ get_char' = get_char
    BY <1>10 DEF SysReadStart, keyboardVars
  <2> QED BY <1>1, <1>2, <2>1, Zenon DEF KeyboardTyped
<1> QED BY <1>3, <1>4, <1>6, <1>7, <1>8, <1>9, <1>10 DEF KeyboardNext, GetChar

(***************************************************************************)
(* Both ways to a reader stay in order.                                    *)
(***************************************************************************)
LEMMA KeyOrderStep ==
  KeyboardTyped /\ FlagsOK /\ KeyOrder /\ [KeyboardNext]_keyboardVars => KeyOrder'
<1> USE KeyboardAssumption
<1> SUFFICES ASSUME KeyboardTyped, FlagsOK, KeyOrder, [KeyboardNext]_keyboardVars
             PROVE  KeyOrder'
  OBVIOUS
<1> DEFINE n == port.key
<1>1. PICK D : /\ ~polled => D = {}
               /\ FromRing(got, Kbuf, D, RingLimit)
               /\ FromPort(got, D, PortLimit)
  BY DEF KeyOrder
<1>2. /\ got \in Seq(Slot) /\ Kbuf \in Seq(Slot) /\ D \subseteq 1 .. Len(got)
      /\ n \in Nat /\ n = Len(keys)
  BY <1>1, KbufSeq DEF KeyboardTyped, FromPort
<1>3. /\ RingLimit \in Int /\ RingLimit <= n
      /\ PortLimit \in Int /\ PortLimit <= n
  BY <1>2 DEF RingLimit, PortLimit
<1>4. ASSUME NEW l \in Int, NEW m \in Int, RingLimit <= l, PortLimit <= m,
             RingLimit' = l, PortLimit' = m, got' = got, Kbuf' = Kbuf, polled' = polled
      PROVE  KeyOrder'
  <2>1. FromRing(got, Kbuf, D, l) /\ FromPort(got, D, m)
    BY <1>1, <1>2, <1>3, <1>4, SlotKeys, Relaxed
  <2> QED BY <1>1, <1>4, <2>1 DEF KeyOrder
<1>5. ASSUME NEW kind \in Kinds, KeyPressed(kind) PROVE KeyOrder'
  <2>1. /\ got' = got /\ kbuf' = kbuf /\ polled' = polled /\ irq' = TRUE
        /\ port' = [new |-> TRUE, key |-> Len(keys) + 1, kind |-> kind]
    BY <1>5 DEF KeyPressed
  <2>2. port'.new = TRUE /\ port'.key = n + 1 BY <1>2, <2>1
  <2>3. RingLimit' = n /\ PortLimit' = n BY <1>2, <2>1, <2>2 DEF RingLimit, PortLimit
  <2>4. Kbuf' = Kbuf BY <2>1 DEF Kbuf
  <2> QED BY <1>2, <1>3, <1>4, <2>1, <2>3, <2>4
<1>6. CASE irq_handler
  <2>1. /\ irq /\ ~irq' /\ got' = got /\ polled' = polled /\ get_char' = get_char
        /\ port' = [port EXCEPT !.new = FALSE]
    BY <1>6 DEF irq_handler
  <2>2. port'.new = FALSE /\ port'.key = n BY <2>1 DEF KeyboardTyped
  <2>3. RingLimit = n - 1 /\ RingLimit' = n BY <2>1, <2>2 DEF RingLimit
  <2>4. PortLimit' \in Int /\ PortLimit <= PortLimit'
    BY <1>2, <2>1, <2>2 DEF PortLimit
  <2>5. CASE kbuf' = kbuf
    <3>1. Kbuf' = Kbuf BY <2>5 DEF Kbuf
    <3> QED BY <1>2, <1>3, <1>4, <2>1, <2>3, <2>4, <3>1
  <2>6. ASSUME NEW x \in Slot, x.key = port.key, Kbuf' = Append(Kbuf, x) PROVE KeyOrder'
    <3>1. RingLimit < x.key BY <1>2, <2>3, <2>6
    <3>2. FromRing(got, Append(Kbuf, x), D, x.key)
      BY <1>1, <1>2, <1>3, <3>1, SlotKeys, RingStores
    <3>3. FromRing(got', Kbuf', D, RingLimit') BY <2>1, <2>3, <2>6, <3>2
    <3>4. FromPort(got', D, PortLimit')
      BY <1>1, <1>2, <1>3, <2>1, <2>4, SlotKeys, Relaxed
    <3> QED BY <1>1, <2>1, <3>3, <3>4 DEF KeyOrder
  <2>7. shift_irq \in BOOLEAN BY DEF FlagsOK
  <2> QED BY <1>6, <2>5, <2>6, <2>7, StoreEffect
<1>7. ASSUME kb_getchar, UNCHANGED <<port, irq, polled>>,
             get_char' = "data" <=> get_char = "data"
      PROVE  KeyOrder'
  <2>1. /\ Kbuf # <<>> /\ Kbuf' = Tail(Kbuf) /\ Head(Kbuf) \in Slot
        /\ got' = got \/ got' = Append(got, Head(Kbuf))
    BY <1>7, TakeEffect
  <2>2. RingLimit' = RingLimit /\ PortLimit' = PortLimit BY <1>7 DEF RingLimit, PortLimit
  <2>3. /\ FromRing(got, Tail(Kbuf), D, RingLimit)
        /\ FromRing(Append(got, Head(Kbuf)), Tail(Kbuf), D, RingLimit)
    BY <1>1, <1>2, <1>3, <2>1, SlotKeys, RingGives
  <2>4. FromPort(Append(got, Head(Kbuf)), D, PortLimit)
    BY <1>1, <1>2, <1>3, <2>1, PortUntouched
  <2> QED BY <1>1, <1>7, <2>1, <2>2, <2>3, <2>4 DEF KeyOrder
<1>8. CASE GetCharBuffered
  <2>1. ~(get_char' = "data") /\ ~(get_char = "data") BY <1>8 DEF GetCharBuffered
  <2> QED BY <1>7, <1>8, <2>1 DEF GetCharBuffered
<1>9. CASE SysReadTakes BY <1>7, <1>9 DEF SysReadTakes
<1>10. CASE GetCharEmpty \/ GetCharStatus \/ SysReadStart \/ UNCHANGED keyboardVars
  <2>1. /\ got' = got /\ kbuf' = kbuf /\ polled' = polled /\ irq' = irq /\ port' = port
    BY <1>10 DEF GetCharEmpty, GetCharStatus, SysReadStart, keyboardVars
  <2>2. (port.new \/ get_char' = "data") <=> (port.new \/ get_char = "data")
    BY <1>10 DEF GetCharEmpty, GetCharStatus, SysReadStart, keyboardVars
  <2>3. RingLimit' = RingLimit BY <2>1 DEF RingLimit
  <2>4. PortLimit' = PortLimit BY <2>1, <2>2 DEF PortLimit
  <2>5. Kbuf' = Kbuf BY <2>1 DEF Kbuf
  <2> QED BY <1>3, <1>4, <2>1, <2>3, <2>4, <2>5
<1>11. CASE GetCharData
  <2> DEFINE x == [key |-> port.key, kind |-> port.kind, upper |-> shift_shell]
             E == D \cup {Len(got) + 1}
  <2>1. /\ kbuf' = kbuf /\ irq' = irq /\ polled' = TRUE /\ get_char = "data"
        /\ port' = [port EXCEPT !.new = FALSE] /\ get_char' = "buffer"
        /\ got' = got \/ got' = Append(got, x)
    BY <1>11 DEF GetCharData
  <2>2. port'.new = FALSE /\ port'.key = n BY <2>1 DEF KeyboardTyped
  <2>3. PortLimit = n - 1 /\ PortLimit' = n BY <2>1, <2>2 DEF PortLimit
  <2>4. RingLimit' = RingLimit BY <2>1, <2>2 DEF RingLimit
  <2>5. Kbuf' = Kbuf BY <2>1 DEF Kbuf
  <2>6. x \in Slot /\ x.key = n
    <3>1. port.key \in Nat /\ port.kind \in Kinds \cup {"none"} /\ shift_shell \in BOOLEAN
      BY DEF FlagsOK, KeyboardTyped
    <3> QED BY <3>1, Zenon DEF Slot
  <2> HIDE DEF x
  <2>7. CASE got' = got
    <3>1. FromRing(got', Kbuf', D, RingLimit') BY <1>1, <2>4, <2>5, <2>7
    <3>2. n \in Int /\ PortLimit <= n BY <1>2, <1>3
    <3> HIDE DEF n
    <3>3. FromPort(got, D, n) BY <1>1, <1>2, <1>3, <3>2, SlotKeys, Relaxed
    <3> QED BY <2>1, <2>3, <2>7, <3>1, <3>3 DEF KeyOrder
  <2>8. CASE got' = Append(got, x)
    <3>1. PortLimit < x.key BY <1>2, <2>3, <2>6
    <3>2. /\ FromPort(Append(got, x), E, x.key)
          /\ FromRing(Append(got, x), Kbuf, E, RingLimit)
      BY <1>1, <1>2, <1>3, <2>6, <3>1, SlotKeys, PortGives
    <3> HIDE DEF E
    <3>3. FromPort(got', E, PortLimit') /\ FromRing(got', Kbuf', E, RingLimit')
      BY <2>3, <2>4, <2>5, <2>6, <2>8, <3>2
    <3> QED BY <2>1, <3>3 DEF KeyOrder
  <2> QED BY <2>1, <2>7, <2>8
<1> QED BY <1>5, <1>6, <1>8, <1>9, <1>10, <1>11 DEF KeyboardNext, GetChar

(***************************************************************************)
(* A key in its case may be appended, and the first one may go.            *)
(***************************************************************************)
LEMMA CaseAppended ==
  ASSUME NEW s \in Seq(Slot), NEW x \in Slot, CaseKept(s),
         x.key \in 1 .. Len(keys), x.upper = keys[x.key].upper
  PROVE  CaseKept(Append(s, x))
<1> DEFINE t == Append(s, x)
<1>1. /\ Len(t) = Len(s) + 1 /\ Len(s) \in Nat
      /\ \A k \in 1 .. Len(s) : t[k] = s[k]
      /\ t[Len(s) + 1] = x
  BY AppendProperties
<1> HIDE DEF t
<1>2. \A i \in 1 .. Len(t) : i \in 1 .. Len(s) \/ i = Len(s) + 1 BY <1>1
<1>3. CaseKept(t)
  <2> SUFFICES ASSUME NEW i \in 1 .. Len(t)
               PROVE  t[i].key \in 1 .. Len(keys) /\ t[i].upper = keys[t[i].key].upper
    BY Zenon DEF CaseKept
  <2>1. CASE i \in 1 .. Len(s) BY <1>1, <2>1, Zenon DEF CaseKept
  <2>2. CASE i = Len(s) + 1 BY <1>1, <2>2, Zenon
  <2> QED BY <1>2, <2>1, <2>2
<1> QED BY <1>3 DEF t

(***************************************************************************)
(* The same for the rest of the keys and the first of them.                *)
(***************************************************************************)
LEMMA CaseTaken ==
  ASSUME NEW s \in Seq(Slot), s # <<>>, CaseKept(s)
  PROVE  /\ CaseKept(Tail(s))
         /\ Head(s) \in Slot /\ Head(s).key \in 1 .. Len(keys)
         /\ Head(s).upper = keys[Head(s).key].upper
<1> DEFINE t == Tail(s)
<1>1. /\ Head(s) \in Slot /\ Head(s) = s[1] /\ Len(s) \in Nat /\ Len(s) >= 1
      /\ Len(t) = Len(s) - 1
      /\ \A k \in 1 .. Len(t) : t[k] = s[k + 1]
  BY HeadTailProperties
<1> HIDE DEF t
<1>2. 1 \in 1 .. Len(s) /\ \A k \in 1 .. Len(t) : k + 1 \in 1 .. Len(s) BY <1>1
<1>3. CaseKept(t) BY <1>1, <1>2, Zenon DEF CaseKept
<1>4. Head(s).key \in 1 .. Len(keys) /\ Head(s).upper = keys[Head(s).key].upper
  BY <1>1, <1>2, Zenon DEF CaseKept
<1> QED BY <1>1, <1>3, <1>4 DEF t

(***************************************************************************)
(* Keys pressed later do not change the case of those before.              *)
(***************************************************************************)
LEMMA CaseLater ==
  ASSUME NEW s, CaseKept(s), keys \in Seq([kind : Kinds, upper : BOOLEAN]),
         NEW k \in [kind : Kinds, upper : BOOLEAN], keys' = Append(keys, k)
  PROVE  CaseKept(s)'
<1>1. /\ Len(keys') = Len(keys) + 1 /\ Len(keys) \in Nat
      /\ \A i \in 1 .. Len(keys) : keys'[i] = keys[i]
  BY AppendProperties
<1>2. \A i \in 1 .. Len(keys) : i \in 1 .. Len(keys') BY <1>1
<1> QED BY <1>1, <1>2, Zenon DEF CaseKept

(***************************************************************************)
(* As long as get_char has not read the controller, the case is kept.      *)
(***************************************************************************)
LEMMA CaseStep ==
  KeyboardTyped /\ FlagsOK /\ CaseInv /\ [KeyboardNext]_keyboardVars => CaseInv'
<1> USE KeyboardAssumption
<1> SUFFICES ASSUME KeyboardTyped, FlagsOK, CaseInv, [KeyboardNext]_keyboardVars, ~polled'
             PROVE  CaseInv'
  BY DEF CaseInv
<1>1. ~polled /\ polled' = polled
  <2>1. polled' = polled \/ polled' = TRUE
    BY DEF KeyboardNext, KeyPressed, irq_handler, GetChar, GetCharBuffered, GetCharEmpty,
           GetCharStatus, GetCharData, SysReadStart, SysReadTakes, keyboardVars
  <2>2. CASE polled' = TRUE BY <2>2
  <2>3. CASE polled' = polled BY <2>3, Zenon
  <2> QED BY <2>1, <2>2, <2>3
<1>2. /\ irq <=> port.new
      /\ ~irq => shift_irq = held
      /\ irq => held = ShiftAfter(port.kind, shift_irq) /\ keys[port.key].upper = shift_irq
      /\ CaseKept(got) /\ CaseKept(Kbuf)
  BY <1>1, Zenon DEF CaseInv
<1>3. /\ got \in Seq(Slot) /\ Kbuf \in Seq(Slot) /\ Len(keys) \in Nat /\ port.key = Len(keys)
      /\ keys \in Seq([kind : Kinds, upper : BOOLEAN])
  BY KbufSeq DEF KeyboardTyped
<1>4. ASSUME NEW kind \in Kinds, KeyPressed(kind) PROVE CaseInv'
  <2> DEFINE k == [kind |-> kind, upper |-> held]
  <2>1. /\ keys' = Append(keys, k) /\ kbuf' = kbuf /\ got' = got /\ irq' = TRUE
        /\ ~port.new /\ shift_irq' = shift_irq
        /\ port' = [new |-> TRUE, key |-> Len(keys) + 1, kind |-> kind]
        /\ held' = ShiftAfter(kind, held)
    BY <1>4 DEF KeyPressed, ShiftAfter
  <2>2. k \in [kind : Kinds, upper : BOOLEAN] /\ k.upper = held BY Zenon DEF FlagsOK
  <2> HIDE DEF k
  <2>3. keys'[Len(keys) + 1] = k BY <1>3, <2>1, <2>2, AppendProperties
  <2>4. Kbuf' = Kbuf BY <2>1 DEF Kbuf
  <2>5. CaseKept(got)' BY <1>2, <1>3, <2>1, <2>2, CaseLater
  <2>6. CaseKept(Kbuf)' BY <1>2, <1>3, <2>1, <2>2, <2>4, CaseLater
  <2>7. port'.new = TRUE /\ port'.key = Len(keys) + 1 /\ port'.kind = kind BY <2>1
  <2>8. shift_irq = held BY <1>2, <2>1, Zenon
  <2>9. held' = ShiftAfter(port'.kind, shift_irq') BY <2>1, <2>7, <2>8
  <2>10. keys'[port'.key].upper = shift_irq' BY <2>1, <2>2, <2>3, <2>7, <2>8, Zenon
  <2> QED BY <2>1, <2>5, <2>6, <2>7, <2>9, <2>10, Zenon DEF CaseInv
<1>5. CASE irq_handler
  <2>1. /\ irq /\ irq' = FALSE /\ keys' = keys /\ got' = got /\ held' = held
        /\ port' = [port EXCEPT !.new = FALSE]
        /\ shift_irq' = ShiftAfter(port.kind, shift_irq)
    BY <1>5 DEF irq_handler
  <2>2. port'.new = FALSE BY <2>1 DEF KeyboardTyped
  <2>3. shift_irq' = held' BY <1>2, <2>1, Zenon
  <2>4. CaseKept(got)' BY <1>2, <2>1, Zenon DEF CaseKept
  <2>5. CaseKept(Kbuf)'
    <3>1. CASE kbuf' = kbuf
      <4>1. Kbuf' = Kbuf BY <3>1 DEF Kbuf
      <4> QED BY <1>2, <2>1, <4>1, Zenon DEF CaseKept
    <3>2. ASSUME NEW x \in Slot, x.key = port.key, x.upper = shift_irq,
                 Kbuf' = Append(Kbuf, x)
          PROVE  CaseKept(Kbuf)'
      <4>1. port.key >= 1 BY <2>1 DEF KeyboardTyped
      <4>2. x.key \in 1 .. Len(keys) BY <1>3, <3>2, <4>1
      <4>3. x.upper = keys[x.key].upper BY <1>2, <2>1, <3>2, Zenon
      <4>4. CaseKept(Append(Kbuf, x)) BY <1>2, <1>3, <4>2, <4>3, CaseAppended
      <4> QED BY <2>1, <3>2, <4>4, Zenon DEF CaseKept
    <3>3. shift_irq \in BOOLEAN BY DEF FlagsOK
    <3> QED BY <1>5, <3>1, <3>2, <3>3, StoreEffect, Zenon
  <2> QED BY <2>1, <2>2, <2>3, <2>4, <2>5, Zenon DEF CaseInv
<1>6. ASSUME UNCHANGED <<port, irq, keys, held, shift_irq>>, CaseKept(got'), CaseKept(Kbuf')
      PROVE  CaseInv'
  <2>1. CaseKept(got)' /\ CaseKept(Kbuf)' BY <1>6, Zenon DEF CaseKept
  <2> QED BY <1>2, <1>6, <2>1, Zenon DEF CaseInv
<1>7. ASSUME kb_getchar PROVE CaseKept(got') /\ CaseKept(Kbuf')
  <2>1. /\ Kbuf # <<>> /\ Kbuf' = Tail(Kbuf)
        /\ got' = got \/ got' = Append(got, Head(Kbuf))
    BY <1>7, TakeEffect
  <2>2. /\ CaseKept(Tail(Kbuf))
        /\ Head(Kbuf) \in Slot /\ Head(Kbuf).key \in 1 .. Len(keys)
        /\ Head(Kbuf).upper = keys[Head(Kbuf).key].upper
    BY <1>2, <1>3, <2>1, CaseTaken
  <2>3. CaseKept(Append(got, Head(Kbuf))) BY <1>2, <1>3, <2>2, CaseAppended
  <2> QED BY <1>2, <2>1, <2>2, <2>3, Zenon
<1>8. CASE GetCharBuffered \/ SysReadTakes
  <2>1. kb_getchar /\ UNCHANGED <<port, irq, keys, held, shift_irq>>
    BY <1>8 DEF GetCharBuffered, SysReadTakes
  <2> QED BY <1>6, <1>7, <2>1, Zenon
<1>9. CASE GetCharEmpty \/ GetCharStatus \/ SysReadStart \/ UNCHANGED keyboardVars
  <2>1. UNCHANGED <<port, irq, keys, held, shift_irq, got, kbuf>>
    BY <1>9 DEF GetCharEmpty, GetCharStatus, SysReadStart, keyboardVars
  <2>2. Kbuf' = Kbuf /\ got' = got BY <2>1 DEF Kbuf
  <2>3. CaseKept(got') /\ CaseKept(Kbuf') BY <1>2, <2>2, Zenon
  <2> QED BY <1>6, <2>1, <2>3
<1>10. CASE GetCharData BY <1>1, <1>10, Zenon DEF GetCharData
<1> QED BY <1>4, <1>5, <1>8, <1>9, <1>10, Zenon DEF KeyboardNext, GetChar

KeyboardInv == KeyboardTyped /\ FlagsOK /\ KeyOrder /\ CaseInv

(***************************************************************************)
(* The invariant holds before the first key.                               *)
(***************************************************************************)
LEMMA KeyboardInitInv == KeyboardInit => KeyboardInv
<1> USE KeyboardAssumption
<1> SUFFICES ASSUME KeyboardInit PROVE KeyboardInv OBVIOUS
<1>1. /\ port = [new |-> FALSE, key |-> 0, kind |-> "none"] /\ irq = FALSE
      /\ kbuf = Empty(KBUF_SIZE, NoKey) /\ keys = <<>> /\ got = <<>>
      /\ polled = FALSE /\ get_char = "buffer" /\ shift_irq = FALSE /\ held = FALSE
  BY DEF KeyboardInit
<1>2. NoKey \in Slot BY Zenon DEF NoKey, Slot
<1>3. IsRing(KBUF_SIZE, kbuf, Slot) /\ IsEmpty(kbuf)
      /\ \A i \in 0 .. KBUF_SIZE - 1 : kbuf.buf[i] = NoKey
  <2> HIDE DEF NoKey, Slot
  <2> QED BY <1>1, <1>2 DEF Empty, IsRing, IsEmpty
<1>4. Len(Kbuf) = 0
  <2>1. Len(Kbuf) = Held(KBUF_SIZE, kbuf) BY <1>3, ContentsSeq DEF Kbuf
  <2>2. Held(KBUF_SIZE, kbuf) = 0 BY <1>3, HeldBounds
  <2> QED BY <2>1, <2>2
<1>5. KeyboardTyped
  <2>1. port \in [new : BOOLEAN, key : Nat, kind : Kinds \cup {"none"}] BY <1>1
  <2>2. port.key = 0 /\ port.new = FALSE /\ Len(keys) = 0 BY <1>1
  <2>3. got \in Seq(Slot) /\ keys \in Seq([kind : Kinds, upper : BOOLEAN]) BY <1>1
  <2> QED BY <1>1, <1>3, <2>1, <2>2, <2>3 DEF KeyboardTyped
<1>6. FlagsOK BY DEF KeyboardInit, FlagsOK
<1>7. KeyOrder
  <2>1. Len(got) = 0 /\ 1 .. 0 = {} BY <1>1
  <2>2. FromRing(got, Kbuf, {}, RingLimit) BY <1>4, <2>1 DEF FromRing, Increasing
  <2>3. FromPort(got, {}, PortLimit) BY <1>4, <2>1 DEF FromPort, Increasing
  <2> QED BY <2>2, <2>3 DEF KeyOrder
<1>8. CaseInv
  <2>1. Len(got) = 0 /\ 1 .. 0 = {} BY <1>1
  <2>2. CaseKept(got) /\ CaseKept(Kbuf) BY <1>4, <2>1 DEF CaseKept
  <2>3. port.new = FALSE BY <1>1
  <2> QED BY <1>1, <2>2, <2>3 DEF CaseInv
<1> QED BY <1>5, <1>6, <1>7, <1>8 DEF KeyboardInv

(***************************************************************************)
(* Every step keeps the invariant.                                         *)
(***************************************************************************)
LEMMA KeyboardStep == KeyboardInv /\ [KeyboardNext]_keyboardVars => KeyboardInv'
BY KeyboardTypedStep, FlagsStep, KeyOrderStep, CaseStep, Zenon DEF KeyboardInv

(***************************************************************************)
(* The ring, the controller and the flags keep their types; every key in   *)
(* kbuf was pressed.                                                       *)
(***************************************************************************)
THEOREM KeyboardTyping == KeyboardSpec => []KeyboardTypeOK
<1>1. KeyboardInv => KeyboardTypeOK
  <2> SUFFICES ASSUME KeyboardInv PROVE KeyboardTypeOK OBVIOUS
  <2>1. KeyboardTyped /\ FlagsOK BY DEF KeyboardInv
  <2>2. kbuf.head \in 0 .. KBUF_SIZE - 1 /\ kbuf.tail \in 0 .. KBUF_SIZE - 1
    BY <2>1 DEF KeyboardTyped, IsRing
  <2>3. \A i \in 0 .. KBUF_SIZE - 1 : kbuf.buf[i] = NoKey \/ kbuf.buf[i].key \in Pressed
    BY <2>1 DEF KeyboardTyped, Pressed
  <2>4. port.new \in BOOLEAN BY <2>1 DEF KeyboardTyped
  <2>5. port.key \in Pressed \cup {0}
    <3>1. port.key = Len(keys) /\ Len(keys) \in Nat BY <2>1 DEF KeyboardTyped
    <3> QED BY <3>1 DEF Pressed
  <2> QED BY <2>1, <2>2, <2>3, <2>4, <2>5, Zenon DEF KeyboardTypeOK, FlagsOK
<1> QED BY <1>1, KeyboardInitInv, KeyboardStep, PTL DEF KeyboardSpec

(***************************************************************************)
(* For a ring of every size and any number of keys: as long as get_char    *)
(* has not read the controller, the shell and sys_read together get the    *)
(* characters in the order and the case in which they were typed.          *)
(***************************************************************************)
THEOREM KeysStayFaithful == KeyboardSpec => []KeysFaithful
<1>1. KeyboardInv => KeysFaithful
  <2> SUFFICES ASSUME KeyboardInv, ~polled, NEW i \in 1 .. Len(got)
               PROVE  /\ got[i].upper = keys[got[i].key].upper
                      /\ \A j \in 1 .. i - 1 : got[j].key < got[i].key
    BY Zenon DEF KeysFaithful
  <2>1. got[i].upper = keys[got[i].key].upper BY Zenon DEF KeyboardInv, CaseInv, CaseKept
  <2>2. FromRing(got, Kbuf, {}, RingLimit) BY Zenon DEF KeyboardInv, KeyOrder
  <2>3. ASSUME NEW j \in 1 .. i - 1 PROVE got[j].key < got[i].key
    <3>1. Len(got) \in Nat BY DEF KeyboardInv, KeyboardTyped
    <3>2. j \in (1 .. Len(got)) \ {} /\ i \in (1 .. Len(got)) \ {} /\ j < i BY <3>1
    <3> QED BY <2>2, <3>2 DEF FromRing, Increasing
  <2> QED BY <2>1, <2>3
<1> QED BY <1>1, KeyboardInitInv, KeyboardStep, PTL DEF KeyboardSpec

(***************************************************************************)
(* A key reaches the readers at most twice: once from kbuf and once from   *)
(* the controller.                                                         *)
(***************************************************************************)
THEOREM NoKeyThrice == KeyboardSpec => []AtMostTwice
<1>1. KeyboardInv => AtMostTwice
  <2> SUFFICES ASSUME KeyboardInv, NEW i \in 1 .. Len(got), NEW j \in 1 .. Len(got),
                      NEW k \in 1 .. Len(got), i < j, j < k,
                      got[i].key = got[j].key, got[j].key = got[k].key
               PROVE  FALSE
    BY Zenon DEF AtMostTwice
  <2>1. PICK D : FromRing(got, Kbuf, D, RingLimit) /\ FromPort(got, D, PortLimit)
    BY Zenon DEF KeyboardInv, KeyOrder
  <2>2. i < k OBVIOUS
  <2>3. got \in Seq(Slot) BY DEF KeyboardInv, KeyboardTyped
  <2>4. got[i].key \in Int /\ got[j].key \in Int /\ got[k].key \in Int BY <2>3, SlotKeys
  <2>5. ASSUME NEW a \in 1 .. Len(got), NEW b \in 1 .. Len(got), a < b, a \in D <=> b \in D
        PROVE  got[a].key < got[b].key
    <3>1. CASE a \in D BY <2>1, <2>5, <3>1 DEF FromPort, Increasing
    <3>2. CASE a \notin D BY <2>1, <2>5, <3>2 DEF FromRing, Increasing
    <3> QED BY <3>1, <3>2
  <2>6. (i \in D <=> j \in D) \/ (j \in D <=> k \in D) \/ (i \in D <=> k \in D) OBVIOUS
  <2> QED BY <2>2, <2>4, <2>5, <2>6
<1> QED BY <1>1, KeyboardInitInv, KeyboardStep, PTL DEF KeyboardSpec
=============================================================================
