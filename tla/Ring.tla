-------------------------------- MODULE Ring --------------------------------
(***************************************************************************)
(* The ring buffer the kernel uses for event queues, the keyboard and      *)
(* pipes: n slots, of which one stays unused so that head = tail means     *)
(* empty.                                                                  *)
(***************************************************************************)
EXTENDS Integers, Sequences

Empty(n, x) == [buf |-> [i \in 0 .. n - 1 |-> x], head |-> 0, tail |-> 0]

\* Mutant: the index runs off the end of the buffer.
After_NoWrap(n, i) == i + 1

After(n, i) == (i + 1) % n

IsEmpty(r) == r.head = r.tail

Full(n, r) == After(n, r.head) = r.tail

Put(n, r, x) ==
  [buf |-> [r.buf EXCEPT ![r.head] = x], head |-> After(n, r.head), tail |-> r.tail]

First(r) == r.buf[r.tail]

DropFirst(n, r) == [buf |-> r.buf, head |-> r.head, tail |-> After(n, r.tail)]

-----------------------------------------------------------------------------
\* Slots in use, and what they hold in the order it was put in.
Held(n, r) == IF r.tail <= r.head THEN r.head - r.tail ELSE r.head - r.tail + n

At(n, r, k) == IF r.tail + k < n THEN r.buf[r.tail + k] ELSE r.buf[r.tail + k - n]

Contents(n, r) == [k \in 1 .. Held(n, r) |-> At(n, r, k - 1)]

IsRing(n, r, S) ==
  r \in [buf : [0 .. n - 1 -> S], head : 0 .. n - 1, tail : 0 .. n - 1]
=============================================================================
