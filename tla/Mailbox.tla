------------------------------- MODULE Mailbox ------------------------------
(***************************************************************************)
(* What an inbox promises: a bounded queue per owner.  What was accepted   *)
(* is handed to the owner in order, once, and unchanged until the owner    *)
(* takes the next one.                                                     *)
(***************************************************************************)
EXTENDS Integers, Sequences

CONSTANTS Owner, Item, Capacity

VARIABLES queue,      \* what each owner has not taken yet
          taken       \* what each owner took last

Init == queue = [o \in Owner |-> <<>>] /\ taken \in [Owner -> Item]

Accept(o, x) ==
  /\ Len(queue[o]) < Capacity
  /\ queue' = [queue EXCEPT ![o] = Append(@, x)]
  /\ UNCHANGED taken

Take(o) ==
  /\ queue[o] # <<>>
  /\ taken' = [taken EXCEPT ![o] = Head(queue[o])]
  /\ queue' = [queue EXCEPT ![o] = Tail(@)]

Next == \E o \in Owner : Take(o) \/ \E x \in Item : Accept(o, x)

Spec == Init /\ [][Next]_<<queue, taken>>
=============================================================================
