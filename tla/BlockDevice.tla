---------------------------- MODULE BlockDevice ----------------------------
(***************************************************************************)
(* What hexafs_block_read and hexafs_block_write promise to the rest of    *)
(* HEXAFS: a block that is not in doubt reads back the value last written  *)
(* to it.  A block comes into doubt when a write to it reports failure (the *)
(* caller was told that the sector may hold either value), and leaves it   *)
(* with the next write that succeeds.  While it is in doubt its value may  *)
(* change with every request.  A restart loses nothing that is not in      *)
(* doubt.  There is no cache here: the promise is that of a plain disk.    *)
(***************************************************************************)
CONSTANTS Lba,      \* the sectors HEXAFS addresses
          Value     \* what a sector can hold

VARIABLES view,     \* view[l]: what a read of l returns
          doubt,    \* the sectors whose last write reported failure
          ret       \* the answer to the last request

vars == <<view, doubt, ret>>

Answer(op, l, ok, v) == [op |-> op, lba |-> l, ok |-> ok, val |-> v]

Init == /\ view \in [Lba -> Value]
        /\ doubt = {}
        /\ ret = [op |-> "none"]

\* Only sectors in doubt, or in S, may change value.
OthersKeep(S) == /\ view' \in [Lba -> Value]
                 /\ \A m \in Lba \ (doubt \cup S) : view'[m] = view[m]

\* A read that succeeds returns the value of the sector.
Read(l) == /\ OthersKeep({})
           /\ ret' = Answer("read", l, TRUE, view'[l])
           /\ doubt' = doubt

\* A read may fail; it then tells the caller nothing.
ReadFail(l) == /\ ret' = [op |-> "read", lba |-> l, ok |-> FALSE]
               /\ UNCHANGED <<view, doubt>>

Write(l, v) == /\ OthersKeep({l})
               /\ view'[l] = v
               /\ doubt' = doubt \ {l}
               /\ ret' = Answer("write", l, TRUE, v)

WriteFail(l, v) == /\ OthersKeep({l})
                   /\ doubt' = doubt \cup {l}
                   /\ ret' = Answer("write", l, FALSE, v)

\* A flush or a restart: nothing that is not in doubt changes.
Settle == /\ OthersKeep({})
          /\ doubt' \subseteq doubt
          /\ ret' = [op |-> "none"]

Next == \/ \E l \in Lba : Read(l) \/ ReadFail(l)
        \/ \E l \in Lba, v \in Value : Write(l, v) \/ WriteFail(l, v)
        \/ Settle

Spec == Init /\ [][Next]_vars
=============================================================================
