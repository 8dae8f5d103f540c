------------------------------ MODULE Keyboard ------------------------------
(***************************************************************************)
(* From the keyboard controller to whoever reads the keyboard: irq_handler *)
(* fills kbuf; kb_getchar empties it for get_char in the shell and for     *)
(* sys_read in a program; get_char also reads the controller itself.       *)
(*                                                                         *)
(* Keys are numbered as they are pressed.  The interrupt may come at any   *)
(* time after the byte; a second byte before it is served raises no second *)
(* one.  The controller holds one byte: the next comes when it has been    *)
(* read, and reading again gives the same byte.  Arrow keys are stored as  *)
(* negative chars, which both callers of kb_getchar take for no key.       *)
(***************************************************************************)
EXTENDS Ring

CONSTANTS KBUF_SIZE,
          MaxKeys         \* bound of the model on keys pressed

ASSUME KeyboardAssumption ==
  KBUF_SIZE \in Nat /\ KBUF_SIZE >= 2 /\ MaxKeys \in Nat

Kinds == {"char", "arrow", "shift", "unshift"}

VARIABLES port,          \* the byte of the controller, and whether it is new
          irq,           \* IRQ 1 is pending
          kbuf,
          shift_irq,     \* shift_pressed of interrupts.c
          shift_shell,   \* shift_pressed of hexa.c
          held,          \* whether the shift key is held
          keys,          \* history: the keys pressed, with the case they were meant in
          got,           \* history: the characters readers were given
          dropped,       \* history: keys that found kbuf full
          polled,        \* history: get_char has read the controller
          get_char,      \* the shell's progress through get_char
          sys_read       \* whether a program is in sys_read

keyboardVars == <<port, irq, kbuf, shift_irq, shift_shell, held, keys, got, dropped, polled,
                  get_char, sys_read>>

NoKey == [key |-> 0, kind |-> "none", upper |-> FALSE]
Pressed == 1 .. Len(keys)

\* The break codes of other keys than shift are ignored everywhere and left out.
KeyPressed(kind) ==
  /\ Len(keys) < MaxKeys /\ ~port.new
  /\ kind = "shift" => ~held
  /\ kind = "unshift" => held
  /\ held' = (kind = "shift" \/ (held /\ kind # "unshift"))
  /\ keys' = Append(keys, [kind |-> kind, upper |-> held])
  /\ port' = [new |-> TRUE, key |-> Len(keys) + 1, kind |-> kind]
  /\ irq' = TRUE
  /\ UNCHANGED <<kbuf, shift_irq, shift_shell, got, dropped, polled, get_char, sys_read>>

\* Mutant: a full buffer loses its oldest character.
Stored_Overwrites(c) ==
  kbuf' = Put(KBUF_SIZE, IF Full(KBUF_SIZE, kbuf) THEN DropFirst(KBUF_SIZE, kbuf) ELSE kbuf, c)
    /\ UNCHANGED dropped

Stored(c) ==
  IF Full(KBUF_SIZE, kbuf) THEN dropped' = dropped \cup {c.key} /\ UNCHANGED kbuf
  ELSE kbuf' = Put(KBUF_SIZE, kbuf, c) /\ UNCHANGED dropped

ShiftAfter(kind, shift) == kind = "shift" \/ (shift /\ kind # "unshift")

\* Mutant: the case is that of the other shift_pressed.
irq_handler_ShellShift ==
  /\ irq /\ irq' = FALSE
  /\ port' = [port EXCEPT !.new = FALSE]
  /\ shift_irq' = ShiftAfter(port.kind, shift_irq)
  /\ IF port.kind \in {"shift", "unshift"} THEN UNCHANGED <<kbuf, dropped>>
     ELSE Stored([key |-> port.key, kind |-> port.kind, upper |-> shift_shell])
  /\ UNCHANGED <<shift_shell, held, keys, got, polled, get_char, sys_read>>

\* irq_handler for IRQ 1.
irq_handler ==
  /\ irq /\ irq' = FALSE
  /\ port' = [port EXCEPT !.new = FALSE]
  /\ shift_irq' = ShiftAfter(port.kind, shift_irq)
  /\ IF port.kind \in {"shift", "unshift"} THEN UNCHANGED <<kbuf, dropped>>
     ELSE Stored([key |-> port.key, kind |-> port.kind, upper |-> shift_irq])
  /\ UNCHANGED <<shift_shell, held, keys, got, polled, get_char, sys_read>>

\* Mutant: the tail runs off the end of the buffer.
kb_getchar_NoWrap ==
  /\ ~IsEmpty(kbuf)
  /\ kbuf' = [kbuf EXCEPT !.tail = @ + 1]
  /\ got' = IF First(kbuf).kind = "char" THEN Append(got, First(kbuf)) ELSE got

\* kb_getchar when kbuf holds something; a char below 0 is no answer.
kb_getchar ==
  /\ ~IsEmpty(kbuf)
  /\ kbuf' = DropFirst(KBUF_SIZE, kbuf)
  /\ got' = IF First(kbuf).kind = "char" THEN Append(got, First(kbuf)) ELSE got

\* get_char in the shell: kbuf first ...
GetCharBuffered ==
  /\ get_char = "buffer"
  /\ kb_getchar
  /\ get_char' = IF First(kbuf).kind = "char" THEN "buffer" ELSE "status"
  /\ UNCHANGED <<port, irq, shift_irq, shift_shell, held, keys, dropped, polled, sys_read>>

GetCharEmpty ==
  /\ get_char = "buffer" /\ IsEmpty(kbuf)
  /\ get_char' = "status"
  /\ UNCHANGED <<port, irq, kbuf, shift_irq, shift_shell, held, keys, got, dropped, polled,
                 sys_read>>

\* Mutant: the status is not looked at.
GetCharStatus_NoTest ==
  /\ get_char = "status"
  /\ get_char' = IF port.key # 0 THEN "data" ELSE "buffer"
  /\ UNCHANGED <<port, irq, kbuf, shift_irq, shift_shell, held, keys, got, dropped, polled,
                 sys_read>>

\* ... then inb(0x64) ...
GetCharStatus ==
  /\ get_char = "status"
  /\ get_char' = IF port.new THEN "data" ELSE "buffer"
  /\ UNCHANGED <<port, irq, kbuf, shift_irq, shift_shell, held, keys, got, dropped, polled,
                 sys_read>>

\* ... and inb(0x60), whatever the interrupt has read in between.
GetCharData ==
  /\ get_char = "data" /\ get_char' = "buffer"
  /\ port' = [port EXCEPT !.new = FALSE]
  /\ polled' = TRUE
  /\ shift_shell' = ShiftAfter(port.kind, shift_shell)
  /\ got' = IF port.kind \in {"char", "arrow"}
            THEN Append(got, [key |-> port.key, kind |-> port.kind, upper |-> shift_shell])
            ELSE got
  /\ UNCHANGED <<irq, kbuf, shift_irq, held, keys, dropped, sys_read>>

SysReadStart ==
  /\ ~sys_read /\ sys_read' = TRUE
  /\ UNCHANGED <<port, irq, kbuf, shift_irq, shift_shell, held, keys, got, dropped, polled,
                 get_char>>

\* sys_read loops until kb_getchar gives it a character.
SysReadTakes ==
  /\ sys_read /\ kb_getchar
  /\ sys_read' = (First(kbuf).kind # "char")
  /\ UNCHANGED <<port, irq, shift_irq, shift_shell, held, keys, dropped, polled, get_char>>

KeyboardInit ==
  /\ port = [new |-> FALSE, key |-> 0, kind |-> "none"] /\ irq = FALSE
  /\ kbuf = Empty(KBUF_SIZE, NoKey)
  /\ shift_irq = FALSE /\ shift_shell = FALSE /\ held = FALSE
  /\ keys = <<>> /\ got = <<>> /\ dropped = {} /\ polled = FALSE
  /\ get_char = "buffer" /\ sys_read = FALSE

GetChar == GetCharBuffered \/ GetCharEmpty \/ GetCharStatus \/ GetCharData

KeyboardNext ==
  (\E kind \in Kinds : KeyPressed(kind)) \/ irq_handler \/ GetChar \/ SysReadStart \/ SysReadTakes

\* Interrupts are served, and the shell, which waits for a key in get_char,
\* gets its turn.  Nobody has to press a key or call sys_read.
KeyboardFairness == WF_keyboardVars(irq_handler) /\ WF_keyboardVars(GetChar)

KeyboardSpec == KeyboardInit /\ [][KeyboardNext]_keyboardVars /\ KeyboardFairness

-----------------------------------------------------------------------------
\* The types of the ring, the controller and the flags.
KeyboardTypeOK ==
  /\ kbuf.head \in 0 .. KBUF_SIZE - 1 /\ kbuf.tail \in 0 .. KBUF_SIZE - 1
  /\ \A i \in 0 .. KBUF_SIZE - 1 : kbuf.buf[i] = NoKey \/ kbuf.buf[i].key \in Pressed
  /\ port.new \in BOOLEAN /\ port.key \in Pressed \cup {0}
  /\ shift_irq \in BOOLEAN /\ shift_shell \in BOOLEAN /\ held \in BOOLEAN
  /\ get_char \in {"buffer", "status", "data"} /\ sys_read \in BOOLEAN

(***************************************************************************)
(* As long as get_char has not read the controller itself, the readers     *)
(* together get the characters in the order and the case in which they     *)
(* were typed, each once, however the interrupt and two readers interleave *)
(* and whatever was dropped.                                               *)
(***************************************************************************)
KeysFaithful ==
  ~polled => \A i \in 1 .. Len(got) :
               /\ got[i].upper = keys[got[i].key].upper
               /\ \A j \in 1 .. i - 1 : got[j].key < got[i].key

(***************************************************************************)
(* Reading the controller beside the interrupt can deliver a key a second  *)
(* time, but never a third.                                                *)
(***************************************************************************)
AtMostTwice ==
  ~\E i, j, k \in 1 .. Len(got) : i < j /\ j < k /\ got[i].key = got[j].key /\ got[j].key = got[k].key

(***************************************************************************)
(* No character gets lost between the interrupt, the ring and the two      *)
(* readers: every one is read or found the ring full.                      *)
(***************************************************************************)
KeysArrive ==
  \A n \in 1 .. MaxKeys :
    (n \in Pressed /\ keys[n].kind = "char")
      ~> (n \in dropped \/ \E i \in 1 .. Len(got) : got[i].key = n)
=============================================================================
