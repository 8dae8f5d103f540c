------------------------------ MODULE LineEdit ------------------------------
(***************************************************************************)
(* get_line and the history of the shell: the line being typed at a        *)
(* prompt, the ring of the last commands, and the arrow keys that recall   *)
(* them (serial port or controller).                                       *)
(*                                                                         *)
(* The same function reads commands, the lines of edit, and the names,     *)
(* passwords and answers of prompts whose buffers are much shorter; only   *)
(* commands enter the history.                                             *)
(***************************************************************************)
EXTENDS Integers, Sequences

CONSTANTS HIST_MAX,
          LINE,            \* sizeof input_buffer and of a history entry
          Short,           \* the sizes of the other prompts' buffers
          Chars,
          MaxLines         \* bound of the model on lines entered

ASSUME LineAssumption ==
  /\ HIST_MAX \in Nat /\ HIST_MAX >= 1
  /\ LINE \in Nat /\ LINE >= 2 /\ Short \subseteq 2 .. LINE
  /\ MaxLines \in Nat

VARIABLES prompt,          \* max_len, and whether a command is asked for
          line,            \* buffer[0 .. i - 1]
          hist_buf, hist_idx, hist_count, hist_scroll,
          overrun,         \* get_line has written past its buffer
          entered          \* history: the commands entered

lineVars == <<prompt, line, hist_buf, hist_idx, hist_count, hist_scroll, overrun, entered>>
history == <<hist_buf, hist_idx, hist_count, entered>>

Command == [max_len |-> LINE, command |-> TRUE]
Prompts == {Command} \cup [max_len : Short \cup {LINE}, command : {FALSE}]

\* Mutant: the terminator is forgotten when the line is limited.
TypeChar_NoRoom(c) ==
  /\ ~overrun
  /\ line' = IF Len(line) < prompt.max_len THEN Append(line, c) ELSE line
  /\ overrun' = (Len(line') >= prompt.max_len)
  /\ UNCHANGED <<prompt, history, hist_scroll>>

TypeChar(c) ==
  /\ ~overrun
  /\ line' = IF Len(line) < prompt.max_len - 1 THEN Append(line, c) ELSE line
  /\ UNCHANGED <<prompt, history, hist_scroll, overrun>>

Backspace ==
  /\ ~overrun /\ line # <<>>
  /\ line' = SubSeq(line, 1, Len(line) - 1)
  /\ UNCHANGED <<prompt, history, hist_scroll, overrun>>

\* Mutant: the entry after the one that is meant.
Entry_OffByOne(scroll) == (hist_idx - scroll + HIST_MAX) % HIST_MAX

Entry(scroll) == (hist_idx - scroll - 1 + HIST_MAX) % HIST_MAX

\* The copy is limited, but the length and the terminator are the entry's.
Recall(scroll) ==
  /\ hist_scroll' = scroll
  /\ line' = hist_buf[Entry(scroll)]
  /\ overrun' = (Len(line') >= prompt.max_len)
  /\ UNCHANGED <<prompt, history>>

ArrowUp ==
  /\ ~overrun /\ hist_count # 0 /\ hist_scroll < hist_count - 1
  /\ Recall(hist_scroll + 1)

ArrowDown ==
  /\ ~overrun /\ hist_scroll > 0
  /\ Recall(hist_scroll - 1)

ArrowDownOut ==
  /\ ~overrun /\ hist_scroll <= 0
  /\ hist_scroll' = -1 /\ line' = <<>>
  /\ UNCHANGED <<prompt, history, overrun>>

\* Mutant: the number of entries is not limited.
Remember_NoLimit ==
  IF prompt.command /\ line # <<>>
  THEN /\ hist_buf' = [hist_buf EXCEPT ![hist_idx] = line]
       /\ hist_idx' = (hist_idx + 1) % HIST_MAX
       /\ hist_count' = hist_count + 1
       /\ entered' = Append(entered, line)
  ELSE UNCHANGED history

\* The command enters the history, if it is not empty.
Remember ==
  IF prompt.command /\ line # <<>>
  THEN /\ hist_buf' = [hist_buf EXCEPT ![hist_idx] = line]
       /\ hist_idx' = (hist_idx + 1) % HIST_MAX
       /\ hist_count' = IF hist_count < HIST_MAX THEN hist_count + 1 ELSE hist_count
       /\ entered' = Append(entered, line)
  ELSE UNCHANGED history

\* Enter, and the next prompt.  An empty line leaves hist_scroll where it is.
Enter(next) ==
  /\ ~overrun /\ Len(entered) < MaxLines
  /\ Remember
  /\ hist_scroll' = IF line # <<>> THEN -1 ELSE hist_scroll
  /\ prompt' = next /\ line' = <<>>
  /\ UNCHANGED overrun

LineInit ==
  /\ prompt \in Prompts /\ line = <<>>
  /\ hist_buf = [i \in 0 .. HIST_MAX - 1 |-> <<>>]
  /\ hist_idx = 0 /\ hist_count = 0 /\ hist_scroll = -1
  /\ overrun = FALSE /\ entered = <<>>

LineNext ==
  \/ \E c \in Chars : TypeChar(c)
  \/ \E p \in Prompts : Enter(p)
  \/ Backspace \/ ArrowUp \/ ArrowDown \/ ArrowDownOut

LineSpec == LineInit /\ [][LineNext]_lineVars

-----------------------------------------------------------------------------
\* The types of the line and of the history; the index of an entry is computed
\* from a number that is never negative.
LineTypeOK ==
  /\ prompt \in Prompts
  /\ hist_idx \in 0 .. HIST_MAX - 1 /\ hist_count \in 0 .. HIST_MAX
  /\ hist_scroll \in -1 .. HIST_MAX - 1 /\ hist_idx - hist_scroll - 1 + HIST_MAX >= 0
  /\ \A i \in 0 .. HIST_MAX - 1 : Len(hist_buf[i]) < LINE
  /\ overrun \in BOOLEAN

(***************************************************************************)
(* Whatever was typed, recalled, erased and entered at prompts of any      *)
(* kind, the entry the arrow keys point at is the command entered that     *)
(* many commands ago, also after the ring of entries has wrapped.          *)
(***************************************************************************)
RecallsEntered ==
  hist_scroll >= 0 => /\ hist_scroll < hist_count
                      /\ hist_buf[Entry(hist_scroll)] = entered[Len(entered) - hist_scroll]

(***************************************************************************)
(* At the command prompt and in edit a line always fits its buffer; a      *)
(* prompt with a shorter one is only overrun by recalling a command.       *)
(***************************************************************************)
LineFits ==
  /\ overrun => prompt.max_len < LINE /\ hist_scroll >= 0
  /\ ~overrun => Len(line) < prompt.max_len
=============================================================================
