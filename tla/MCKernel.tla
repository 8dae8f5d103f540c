------------------------------ MODULE MCKernel ------------------------------
(***************************************************************************)
(* The kernel's channels and its page allocator for TLC.  They share no    *)
(* state, so one run checks them one at a time: Init picks the part that   *)
(* moves.                                                                  *)
(***************************************************************************)
EXTENDS Events, Keyboard, LineEdit, Pipes, Pages

VARIABLE part

MCEventTypes == {EVENT_TERMINATE, -2}

Parts == {"events", "keyboard", "line", "pipes", "pages"}

vars == <<eventVars, keyboardVars, lineVars, pipeVars, pageVars, part>>

Init ==
  /\ EventsInit /\ KeyboardInit /\ LineInit /\ PipesInit /\ PagesInit
  /\ part \in Parts
  /\ part # "line" => prompt = Command

EventsMove ==
  /\ part = "events" /\ EventsNext
  /\ UNCHANGED <<keyboardVars, lineVars, pipeVars, pageVars, part>>

KeyboardMoves ==
  /\ part = "keyboard" /\ KeyboardNext
  /\ UNCHANGED <<eventVars, lineVars, pipeVars, pageVars, part>>

LineMoves ==
  /\ part = "line" /\ LineNext
  /\ UNCHANGED <<eventVars, keyboardVars, pipeVars, pageVars, part>>

PipesMove ==
  /\ part = "pipes" /\ PipesNext
  /\ UNCHANGED <<eventVars, keyboardVars, lineVars, pageVars, part>>

PagesMove ==
  /\ part = "pages" /\ PagesNext
  /\ UNCHANGED <<eventVars, keyboardVars, lineVars, pipeVars, part>>

Next == EventsMove \/ KeyboardMoves \/ LineMoves \/ PipesMove \/ PagesMove

\* The fairness of the part that moves; the others stand still.
Fairness ==
  /\ \A p \in Programs : WF_eventVars(part = "events" /\ PollStep(p))
  /\ WF_keyboardVars(part = "keyboard" /\ irq_handler)
  /\ WF_keyboardVars(part = "keyboard" /\ GetChar)
  /\ \A id \in PipeId : /\ WF_pipeVars(part = "pipes" /\ ReadStep(id))
                        /\ WF_pipeVars(part = "pipes" /\ WriteStep(id))

Spec == Init /\ [][Next]_vars /\ Fairness
=============================================================================
