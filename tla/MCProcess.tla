------------------------------ MODULE MCProcess -----------------------------
(* Two kernel tasks and room for three programs. *)
EXTENDS Process
=============================================================================
