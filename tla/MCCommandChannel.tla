--------------------------- MODULE MCCommandChannel ---------------------------
(* Small instances of CommandChannel: a link and its successor, and two      *)
(* commands, so that one can be issued while the other is being flushed.     *)
EXTENDS CommandChannel, TLC

Symmetry == Permutations(Cmd) \cup Permutations(Socket)
=============================================================================
