----------------------------- MODULE MCCommand -----------------------------
(* An instance of Command for TLC: a command with up to two descendants,   *)
(* left over from earlier commands or its own.                             *)
EXTENDS Command

CONSTANTS child, d1, d2
============================================================================
