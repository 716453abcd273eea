----------------------------- MODULE MCCommands -----------------------------
(* Instances of Commands: the lengths of the commands.                     *)
EXTENDS Commands

Lengths == <<2, 3, 1, 2>>
=============================================================================
