------------------------------- MODULE MCCli -------------------------------
(* Cli for TLC: two texts that can be written, one of them without the      *)
(* piece that can be edited just once; a call for every way a tool may be   *)
(* classified; and commands that remove the file, one of them by a program  *)
(* of one's own that has a listed name.                                     *)
EXTENDS Cli

MCCalls ==
    {[tool |-> "write_file", inside |-> TRUE, content |-> <<"p", "p">>],
     [tool |-> "write_file", inside |-> TRUE, content |-> <<"p">>],
     [tool |-> "edit_file", inside |-> TRUE, old |-> "p", new |-> "q"],
     [tool |-> "run_shell", listed |-> FALSE, removes |-> TRUE],
     [tool |-> "run_shell", listed |-> TRUE, removes |-> TRUE],
     [tool |-> "send_email"]}
=============================================================================
