----------------------------- MODULE MCStartup -------------------------------
(***************************************************************************)
(* Startup with one volume, fields of three subsystems, and a pipe that    *)
(* holds all but the longest command.                                      *)
(***************************************************************************)
EXTENDS Startup

CONSTANTS s1, s2

TwoSlots == {s1, s2}
MCFields == {"limit", "cpus", "mems"}
MCSubsystem == [f \in MCFields |-> IF f = "limit" THEN "memory" ELSE "cpuset"]

Asks(c, b, h, g) == [argv |-> c, bad |-> b, host |-> <<h>>, guest |-> <<g>>]

Short == <<"blank", "word", "opens">>
Commands == {<<>>, Short, <<"word", "word", "closes">>, <<"word", "word", "word", "word">>}

\* Every volume with one command, and every command and limit with one volume.
MCRequests ==
  {Asks(Short, {}, h, g) : h, g \in FirstKinds}
    \cup {Asks(c, b, "empty", "data") : c \in Commands, b \in {{}, {"limit"}, {"cpus"}}}
=============================================================================
