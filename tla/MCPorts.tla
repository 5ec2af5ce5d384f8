------------------------------ MODULE MCPorts --------------------------------
(***************************************************************************)
(* Ports with a container that publishes one host port, and one that       *)
(* publishes that one and another.                                         *)
(***************************************************************************)
EXTENDS MCContainer, Ports

CONSTANTS h1, h2

TwoPorts == {h1, h2}
MCPublishes == c1 :> <<h1>> @@ c2 :> <<h1, h2>>

=============================================================================
