------------------------------- MODULE MCIpam -------------------------------
(***************************************************************************)
(* Ipam on four subnets: two neighbouring /30 at the end of a /24, so that *)
(* the address of the last bit wraps around or falls in the neighbour, a   *)
(* /29 that covers both, and a /23, which Create refuses.                  *)
(***************************************************************************)
EXTENDS Ipam

MCNets == {"n"}

MCSubnets ==
  { [net |-> "n", base |-> 248, size |-> 4],
    [net |-> "n", base |-> 252, size |-> 4],
    [net |-> "n", base |-> 248, size |-> 8],
    [net |-> "n", base |-> 0,   size |-> 512] }

=============================================================================
