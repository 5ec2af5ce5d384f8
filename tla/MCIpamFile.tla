----------------------------- MODULE MCIpamFile -----------------------------
(***************************************************************************)
(* IpamFile on two neighbouring /31 at the end of a /24 and the /30 that   *)
(* covers them.                                                            *)
(***************************************************************************)
EXTENDS IpamFile, TLC

MCNets == {"n"}

MCSubnets ==
  { [net |-> "n", base |-> 252, size |-> 2],
    [net |-> "n", base |-> 254, size |-> 2],
    [net |-> "n", base |-> 252, size |-> 4] }

\* Two subnets that overlap: concurrent calls race to create them.
MCOverlapping ==
  { [net |-> "n", base |-> 254, size |-> 2],
    [net |-> "n", base |-> 252, size |-> 4] }

Symmetry == Permutations(Procs)

=============================================================================
