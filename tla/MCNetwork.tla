------------------------------ MODULE MCNetwork -----------------------------
(***************************************************************************)
(* Network with the default network and one more, on two neighbouring      *)
(* subnets.                                                                *)
(***************************************************************************)
EXTENDS Network, TLC

CONSTANTS n1, qsrdocker0, web, nil, u1, u2

MCNets == {n1}
Low  == [net |-> n1, base |-> 248, size |-> 4]
High == [net |-> n1, base |-> 252, size |-> 4]
MCSubnets == {Low, High}
MCNetIds == {qsrdocker0, web}
TwoUsers == {u1, u2}

UserSymmetry == Permutations(TwoUsers)

=============================================================================
