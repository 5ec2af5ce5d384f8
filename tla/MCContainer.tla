----------------------------- MODULE MCContainer ----------------------------
(***************************************************************************)
(* Small instances of Container.  The subnets are the smallest that show    *)
(* what happens: one with the gateway and one more address is exhausted by  *)
(* the second container.                                                    *)
(***************************************************************************)
EXTENDS Container, TLC

CONSTANTS n1, t1, t2, c1, c2, web, nil

MCNets == {n1}
Pair == [net |-> n1, base |-> 0, size |-> 2]
Quad == [net |-> n1, base |-> 252, size |-> 4]
MCSubnets == {Pair, Quad}

OneTerminal == {t1}
TwoTerminals == {t1, t2}
OneId == {c1}
TwoIds == {c1, c2}
OneName == {web}
NoNames == {}
TwoPids == {1, 2}
ThreePids == {1, 2, 3}
FourPids == {1, 2, 3, 4}

\* What another terminal may do about a container run on a terminal.
AgainstTty == {"run", "stop", "start", "rm", "ps"}

SetupFaults == {"workspace", "attach", "log"}
RaceFaults == {"die", "network", "log"}
Dies == {"die"}

IdSymmetry == Permutations(TwoIds)

=============================================================================
