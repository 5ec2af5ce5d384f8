------------------------------ MODULE MCImages -------------------------------
(***************************************************************************)
(* Images with one installed layer, a reference to it with and without a   *)
(* tag, and a name for a new image.                                        *)
(***************************************************************************)
EXTENDS Images, TLC

CONSTANTS busybox, web, v1, last, i1, i2, b1, b2, u1, u2

MCRefs == {<<busybox>>, <<busybox, v1>>, <<web>>}
TwoUsers == {u1, u2}
TwoIds == {i1, i2}
TwoBoxes == {b1, b2}

Symmetric == Permutations(TwoUsers) \cup Permutations(TwoIds) \cup Permutations(TwoBoxes)

=============================================================================
