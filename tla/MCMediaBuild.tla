---------------------------- MODULE MCMediaBuild ----------------------------
(* A small instance of MediaBuild for TLC. *)
EXTENDS MediaBuild, TLC

CONSTANTS stand, miniroot, boot42, uue, b1, b2

\* Two tape files of different block sizes.
TwoFiles == <<[name |-> stand, size |-> 1], [name |-> miniroot, size |-> 2]>>

\* Empty, shorter than a block, a whole block of zeros, longer than a block.
FewContents == {<<>>, <<1>>, <<0, 0>>, <<2, 0, 1>>}

Symmetry == Permutations(Builders) \cup Permutations(Boots)
==============================================================================
