------------------------------- MODULE MCAshFS -------------------------------
(* AshFS on a disk of two data sectors of two bytes, two inodes in one     *)
(* sector, and three names for them, which nothing tells apart.            *)
EXTENDS AshFS, TLC

CONSTANTS a, b, c

MCNames == {a, b, c}
Fit == [n \in MCNames |-> n]
NameSymmetry == Permutations(MCNames)

(* Empty, part of a block, two blocks that differ, one byte more than a    *)
(* file can hold, and a size for which, with a word of 8 values, the       *)
(* number of blocks wraps to 0.                                            *)
MCPayloads == {<<>>, <<1>>, <<2, 2, 1>>, <<1, 1, 1, 1, 1>>, <<1, 1, 1, 1, 1, 1, 1>>}

TwoBlocks == {<<2, 3, 4>>}

MCReadSizes == {2}
=============================================================================
