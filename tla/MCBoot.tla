------------------------------- MODULE MCBoot -------------------------------
(* A disk of two inodes, each in a sector of its own, and two data sectors *)
(* of two bytes; files of at most one block.                               *)
EXTENDS Boot

TwoNames == {"a", "b"}
Fit2 == [n \in TwoNames |-> n]
MCPayloads == {<<>>, <<1>>}
=============================================================================
