------------------------------ MODULE MCMkdisk ------------------------------
(* The kernel and the host tool taking turns on one small disk image.  The *)
(* image of seven bytes is within a block of WORD.                         *)
EXTENDS Mkdisk

TwoNames == {"a", "b"}
Fit2 == [n \in TwoNames |-> n]
KernelWrites == {<<1>>}
SmallImages == {<<2, 3>>, <<4, 5, 6>>}
MCImages == SmallImages \cup {<<7, 7, 7, 7, 7, 7, 7>>}
OneRead == {1}
=============================================================================
