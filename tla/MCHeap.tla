------------------------------- MODULE MCHeap -------------------------------
(* A heap of 80 bytes with the real header size: up to five blocks at      *)
(* once, requests that split, that take a whole block and that cannot be   *)
(* served.                                                                 *)
EXTENDS Heap

MCRequests == {0, 1, 6, 12, 32, 70}
=============================================================================
