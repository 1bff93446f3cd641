------------------------------ MODULE MCHeap ------------------------------
(* Heap at byte granularity, with the header size of the 32-bit kernel.    *)
EXTENDS Heap

(* Requests that round up, that fit a freed block exactly, that leave less *)
(* than a header, and that leave a header but not enough to split.         *)
SmallRequests == {1, 16, 24, 40, 64}
=============================================================================
