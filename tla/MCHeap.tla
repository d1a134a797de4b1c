-------------------------------- MODULE MCHeap --------------------------------
(* Heap for TLC: pages of four bytes, as a large block reserves a page for each *)
(* of its bytes; an index of the top table for each window, and few frames.     *)
EXTENDS Heap

MCPageWindow == {0}
MCSmallWindow == {1}
MCLargeStart == 2 * Width[Levels - 1]
MCLargeEnd == 3 * Width[Levels - 1]
MCBucketSizes == <<1, 2>>
MCBucketCounts == <<2, 1>>
MCRequests == {1, 2, 4, 8}
===============================================================================
