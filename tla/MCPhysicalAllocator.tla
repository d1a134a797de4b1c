------------------------- MODULE MCPhysicalAllocator -------------------------
\* PhysicalAllocator on a small memory map, for TLC.
EXTENDS PhysicalAllocator
Area(b, l, r) == [base |-> b, length |-> l, ram |-> r]

\* Two units to a page.  Like a PC's: low memory that ends inside a page, a
\* hole, and memory above whose first page holds the kernel.
PcMap == <<Area(0, 7, TRUE), Area(7, 5, FALSE), Area(12, 8, TRUE)>>
PcReserved == {[start |-> 0, size |-> 2], [start |-> 12, size |-> 2]}
==============================================================================
