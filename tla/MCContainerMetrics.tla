------------------------- MODULE MCContainerMetrics -------------------------
(* An instance of ContainerMetrics for TLC. *)
EXTENDS ContainerMetrics, TLC

Symmetry == Permutations(Containers)

Reference(base, tag) == [repo |-> "", vendor |-> "", base |-> base, tag |-> tag]

\* Every container is a Redis, with the label of one service or with none.
OneImage == {Reference("redis", "7-alpine")}
LabelOrNone == {"redis-sort", ""}
Names == [c \in Containers |-> Reference(c, "")]    \* all different

\* In tenths of a unit.  1.1 KiB are no whole number of bytes; 1.1 kB are, but
\* the product of the floating-point numbers falls short of it.
Size(num, suffix, short) == [num |-> num, suffix |-> suffix, short |-> short]
NoBytes == Size(0, "B", FALSE)
LittleMemory == {NoBytes, Size(11, "KiB", FALSE)}
LittleAndHuge == {NoBytes, Size(11, "kB", TRUE), Size(10, "TB", FALSE)}
=============================================================================
