--------------------------- MODULE MCIdReservations ---------------------------
\* Two documents, each in a project of its own.
EXTENDS IdReservations

CONSTANTS d1, d2, p1, p2

MCDocs == {d1, d2}
TwoProjects == [d \in MCDocs |-> IF d = d1 THEN p1 ELSE p2]
=============================================================================
