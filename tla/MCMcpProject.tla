---------------------------- MODULE MCMcpProject ------------------------------
\* The callers and the contents are interchangeable.
EXTENDS McpProject, TLC

Symmetry == Permutations(Callers) \cup Permutations(Contents)
=============================================================================
