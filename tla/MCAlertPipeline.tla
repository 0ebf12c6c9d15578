--------------------------- MODULE MCAlertPipeline ---------------------------
EXTENDS AlertPipelineProps, TLC

CONSTANTS e1, p1, p2, s1, s2

MCEvents == {e1}
MCProcs == {p1, p2}
MCSlots == {s1, s2}
MCOne == {p1}
Symmetry == Permutations(MCProcs) \cup Permutations(MCSlots)
=============================================================================
