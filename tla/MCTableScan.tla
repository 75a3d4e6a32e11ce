---------------------------- MODULE MCTableScan ----------------------------
EXTENDS TableScan, TLC
Symmetry == Permutations(PmtPids)
=============================================================================
