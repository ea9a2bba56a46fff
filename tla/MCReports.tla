------------------------------- MODULE MCReports -------------------------------
(* Instances of CycleReports, and of the modules it extends, for TLC. *)
EXTENDS CycleReports
\* Ark differs from OpenCode only in that a prune of it never fails.
MCKinds == AllKinds \ {"ark"}
MCOne == {"kimi"}
MCShared == {"minimax", "antigravity"}
MCLimited == {"synthetic"}
\* Bound: how many of the snapshots that are kept are without the quota.
MaxGaps == 1
FewGaps == Cardinality({i \in DOMAIN snapshots : ~snapshots[i].has}) <= MaxGaps
===============================================================================
