---------------------------- MODULE MCSnapshotsV1 ----------------------------
\* A policy whose resources fit one snapshot or two.
EXTENDS SnapshotsV1

Sizes == <<2, 2, 1>>
Kinds == {"change", "failure", "restart", "orphan", "cascade"}
=============================================================================
