-------------------------- MODULE MCPermissionGate --------------------------
\* Small instances of PermissionGate for TLC.
EXTENDS PermissionGate

CONSTANTS w1, w2, c1, c2

TwoWorkers == {w1, w2}
TwoCallers == {c1, c2}
FirstWorker == {w1}
=============================================================================
