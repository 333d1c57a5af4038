---------------------------- MODULE MCSseStream ----------------------------
\* Small instances of SseStream for TLC.
EXTENDS SseStream

CONSTANTS k1, k2

TwoSlots == {k1, k2}
=============================================================================
