--------------------------- MODULE MCStateMirror ---------------------------
\* Instances of StateMirror for TLC.
EXTENDS StateMirror

CONSTANTS a, b, c, k1, k2, v1, v2, x1, x2, d1, d2, d3

ThreeChunks == 1..3
=============================================================================
