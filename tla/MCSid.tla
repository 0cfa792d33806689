------------------------------- MODULE MCSid -------------------------------
EXTENDS SidEnvelope

Shape(a, d, n, r) == [attack |-> a, decay |-> d, nibble |-> n, release |-> r]

\* The fastest rates and slow ones, without decay and with it, sustain off, in range
\* and as high as it can be set.
Tunes == {Shape(0, 0, 1, 0), Shape(1, 1, 0, 1), Shape(9, 4, 15, 3)}
=============================================================================
