------------------------------ MODULE MCEvents ------------------------------
EXTENDS Events

CONSTANTS s1, s2

MCSubs == {s1, s2}

=============================================================================
