----------------------------- MODULE MCOptions -----------------------------
EXTENDS Options

\* A non-positive duration (disabled), one inside the clamps, one above.
MCDurations == {-1, 0, 1000, 60000}

=============================================================================
