---------------------------- MODULE MCJobSession ----------------------------
EXTENDS JobSession

CONSTANTS j1, j2, c1, c2, c3

MCInsts == {j1, j2}
MCCallers == {c1, c2, c3}
MCCallers2 == {c1, c2}

\* Both jobs run a trigger loop beside the RPC callers: the revived job's
\* manifest launches ["on", "always"], the job an Update or Launch installs
\* ["boot", "every 1m"].
MCLaunchKinds ==
    [j \in MCInsts |-> IF j = j1 THEN {"on", "always"} ELSE {"boot", "every"}]

\* The launch trigger "on <event>" alone, for runs with three callers.
MCEventOnly == [j \in MCInsts |-> {"on"}]

=============================================================================
