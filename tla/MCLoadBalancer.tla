--------------------------- MODULE MCLoadBalancer ---------------------------
EXTENDS LoadBalancer

CONSTANTS u1, u2, u3, r1, r2

\* Two requests from the same client, so that they share a sticky session.
MCReqIp == [r \in {r1, r2} |-> "ip1"]
MCIpHash == [ip \in {"ip1"} |-> 1]

=============================================================================
