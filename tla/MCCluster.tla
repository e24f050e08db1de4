------------------------------ MODULE MCCluster ------------------------------
(* Two instances.  MCSingle gives each one attempt; MCAttempts lets the    *)
(* first instance be retried once.                                         *)
EXTENDS Cluster

MCSingle == [k \in 1..2 |-> 1]
MCAttempts == [k \in 1..2 |-> IF k = 1 THEN 2 ELSE 1]
============================================================================
