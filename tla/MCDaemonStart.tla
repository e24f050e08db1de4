---------------------------- MODULE MCDaemonStart ----------------------------
EXTENDS DaemonStart

CONSTANTS c1, c2, c3

MCCli == {c1, c2, c3}

=============================================================================
