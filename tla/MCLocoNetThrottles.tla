-------------------------- MODULE MCLocoNetThrottles --------------------------
EXTENDS LocoNetThrottles

CONSTANTS l1, l2

Stealers == {1}
==============================================================================
