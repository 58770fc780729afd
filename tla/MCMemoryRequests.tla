-------------------------- MODULE MCMemoryRequests --------------------------
EXTENDS MemoryRequests

CONSTANTS n1, n2, s1

\* Two kinds of request that wait for a reply datagram and two that are settled
\* by Datagram Received OK; three of them compete for one node.
MCRequests == {
  [kind |-> "read",   alias |-> n1, space |-> s1],
  [kind |-> "write",  alias |-> n1, space |-> s1],
  [kind |-> "info",   alias |-> n1, space |-> s1],
  [kind |-> "update", alias |-> n2, space |-> s1]}
=============================================================================
