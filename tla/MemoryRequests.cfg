\* Safety and refinement of the request queue: every interleaving of two
\* requests, one retry, losses, slow nodes and failing writes.
SPECIFICATION FairSpec
CONSTANTS
  n1 = n1
  n2 = n2
  s1 = s1
  NoNode = NoNode
  Nodes = {n1, n2}
  Spaces = {s1}
  Requests <- MCRequests
  MaxRequests = 2
  MaxRetries = 1
  MaxBacklog = 2
INVARIANTS NoLostWakeup OkIsGenuine
PROPERTIES QueueSpec EventuallySettled
