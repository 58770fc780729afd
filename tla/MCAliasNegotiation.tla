------------------------- MODULE MCAliasNegotiation -------------------------
EXTENDS AliasNegotiation

CONSTANTS gui, dev

\* The identifiers of both lead to the same first alias.
MCStartAlias == [n \in Nodes |-> 1]
=============================================================================
