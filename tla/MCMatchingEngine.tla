-------------------------- MODULE MCMatchingEngine --------------------------
EXTENDS MatchingEngine

\* Two price levels: one below and one above, so that orders cross, meet and
\* miss each other.
MCPrices == {1, 2}
=============================================================================
