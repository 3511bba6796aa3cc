--------------------------- MODULE MCNodeGateway ---------------------------
\* NodeGatewayProps for TLC: either every connection and no dispatch, or all but
\* one of the connections and the dispatches.
EXTENDS NodeGatewayProps

MCInit ==
    /\ Init
    /\ \/ \A d \in Dispatches : dispatchPc[d] = "done"
       \/ pc[CHOOSE s \in Sessions : TRUE] = "done"

MCSpec == MCInit /\ [][Next]_vars /\ Fairness
=============================================================================
