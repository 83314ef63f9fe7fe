---------------------------- MODULE MCLifecycle -----------------------------
EXTENDS Lifecycle

CONSTANTS c1, c2

MCTwoConns == {c1, c2}
=============================================================================
