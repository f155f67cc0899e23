----------------------------- MODULE MCLifecycle ------------------------------
EXTENDS Lifecycle
CONSTANTS m1, m2, m3, c1, c2
ThreeDaemons == {m1, m2, m3}
TwoClients   == {c1, c2}
=============================================================================
