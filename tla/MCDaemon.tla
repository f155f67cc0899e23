------------------------------ MODULE MCDaemon ------------------------------
EXTENDS Daemon, TLC
CONSTANTS p1, p2
MCProjects == {p1, p2}
MCSymmetry == Permutations(MCProjects)
MCNoCursor == -1
=============================================================================
