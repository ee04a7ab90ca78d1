---------------------------- MODULE MCTcpServer ----------------------------
\* TcpServer on small instances.
EXTENDS TcpServer, TLC

ThreadSymmetry == Permutations(Thread)

=============================================================================
