----------------------------- MODULE MCTcpBuffer -----------------------------
EXTENDS TcpBuffer, TLC
=============================================================================
