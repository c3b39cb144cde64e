------------------------------ MODULE MCShutdown ------------------------------
EXTENDS Shutdown
=============================================================================
