----------------------------- MODULE MCClientView -----------------------------
EXTENDS ClientView
=============================================================================
