--------------------------- MODULE MCIncomingCall ---------------------------
EXTENDS IncomingCall
=============================================================================
