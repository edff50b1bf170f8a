--------------------------- MODULE MCOutgoingCall ---------------------------
EXTENDS OutgoingCall
=============================================================================
