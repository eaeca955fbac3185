---------------------------- MODULE MCTransport ----------------------------
EXTENDS Transport
NoPeers == {}
=============================================================================
