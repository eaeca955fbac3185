----------------------------- MODULE MCLiveLink -----------------------------
EXTENDS LiveLink
\* No event of these runs concerns real peers.
NoPeers == {}
=============================================================================
