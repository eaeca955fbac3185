---------------------------- MODULE MCSimShell -----------------------------
EXTENDS SimShell
OnePeer == {"a"}
OneObserver == {"r"}
=============================================================================
