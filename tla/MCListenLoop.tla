---------------------------- MODULE MCListenLoop ----------------------------
EXTENDS ListenLoop
=============================================================================
