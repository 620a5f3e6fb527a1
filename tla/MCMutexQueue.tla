---------------------------- MODULE MCMutexQueue ----------------------------
EXTENDS MutexQueue, TLC
=============================================================================
