----------------------------- MODULE MCTSQueue -----------------------------
EXTENDS TSQueue
============================================================================
