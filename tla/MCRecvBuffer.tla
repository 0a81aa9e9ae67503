---------------------------- MODULE MCRecvBuffer ----------------------------
(* A buffer of five chunks of two bytes, as the real one has five of 4096;  *)
(* packets from a bare header to more than a chunk.                         *)
EXTENDS RecvBuffer
=============================================================================
