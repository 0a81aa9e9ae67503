------------------------- MODULE MCDBConnectionPool -------------------------
(* Four threads and a pool that begins with two connections.                *)
EXTENDS DBConnectionPool
=============================================================================
