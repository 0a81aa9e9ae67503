--------------------------- MODULE MCSharedLogin ----------------------------
(* Three sessions, two of which log in with the same id, and one dispatch   *)
(* thread: a completion waits in the port's queue while the thread is busy  *)
(* with another session.                                                    *)
EXTENDS FieldSessions

CONSTANTS s1, s2, s3, u, v

MCUserOf == [s \in Sessions |-> IF s = s3 THEN v ELSE u]
MCAdjacent == [c \in Sectors |-> Sectors]
=============================================================================
