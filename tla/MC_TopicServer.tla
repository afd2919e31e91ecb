--------------------------- MODULE MC_TopicServer ---------------------------
(* Small instances of TopicServer.                                         *)
EXTENDS TopicServer, TLC
=============================================================================
