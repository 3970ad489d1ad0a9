------------------------- MODULE MCSingleFileServer -------------------------
(* SingleFileServer for TLC; the constants are in the configurations. *)
EXTENDS SingleFileServer
=============================================================================
