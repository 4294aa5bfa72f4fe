----------------------------- MODULE MCWsPresence -----------------------------
(* WsPresence for TLC; its constants are given in the .cfg files.          *)
EXTENDS WsPresence
=============================================================================
