----------------------------- MODULE MCProxyRelay -----------------------------
(***************************************************************************)
(* Small instances of ProxyRelay.  The handler answers are those of        *)
(* CCustomPacketHandler: 0 or 1 towards the client, any number the user    *)
(* set with HITCOUNT towards the server.                                   *)
(***************************************************************************)
EXTENDS ProxyRelay

CustomCounts == [t \in Threads |-> IF t = "client" THEN {-1, 1, 2} ELSE {0, 1}]
===============================================================================
