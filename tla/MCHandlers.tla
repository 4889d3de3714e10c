------------------------------ MODULE MCHandlers ------------------------------
(***************************************************************************)
(* A receive thread at work: every packet is looked up for the log before  *)
(* it is handled, and the lookups of the other thread come in between.     *)
(* Sizes are scaled: a hit packet of 3 + 3 * 2 bytes, a word of 128, which *)
(* the larger counts overflow.                                             *)
(***************************************************************************)
EXTENDS CustomPacketHandler, OpcodeTable

HitCountsTyped == (-1..8) \cup {15, 17}
KeysInTable == <<0, 2, 3, 7, 8, 11>>
KeysOfHeaders == 0..12

MCInit == Init /\ TableInit
MCNext == \/ Next /\ UNCHANGED tableVars
          \/ Log /\ UNCHANGED vars
MCSpec == MCInit /\ [][MCNext]_<<vars, tableVars>>
===============================================================================
