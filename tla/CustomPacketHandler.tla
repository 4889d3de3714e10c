-------------------------- MODULE CustomPacketHandler --------------------------
(***************************************************************************)
(* What CCustomPacketHandler does with the hits of the player, on the      *)
(* client's receive thread: a projectile that hits is answered with a      *)
(* packet of its own (HitPacket), and that packet is sent as often as the  *)
(* user has last said in a HITCOUNT line (ServerBatch).  Which hits are    *)
(* the player's, and which NPCs they are directed at, is in ClientManager; *)
(* TELEPORT lines are in ProxyRelay.                                       *)
(***************************************************************************)
EXTENDS HitPacket, ServerBatch

CONSTANTS DefaultHitCount,   \* m_iHitCount at the start: 100
          HitCounts,         \* the numbers users type after HITCOUNT
          Switches           \* BOSSGAGE, CHANGEHP, SKILLRESULT, ...
ASSUME HitCountsAssumption == DefaultHitCount \in Int /\ HitCounts \subseteq Int

VARIABLES
  handler,       \* "ready", "building", "sending", or "terminated"
  m_iHitCount,
  m_bEnable      \* the switches that are on, one m_bEnable... each: packets of
                 \* their kind are shown to the client, the others withheld
vars == <<handler, m_iHitCount, m_bEnable, hitVars, batchVars>>
chatVars == <<m_iHitCount, m_bEnable>>

Init ==
  /\ handler = "ready"
  /\ m_iHitCount = DefaultHitCount
  /\ m_bEnable = {}
  /\ HitInit /\ BatchInit

(* HITCOUNT, and HITCOUNTER too, which OnSendChat takes for the same: it   *)
(* compares the first letters, and HITCOUNT comes first.                   *)
ChatHitCount ==
  /\ handler = "ready"
  /\ m_iHitCount' \in HitCounts
  /\ UNCHANGED <<handler, m_bEnable, hitVars, batchVars>>

(* Any other switch is turned on, or off if it was on: the handlers of its *)
(* packets answer 1, or 0.  Range and speed (HITRANGE, RUNSPEED) are       *)
(* numbers that nothing here depends on.                                   *)
ChatSwitch(w) ==
  /\ handler = "ready"
  /\ m_bEnable' = IF w \in m_bEnable THEN m_bEnable \ {w} ELSE m_bEnable \cup {w}
  /\ UNCHANGED <<handler, m_iHitCount, hitVars, batchVars>>

(* A word that is no number: lexical_cast throws, nobody catches it on the *)
(* receive thread, and the program ends.                                   *)
ChatNoNumber ==
  /\ handler = "ready"
  /\ handler' = "terminated"
  /\ UNCHANGED <<chatVars, hitVars, batchVars>>

(* A hit of a projectile of the player's (HitRefused of ClientManager is   *)
(* the other case, which answers 0).                                       *)
OnSendHitProjectile ==
  /\ handler = "ready"
  /\ handler' = "building"
  /\ NewHit
  /\ UNCHANGED <<chatVars, batchVars>>

BuildHit ==
  /\ handler = "building"
  /\ AddTarget
  /\ UNCHANGED <<handler, chatVars, batchVars>>

(* ParseClientPacket passes the answer, its size and the hit count on.     *)
SendHit ==
  /\ handler = "building" /\ HitBuilt
  /\ handler' = "sending"
  /\ Start(packetSize, m_iHitCount)
  /\ UNCHANGED <<chatVars, hitVars>>

(* ... which sends nothing for a count below one.                          *)
SendNoHit ==
  /\ handler = "building" /\ HitBuilt /\ m_iHitCount < 1
  /\ handler' = "ready"
  /\ UNCHANGED <<chatVars, hitVars, batchVars>>

CopyHit ==
  /\ handler = "sending"
  /\ BatchStep
  /\ handler' = IF place = "send" THEN "ready" ELSE "sending"
  /\ UNCHANGED <<chatVars, hitVars>>

(* Nothing to do, or nothing that could be said any more.                  *)
Wait == UNCHANGED vars

Next ==
  \/ ChatHitCount \/ ChatNoNumber \/ \E w \in Switches : ChatSwitch(w)
  \/ OnSendHitProjectile \/ BuildHit \/ SendHit \/ SendNoHit \/ CopyHit
  \/ Wait

Spec == Init /\ [][Next]_vars
===============================================================================
