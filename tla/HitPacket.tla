------------------------------- MODULE HitPacket -------------------------------
(***************************************************************************)
(* How CCustomPacketHandler::OnSendHitProjectile builds its answer: a      *)
(* TCProjectilePacket (StartProjectile.h) of MaxHits targets, inserted one *)
(* after the other behind the head.  "packet" refers into the container,   *)
(* so it must not move, and every target names its own offset and the next *)
(* one's, which the game follows like a list.                              *)
(***************************************************************************)
EXTENDS PacketContainer

CONSTANTS HeadSize,     \* sizeof(TCProjectilePacket::SPacket): 29
          TargetSize,   \* sizeof(TCTargetPacket::SPacket): 12
          MaxHits       \* MAX_USER_PROJECTILE_HIT_COUNT: 20
ASSUME HitAssumption ==
  HeadSize \in Nat \ {0} /\ TargetSize \in Nat \ {0} /\ MaxHits \in Nat \ {0}

VARIABLES
  projectile,   \* the container
  packetSize,   \* packet.size
  targets,      \* the targets inserted so far: [now, next]
  dangling      \* "packet" refers to memory the container has left
hitVars == <<projectile, packetSize, targets, dangling>>

Target == [now : Nat, next : Nat]

(* SProjectilePacket(targetCount), and before the first hit.               *)
HitStart == NewContainer(HeadSize, TargetSize * MaxHits + HeadSize + 1)

HitTypeOK ==
  /\ projectile \in Container
  /\ packetSize \in Nat
  /\ targets \in Seq(Target)
  /\ dangling \in BOOLEAN

HitInit ==
  /\ projectile = HitStart
  /\ packetSize = TargetSize * MaxHits + HeadSize
  /\ targets = <<>>
  /\ dangling = FALSE

(* The constructor again, for the next packet.                             *)
NewHit ==
  /\ projectile' = HitStart
  /\ packetSize' = TargetSize * MaxHits + HeadSize
  /\ targets' = <<>>
  /\ dangling' = FALSE

(* Mutant: the list has no end.                                            *)
EndlessTarget(i) ==
  [now |-> projectile.length, next |-> projectile.length + TargetSize]

(* STargetPacket of target i (from 0): the size of the container is where  *)
(* the target is going to be.                                              *)
NewTarget(i) ==
  [now |-> projectile.length,
   next |-> IF i = MaxHits - 1 THEN 0 ELSE projectile.length + TargetSize]

(* Mutant: an empty container, without the reserve.                        *)
AddTargetUnreserved ==
  /\ Len(targets) < MaxHits
  /\ targets' = Append(targets, NewTarget(Len(targets)))
  /\ projectile' = Insert([projectile EXCEPT !.capacity = projectile.length], TargetSize)
  /\ dangling' = (dangling \/ Moves([projectile EXCEPT !.capacity = projectile.length], TargetSize))
  /\ UNCHANGED packetSize

(* projectile += TCTargetPacket(...).packet                                *)
AddTarget ==
  /\ Len(targets) < MaxHits
  /\ targets' = Append(targets, NewTarget(Len(targets)))
  /\ projectile' = Insert(projectile, TargetSize)
  /\ dangling' = (dangling \/ Moves(projectile, TargetSize))
  /\ UNCHANGED packetSize

HitBuilt == Len(targets) = MaxHits

-------------------------------------------------------------------------------
(* The container never moves, so that "packet" and the size read through   *)
(* it stay valid, and Insert's assertion holds for every target            *)
(* (Container.h:115, the +1 of SProjectilePacket).                         *)
HitFits ==
  /\ ~dangling
  /\ Len(targets) < MaxHits => HasRoom(projectile, TargetSize)

(* Every target but the last says where the next one starts, where it is   *)
(* itself is where the container put it, and the packet's size is what has *)
(* been built (STargetPacket, *result_size).                               *)
HitChained ==
  /\ \A i \in DOMAIN targets :
       /\ targets[i].now = GetOffset(projectile, i)
       /\ GetSizeAt(projectile, i) = TargetSize
       /\ i < Len(targets) => targets[i].next = targets[i + 1].now
  /\ HitBuilt => /\ targets[MaxHits].next = 0
                 /\ packetSize = projectile.length
===============================================================================
