----------------------------- MODULE ClientManager -----------------------------
(***************************************************************************)
(* The world as the proxy sees it: CClientManager (ClientData.cpp) and the *)
(* dispatch of ParseServerPacket and ParseClientPacket (Proxy.cpp) to it,  *)
(* with the lookup of OnSendHitProjectile (CustomPacketHandler.h).         *)
(*                                                                         *)
(* The server thread changes the world with m_ServerRecvMutex held; the    *)
(* client thread looks projectiles up under the same mutex, but moves the  *)
(* main character under m_ClientRecvMutex only.  So a handler is one step, *)
(* but for the two that touch m_Player on both threads.  Positions, types  *)
(* and magic points are not tracked, nor hit points other than zero.       *)
(***************************************************************************)
EXTENDS Algorithm

CONSTANTS
  Npcs, Users, Shots,  \* ids of NPCs, other players and projectiles
  Me,                  \* the main character's id
  Null,                \* the null pointer
  Addresses,           \* where CPlayer objects can be allocated
  Answers,             \* what a packet handler answers
  HitCount             \* MAX_USER_PROJECTILE_HIT_COUNT

ASSUME MeAssumption == Me \notin Users
ASSUME NullAssumption == Null \notin Addresses \cup Users \cup {Me}
ASSUME HitCountAssumption == HitCount \in Nat \ {0}

VARIABLES
  around, users, fired, slain,  \* what the server said: NPCs and players in
                                \* sight, who fired a shot, NPCs without life
  m_vNpcList,                   \* [id, dead]
  m_vPlayerList,                \* [id, at]
  m_vProjectileList,            \* [id, owner], the owner a pointer
  m_Player,
  allocated,                    \* addresses of the CPlayer objects that exist
  respawning,                   \* server thread: m_Player deleted, not new yet
  client,                       \* client thread: [at, raced], m_Player as it read
                                \* it, and (history) whether a spawn came between
  hit,                          \* the hit that has just been multiplied
  crashed,                      \* the null pointer has been followed: the end
  ownerIs                       \* history: what became of a shot's owner object

told  == <<around, users, fired, slain>>
world == <<m_vNpcList, m_vPlayerList, m_vProjectileList>>
me    == <<m_Player, allocated, respawning>>
vars  == <<told, world, me, client, hit, crashed, ownerIs>>

Nobody == Null
NoHit == [targets |-> <<>>, inRange |-> <<>>]
Idle == [at |-> Null, raced |-> FALSE]

TypeOK ==
  /\ m_vNpcList \in Seq([id : Npcs, dead : BOOLEAN])
  /\ m_vPlayerList \in Seq([id : Users, at : Addresses])
  /\ m_vProjectileList \in Seq([id : Shots, owner : Addresses])
  /\ m_Player \in Addresses \cup {Null}
  /\ allocated \subseteq Addresses /\ respawning \in BOOLEAN
  /\ client \in [at : Addresses \cup {Null}, raced : BOOLEAN]
  /\ crashed \in BOOLEAN
  /\ ownerIs \in [Shots -> {"lives", "gone", "replaced"}]

Init ==
  /\ around = {} /\ users = {} /\ slain = {}
  /\ fired = [s \in Shots |-> Nobody]
  /\ m_vNpcList = <<>> /\ m_vPlayerList = <<>> /\ m_vProjectileList = <<>>
  /\ m_Player = Null /\ allocated = {} /\ respawning = FALSE
  /\ client = Idle
  /\ hit = NoHit
  /\ crashed = FALSE
  /\ ownerIs = [s \in Shots |-> "lives"]

-------------------------------------------------------------------------------
(* Mutant: a packet is parsed only if it is sent on.                       *)
AppliesIfSent(n) == n > 0

(* PacketHandler.h: a handler that answers zero wants the packet parsed    *)
(* but not sent, below zero neither.                                       *)
Applies(n) == n >= 0

(* ParseServerPacket on a packet that changes list: new is its value if    *)
(* the handler lets the packet be parsed.                                  *)
Parsed(list, new) == \E n \in Answers : list' = IF Applies(n) THEN new ELSE list

(* GetNpcById, GetPlayerById, GetProjectileById                            *)
Find(list, id) == FindIf(list, LAMBDA e : e.id = id)

(* The end of every Remove function.                                       *)
Erase(list, id) ==
  IF Find(list, id) \in DOMAIN list THEN RemoveAt(list, Find(list, id)) ELSE list

(* The handlers that change the lists only: the server thread is not in    *)
(* the middle of another, and nothing is hit.                              *)
OnlyWorld ==
  /\ ~respawning
  /\ hit' = NoHit
  /\ UNCHANGED <<client, me>>

(* History: the object that owns shots is deleted, and m_Player is made    *)
(* anew, perhaps at the address that those shots still have.               *)
OwnerGone(id) == [s \in Shots |-> IF fired[s] = id /\ ownerIs[s] = "lives" THEN "gone" ELSE ownerIs[s]]
OwnersReplaced == [s \in Shots |-> IF ownerIs[s] = "gone" THEN "replaced" ELSE ownerIs[s]]

(* The server announces what is new and withdraws what it announced.       *)
AddNPC(id) ==
  /\ OnlyWorld
  /\ id \notin around
  /\ around' = around \cup {id}
  /\ Parsed(m_vNpcList, Append(m_vNpcList, [id |-> id, dead |-> FALSE]))
  /\ UNCHANGED <<users, fired, slain, m_vPlayerList, m_vProjectileList, crashed, ownerIs>>

RemoveNPC(id) ==
  /\ OnlyWorld
  /\ id \in around
  /\ around' = around \ {id} /\ slain' = slain \ {id}
  /\ Parsed(m_vNpcList, Erase(m_vNpcList, id))
  /\ UNCHANGED <<users, fired, m_vPlayerList, m_vProjectileList, crashed, ownerIs>>

(* Unlike the others, S_CREATURE_CHANGE_HP is parsed only if it is sent.   *)
(* Hit points of zero mean death, and nothing brings an NPC back to life.  *)
OnNPCChangeHP(id) ==
  /\ OnlyWorld
  /\ id \in around
  /\ slain' = slain \cup {id}
  /\ \E n \in Answers : m_vNpcList' =
       LET i == Find(m_vNpcList, id)
       IN  IF n > 0 /\ i \in DOMAIN m_vNpcList
           THEN [m_vNpcList EXCEPT ![i].dead = TRUE] ELSE m_vNpcList
  /\ UNCHANGED <<around, users, fired, m_vPlayerList, m_vProjectileList, crashed, ownerIs>>

AddPC(id, at) ==
  /\ ~respawning
  /\ id \notin users /\ at \notin allocated
  /\ users' = users \cup {id}
  /\ \E n \in Answers :
       IF Applies(n)
       THEN /\ m_vPlayerList' = Append(m_vPlayerList, [id |-> id, at |-> at])
            /\ allocated' = allocated \cup {at}
       ELSE UNCHANGED <<m_vPlayerList, allocated>>
  /\ hit' = NoHit
  /\ UNCHANGED <<around, fired, slain, m_vNpcList, m_vProjectileList,
                 m_Player, respawning, client, crashed, ownerIs>>

(* GetPlayerById                                                           *)
PlayerById(id) ==
  LET i == Find(m_vPlayerList, id)
  IN  IF i \in DOMAIN m_vPlayerList THEN m_vPlayerList[i].at ELSE Null

(* The projectiles of a player who leaves stay, and so do their pointers.  *)
RemovePC(id) ==
  /\ ~respawning
  /\ id \in users
  /\ users' = users \ {id}
  /\ \E n \in Answers :
       IF Applies(n)
       THEN /\ m_vPlayerList' = Erase(m_vPlayerList, id)
            /\ allocated' = allocated \ {PlayerById(id)}
            /\ ownerIs' = OwnerGone(id)
       ELSE UNCHANGED <<m_vPlayerList, allocated, ownerIs>>
  /\ hit' = NoHit
  /\ UNCHANGED <<around, fired, slain, m_vNpcList, m_vProjectileList,
                 m_Player, respawning, client, crashed>>

(* Mutant: whoever is not in the list is taken for the main character.     *)
OwnerOfStranger(id) == IF PlayerById(id) # Null THEN PlayerById(id) ELSE m_Player

(* The owner of a shot: a player in the list, else the main character if   *)
(* the id is his.                                                          *)
OwnerOf(id) ==
  IF PlayerById(id) # Null THEN PlayerById(id) ELSE IF id = Me THEN m_Player ELSE Null

(* Anybody may have fired; a shot of a stranger is not kept.  His id is    *)
(* compared with the one in m_Player, which need not be there yet.         *)
AddUserProjectile(s, by) ==
  /\ OnlyWorld
  /\ fired[s] = Nobody
  /\ \E n \in Answers :
       IF Applies(n) /\ PlayerById(by) = Null /\ m_Player = Null
       THEN crashed' = TRUE /\ UNCHANGED <<fired, m_vProjectileList>>
       ELSE /\ fired' = [fired EXCEPT ![s] = by]
            /\ m_vProjectileList' =
                 IF Applies(n) /\ OwnerOf(by) # Null
                 THEN Append(m_vProjectileList, [id |-> s, owner |-> OwnerOf(by)])
                 ELSE m_vProjectileList
            /\ UNCHANGED crashed
  /\ UNCHANGED <<around, users, slain, m_vNpcList, m_vPlayerList, ownerIs>>

(* Mutant: the projectile that ends is found but not erased.               *)
RemovedShotKept(s) == RemoveIf(m_vProjectileList, LAMBDA shot : shot.id = s)

RemovedShot(s) == Erase(m_vProjectileList, s)

(* Mutant: a projectile deletes its owner, whom it only points to.         *)
RemoveProjectileAndOwner(s) ==
  /\ ~respawning
  /\ fired[s] # Nobody
  /\ fired' = [fired EXCEPT ![s] = Nobody]
  /\ ownerIs' = [ownerIs EXCEPT ![s] = "lives"]
  /\ Parsed(m_vProjectileList, RemovedShot(s))
  /\ allocated' = allocated \ {m_vProjectileList[i].owner :
                                 i \in {Find(m_vProjectileList, s)} \cap DOMAIN m_vProjectileList}
  /\ hit' = NoHit
  /\ UNCHANGED <<around, users, slain, m_vNpcList, m_vPlayerList, m_Player,
                 respawning, client, crashed>>

(* RemoveProjectile and RemoveUserProjectile do the same.                  *)
RemoveProjectile(s) ==
  /\ OnlyWorld
  /\ fired[s] # Nobody
  /\ fired' = [fired EXCEPT ![s] = Nobody]
  /\ ownerIs' = [ownerIs EXCEPT ![s] = "lives"]
  /\ Parsed(m_vProjectileList, RemovedShot(s))
  /\ UNCHANGED <<around, users, slain, m_vNpcList, m_vPlayerList, crashed>>

(* OnMainControllerSpawn, on a packet no handler holds back: the old       *)
(* object goes, then a new one is made, after login and whenever the       *)
(* server spawns him again; the client thread may come between.            *)
DeleteMe ==
  /\ ~respawning
  /\ respawning' = TRUE
  /\ allocated' = allocated \ {m_Player}
  /\ client' = [client EXCEPT !.raced = client # Idle]
  /\ ownerIs' = OwnerGone(Me)
  /\ hit' = NoHit
  /\ UNCHANGED <<told, world, m_Player, crashed>>

NewMe(at) ==
  /\ respawning
  /\ at \notin allocated
  /\ respawning' = FALSE
  /\ m_Player' = at
  /\ allocated' = allocated \cup {at}
  /\ ownerIs' = OwnersReplaced
  /\ UNCHANGED <<told, world, client, hit, crashed>>

-------------------------------------------------------------------------------
(* OnMainControllerMove looks at m_Player, and then writes through it.     *)
CheckMe ==
  /\ client = Idle
  /\ m_Player # Null
  /\ client' = [at |-> m_Player, raced |-> respawning]
  /\ hit' = NoHit
  /\ UNCHANGED <<told, world, me, crashed, ownerIs>>

(* A TELEPORT command reads the position without looking.                  *)
TeleportFromMe ==
  /\ client = Idle
  /\ IF m_Player = Null THEN crashed' = TRUE /\ UNCHANGED client
     ELSE /\ client' = [at |-> m_Player, raced |-> respawning]
          /\ UNCHANGED crashed
  /\ hit' = NoHit
  /\ UNCHANGED <<told, world, me, ownerIs>>

UseMe ==
  /\ client # Idle
  /\ client' = Idle
  /\ hit' = NoHit
  /\ UNCHANGED <<told, world, me, crashed, ownerIs>>

ProjectileAt(s) == Find(m_vProjectileList, s)
IsMine(s) ==
  /\ ProjectileAt(s) \in DOMAIN m_vProjectileList
  /\ m_vProjectileList[ProjectileAt(s)].owner = m_Player

(* Mutant: the index stays where it is.                                    *)
TargetsFirst(list) == [i \in 1 .. HitCount |-> list[1]]

(* The targets are taken round robin.                                      *)
Targets(list) == [i \in 1 .. HitCount |-> list[((i - 1) % Len(list)) + 1]]

(* GetAnyNpc with In2DRange: near are the NPCs less than m_fHitRange away. *)
AnyNpc(near) ==
  AtIndices(m_vNpcList, {i \in DOMAIN m_vNpcList : m_vNpcList[i].id \in near})

DeadRemoved(npcs) == RemoveIf(npcs, LAMBDA npc : npc.dead)

(* OnSendHitProjectile on a hit without targets: those in range, which may *)
(* be any, the dead ones "removed".  The client may name a projectile that *)
(* has just ended.                                                         *)
HitInRange(s) ==
  /\ client = Idle /\ ~respawning
  /\ IsMine(s)
  /\ \E near \in SUBSET Npcs :
       LET inRange == AnyNpc(near)
           list    == DeadRemoved(inRange)
       IN  /\ list # <<>>
           /\ hit' = [targets |-> Targets(list), inRange |-> inRange]
  /\ UNCHANGED <<told, world, me, client, crashed, ownerIs>>

(* On a hit with targets the first of them is repeated, as the client says.*)
HitTarget(s) ==
  /\ client = Idle /\ ~respawning
  /\ IsMine(s)
  /\ hit' = NoHit
  /\ UNCHANGED <<told, world, me, client, crashed, ownerIs>>

(* Nothing is sent for a projectile that is unknown or somebody else's.    *)
HitRefused(s) ==
  /\ client = Idle /\ ~respawning
  /\ ~IsMine(s)
  /\ hit' = NoHit
  /\ UNCHANGED <<told, world, me, client, crashed, ownerIs>>

-------------------------------------------------------------------------------
ServerThread ==
  \/ \E id \in Npcs : AddNPC(id) \/ RemoveNPC(id) \/ OnNPCChangeHP(id)
  \/ \E id \in Users : RemovePC(id) \/ \E at \in Addresses : AddPC(id, at)
  \/ \E s \in Shots : RemoveProjectile(s) \/ \E by \in Users \cup {Me} : AddUserProjectile(s, by)
  \/ DeleteMe \/ \E at \in Addresses : NewMe(at)

ClientThread ==
  \/ CheckMe \/ TeleportFromMe \/ UseMe
  \/ \E s \in Shots : HitInRange(s) \/ HitTarget(s) \/ HitRefused(s)

Next == ~crashed /\ (ServerThread \/ ClientThread)

Spec == Init /\ [][Next]_vars

-------------------------------------------------------------------------------
IdsOf(list) == {list[i].id : i \in DOMAIN list}
NoDuplicates(list) == \A i, j \in DOMAIN list : list[i].id = list[j].id => i = j

(* The world is what the server has told, each object once, as long as the *)
(* handlers never answer below zero: nothing withdrawn stays, nothing is   *)
(* missing but what others fired out of sight, and no NPC is dead but      *)
(* those that were slain since they last appeared (the handlers of         *)
(* ParseServerPacket and the Add and Remove functions).                    *)
WorldMirrors ==
  /\ IdsOf(m_vNpcList) = around /\ NoDuplicates(m_vNpcList)
  /\ IdsOf(m_vPlayerList) = users /\ NoDuplicates(m_vPlayerList)
  /\ \A s \in IdsOf(m_vProjectileList) : fired[s] # Nobody
  /\ \A s \in Shots : fired[s] = Me => s \in IdsOf(m_vProjectileList)
  /\ NoDuplicates(m_vProjectileList)
  /\ \A i \in DOMAIN m_vNpcList : m_vNpcList[i].dead => m_vNpcList[i].id \in slain

(* OnSendHitProjectile takes a shot for the main character's exactly if he *)
(* fired it, however often he is spawned again and whoever comes and goes  *)
(* in between, unless he has been spawned again since the shot's owner was *)
(* deleted: owners are compared as pointers, which outlive their players   *)
(* (RemovePC, OnMainControllerSpawn), and only a new main character can be *)
(* where one of them points.                                               *)
OwnHitsOnly ==
  ~respawning => \A s \in IdsOf(m_vProjectileList) :
    ownerIs[s] # "replaced" => (IsMine(s) <=> fired[s] = Me)

(* What the client thread uses as the main character, with the client      *)
(* mutex only, exists and is still he, whatever else the server deletes,   *)
(* unless a spawn of the main character came between its read of m_Player  *)
(* and its use, or the read between the two halves of a spawn              *)
(* (OnMainControllerMove, Teleport, OnMainControllerSpawn).                *)
MeUsedAlive ==
  client # Idle /\ ~client.raced => client.at \in allocated /\ m_Player = client.at

(* Every living NPC in range is hit, if there are hits enough.             *)
LivingAreHit ==
  LET living == {i \in DOMAIN hit.inRange : ~hit.inRange[i].dead}
  IN  Len(hit.inRange) <= HitCount =>
        \A i \in living : \E j \in DOMAIN hit.targets : hit.targets[j] = hit.inRange[i]
===============================================================================
