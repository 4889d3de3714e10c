-------------------------- MODULE ClientManagerProofs --------------------------
(***************************************************************************)
(* The world of CClientManager for any number of NPCs, players, shots and  *)
(* addresses: it mirrors what the server has told, and the shots of the    *)
(* main character are told from the others', however often he is spawned,  *)
(* if the handlers let every packet be parsed.                             *)
(***************************************************************************)
EXTENDS ClientManager, FiniteSetTheorems, SequenceTheorems, TLAPS

(* What erase and push_back make of list s.                                *)
WithoutId(t, s, x) ==
  /\ NoDuplicates(t) /\ IdsOf(t) = IdsOf(s) \ {x}
  /\ \A j \in DOMAIN t : \E i \in DOMAIN s : t[j] = s[i] /\ s[i].id # x
  /\ \A i \in DOMAIN s : s[i].id # x => \E j \in DOMAIN t : t[j] = s[i]

WithObject(t, s, e) ==
  /\ NoDuplicates(t) /\ IdsOf(t) = IdsOf(s) \cup {e.id}
  /\ \A j \in DOMAIN t : t[j] = e \/ \E i \in DOMAIN s : t[j] = s[i]
  /\ \A i \in DOMAIN s : \E j \in DOMAIN t : t[j] = s[i]

(* The one place where find_if finds id x in a list without duplicates.    *)
LEMMA FindById ==
  ASSUME NEW S, NEW s \in Seq(S), NoDuplicates(s), NEW x
  PROVE  LET at == Find(s, x)
         IN  \/ at \in DOMAIN s /\ s[at].id = x
             \/ at = Len(s) + 1 /\ at \notin DOMAIN s /\ \A i \in DOMAIN s : s[i].id # x
  <1> DEFINE found == {i \in DOMAIN s : s[i].id = x}
             at    == Find(s, x)
  <1>1. at = IF found = {} THEN Len(s) + 1 ELSE CHOOSE i \in found : \A j \in found : i <= j
    BY DEF Find, FindIf
  <1>2. CASE found = {}
    <2>1. at = Len(s) + 1 /\ \A i \in DOMAIN s : s[i].id # x
      BY <1>1, <1>2
    <2>2. Len(s) + 1 \notin DOMAIN s
      OBVIOUS
    <2>3. QED
      BY <2>1, <2>2
  <1>3. CASE found # {}
    <2>1. PICK k \in DOMAIN s : s[k].id = x
      BY <1>3
    <2>2. \A j \in found : j = k
      BY <2>1 DEF NoDuplicates
    <2>3. k \in found /\ \A j \in found : k <= j
      BY <2>1, <2>2
    <2>4. at \in found
      BY <1>1, <1>3, <2>3
    <2>5. QED
      BY <2>4
  <1>4. QED
    BY <1>2, <1>3

(* erase takes that one out and leaves the others.                         *)
LEMMA EraseById ==
  ASSUME NEW S, NEW s \in Seq(S), NoDuplicates(s), NEW x
  PROVE  WithoutId(Erase(s, x), s, x)
  <1> DEFINE at == Find(s, x)
             t  == Erase(s, x)
  <1>1. \/ at \in DOMAIN s /\ s[at].id = x
        \/ at = Len(s) + 1 /\ at \notin DOMAIN s /\ \A i \in DOMAIN s : s[i].id # x
    BY FindById
  <1>2. t = IF at \in DOMAIN s THEN RemoveAt(s, at) ELSE s
    BY DEF Erase
  <1> SUFFICES /\ NoDuplicates(t)
               /\ \A j \in DOMAIN t : \E i \in DOMAIN s : t[j] = s[i] /\ s[i].id # x
               /\ \A i \in DOMAIN s : s[i].id # x => \E j \in DOMAIN t : t[j] = s[i]
    BY DEF WithoutId, IdsOf
  <1> HIDE DEF at, t
  <1>3. CASE at \notin DOMAIN s
    <2>1. t = s /\ \A i \in DOMAIN s : s[i].id # x
      BY <1>1, <1>2, <1>3
    <2>2. QED
      BY <2>1
  <1>4. CASE at \in DOMAIN s
    <2>1. t = SubSeq(s, 1, at - 1) \o SubSeq(s, at + 1, Len(s)) /\ s[at].id = x
      BY <1>1, <1>2, <1>4 DEF RemoveAt
    <2>2. Len(s) \in Nat /\ at \in 1 .. Len(s) /\ at \in Int
      BY <1>4
    <2> DEFINE u == SubSeq(s, 1, at - 1)
               v == SubSeq(s, at + 1, Len(s))
    <2>3. u \in Seq(S) /\ Len(u) = at - 1 /\ \A j \in 1 .. at - 1 : u[j] = s[j]
      BY <2>2
    <2>4. v \in Seq(S) /\ Len(v) = Len(s) - at /\ \A j \in 1 .. Len(s) - at : v[j] = s[at + j]
      BY <2>2
    <2>5. t = u \o v
      BY <2>1
    <2> HIDE DEF u, v
    <2>6. Len(u) + Len(v) = Len(s) - 1 /\ Len(u) = at - 1
      BY <2>2, <2>3, <2>4
    <2>7. /\ t \in Seq(S) /\ Len(t) = Len(s) - 1
          /\ \A j \in 1 .. Len(s) - 1 : t[j] = IF j < at THEN u[j] ELSE v[j - at + 1]
      <3>0. u \in Seq(S) /\ v \in Seq(S)
        BY <2>3, <2>4
      <3>1. t \in Seq(S) /\ Len(t) = Len(u) + Len(v)
        BY <2>5, <3>0, ConcatProperties, Zenon
      <3> SUFFICES ASSUME NEW j \in 1 .. Len(s) - 1
                   PROVE  t[j] = IF j < at THEN u[j] ELSE v[j - at + 1]
        BY <2>6, <3>1
      <3>2. j \in Int /\ j \in 1 .. Len(u) + Len(v)
        BY <2>6, <2>2
      <3>3. t[j] = IF j <= Len(u) THEN u[j] ELSE v[j - Len(u)]
        BY <2>3, <2>4, <2>5, <3>2
      <3>4. (j <= Len(u) <=> j < at) /\ j - Len(u) = j - at + 1
        BY <2>2, <2>6, <3>2
      <3>5. QED
        BY <3>3, <3>4
    <2>8. \A j \in 1 .. Len(s) - 1 : t[j] = IF j < at THEN s[j] ELSE s[j + 1]
      <3> TAKE j \in 1 .. Len(s) - 1
      <3>1. t[j] = IF j < at THEN u[j] ELSE v[j - at + 1]
        BY <2>7
      <3>2. j < at => u[j] = s[j]
        BY <2>2, <2>3
      <3>3. ~(j < at) => j - at + 1 \in 1 .. Len(s) - at /\ at + (j - at + 1) = j + 1
        BY <2>2
      <3>4. QED
        BY <2>4, <3>1, <3>2, <3>3
    <2>9. \A i \in DOMAIN s : i # at => s[i].id # x
      BY <1>4, <2>1 DEF NoDuplicates
    <2>10. \A j \in DOMAIN t : \E i \in DOMAIN s : t[j] = s[i] /\ s[i].id # x
      BY <2>2, <2>7, <2>8, <2>9
    <2>11. ASSUME NEW i \in DOMAIN s, s[i].id # x
          PROVE  \E j \in DOMAIN t : t[j] = s[i]
      <3>1. i # at /\ i \in 1 .. Len(s)
        BY <2>1, <2>11
      <3>2. CASE i < at
        <4>1. i \in DOMAIN t /\ t[i] = s[i]
          BY <2>2, <2>7, <2>8, <3>1, <3>2
        <4>2. QED
          BY <4>1
      <3>3. CASE i > at
        <4>1. i - 1 \in DOMAIN t /\ t[i - 1] = s[i]
          BY <2>2, <2>7, <2>8, <3>1, <3>3
        <4>2. QED
          BY <4>1
      <3>4. QED
        BY <2>2, <3>1, <3>2, <3>3
    <2>12. NoDuplicates(t)
      <3> SUFFICES ASSUME NEW i \in DOMAIN t, NEW j \in DOMAIN t, t[i].id = t[j].id
                   PROVE  i = j
        BY DEF NoDuplicates
      <3> DEFINE from(k) == IF k < at THEN k ELSE k + 1
      <3>1. i \in 1 .. Len(s) - 1 /\ j \in 1 .. Len(s) - 1
        BY <2>7
      <3>2. from(i) \in DOMAIN s /\ from(j) \in DOMAIN s
        BY <2>2, <3>1
      <3>3. t[i] = s[from(i)] /\ t[j] = s[from(j)]
        BY <2>8, <3>1
      <3>4. from(i) = from(j)
        BY <3>2, <3>3 DEF NoDuplicates
      <3>5. QED
        BY <2>2, <3>1, <3>4
    <2>13. QED
      BY <2>7, <2>10, <2>11, <2>12
  <1>5. QED
    BY <1>3, <1>4

(* push_back of an object whose id is not in the list yet.                 *)
LEMMA AppendNew ==
  ASSUME NEW S, NEW s \in Seq(S), NoDuplicates(s), NEW e \in S, e.id \notin IdsOf(s)
  PROVE  WithObject(Append(s, e), s, e)
  <1> DEFINE t == Append(s, e)
  <1>1. /\ t \in Seq(S) /\ Len(t) = Len(s) + 1 /\ Len(s) \in Nat
        /\ \A i \in 1 .. Len(s) : t[i] = s[i]
        /\ t[Len(s) + 1] = e
    OBVIOUS
  <1> HIDE DEF t
  <1>2. \A i \in DOMAIN s : s[i].id # e.id
    BY DEF IdsOf
  <1>3. NoDuplicates(t)
    <2> SUFFICES ASSUME NEW i \in 1 .. Len(s) + 1, NEW j \in 1 .. Len(s) + 1, t[i].id = t[j].id
                 PROVE  i = j
      BY <1>1 DEF NoDuplicates
    <2>1. CASE i \in 1 .. Len(s) /\ j \in 1 .. Len(s)
      BY <1>1, <2>1 DEF NoDuplicates
    <2>2. CASE i = Len(s) + 1 /\ j \in 1 .. Len(s)
      BY <1>1, <1>2, <2>2
    <2>3. CASE j = Len(s) + 1 /\ i \in 1 .. Len(s)
      BY <1>1, <1>2, <2>3
    <2>4. QED
      BY <1>1, <2>1, <2>2, <2>3
  <1>4. \A j \in DOMAIN t : t[j] = e \/ \E i \in DOMAIN s : t[j] = s[i]
    BY <1>1
  <1>5. IdsOf(t) = IdsOf(s) \cup {e.id}
    <2>1. IdsOf(t) \subseteq IdsOf(s) \cup {e.id}
      BY <1>4 DEF IdsOf
    <2>2. \A i \in DOMAIN s : i \in DOMAIN t /\ t[i] = s[i]
      BY <1>1
    <2>3. Len(s) + 1 \in DOMAIN t /\ t[Len(s) + 1].id = e.id
      BY <1>1
    <2>4. QED
      BY <2>1, <2>2, <2>3 DEF IdsOf
  <1>6. \A i \in DOMAIN s : \E j \in DOMAIN t : t[j] = s[i]
    <2>1. \A i \in DOMAIN s : i \in DOMAIN t /\ t[i] = s[i]
      BY <1>1
    <2>2. QED
      BY <2>1
  <1>7. QED
    BY <1>3, <1>4, <1>5, <1>6 DEF t, WithObject

(* An erased list holds what the list held.                                *)
LEMMA EraseTyped ==
  ASSUME NEW S, NEW s \in Seq(S), NEW x
  PROVE  Erase(s, x) \in Seq(S)
  <1> DEFINE at == Find(s, x)
  <1>1. CASE at \notin DOMAIN s
    BY <1>1 DEF Erase
  <1>2. CASE at \in DOMAIN s
    <2>1. Erase(s, x) = SubSeq(s, 1, at - 1) \o SubSeq(s, at + 1, Len(s))
      BY <1>2 DEF Erase, RemoveAt
    <2> HIDE DEF at
    <2>2. at \in 1 .. Len(s) /\ Len(s) \in Nat
      BY <1>2
    <2>3. SubSeq(s, 1, at - 1) \in Seq(S) /\ SubSeq(s, at + 1, Len(s)) \in Seq(S)
      BY <2>2
    <2>4. QED
      BY <2>1, <2>3, ConcatProperties, Zenon
  <1>3. QED
    BY <1>1, <1>2

LEMMA SequenceFacts ==
  ASSUME NEW S, NEW s \in Seq(S)
  PROVE  /\ s \in [1 .. Len(s) -> S] /\ Len(s) \in Nat /\ DOMAIN s = 1 .. Len(s)
         /\ \A i \in DOMAIN s : s[i] \in S
  OBVIOUS

LEMMA EmptyTyped == ASSUME NEW S PROVE <<>> \in Seq(S)
  OBVIOUS

(* EXCEPT on one field keeps the sequence.                                 *)
LEMMA KilledTyped ==
  ASSUME NEW S, NEW s \in Seq([id : S, dead : BOOLEAN]), NEW k \in DOMAIN s
  PROVE  LET t == [s EXCEPT ![k].dead = TRUE]
         IN  /\ t \in Seq([id : S, dead : BOOLEAN]) /\ DOMAIN t = DOMAIN s
             /\ \A i \in DOMAIN s : t[i].id = s[i].id /\ (i # k => t[i] = s[i])
  <1> DEFINE R == [id : S, dead : BOOLEAN]
             r == [s[k] EXCEPT !.dead = TRUE]
             t == [s EXCEPT ![k] = r]
  <1>1. /\ s \in [1 .. Len(s) -> R] /\ Len(s) \in Nat /\ DOMAIN s = 1 .. Len(s)
        /\ \A i \in DOMAIN s : s[i] \in R
    BY SequenceFacts, Zenon
  <1>2. s[k] \in R
    BY <1>1
  <1>3. r \in R /\ r.id = s[k].id
    BY <1>2
  <1> HIDE DEF R, r
  <1>4. t \in [1 .. Len(s) -> R]
    BY <1>1, <1>3
  <1>5. t \in Seq(R)
    <2> HIDE DEF t
    <2>1. QED
      BY <1>1, <1>4
  <1>6. \A i \in DOMAIN s : t[i] = IF i = k THEN r ELSE s[i]
    BY <1>1
  <1>7. DOMAIN t = DOMAIN s
    BY <1>1, <1>4
  <1>8. \A i \in DOMAIN s : t[i].id = s[i].id /\ (i # k => t[i] = s[i])
    <2> HIDE DEF t
    <2>1. QED
      BY <1>3, <1>6
  <1>9. QED
    BY <1>5, <1>7, <1>8 DEF R, r

(* GetPlayerById returns a player of the list or null.                     *)
LEMMA OwnerTyped ==
  ASSUME TypeOK, NEW id
  PROVE  PlayerById(id) \in Addresses \cup {Null} /\ OwnerOf(id) \in Addresses \cup {Null}
  <1>1. \A i \in DOMAIN m_vPlayerList : m_vPlayerList[i].at \in Addresses
    <2>1. \A i \in DOMAIN m_vPlayerList : m_vPlayerList[i] \in [id : Users, at : Addresses]
      BY SequenceFacts, Zenon DEF TypeOK
    <2>2. QED
      BY <2>1
  <1>2. m_Player \in Addresses \cup {Null}
    BY DEF TypeOK
  <1>3. PlayerById(id) \in Addresses \cup {Null}
    BY <1>1 DEF PlayerById
  <1>4. QED
    BY <1>2, <1>3 DEF OwnerOf

LEMMA TypeInit == Init => TypeOK
  <1> SUFFICES ASSUME Init PROVE TypeOK
    OBVIOUS
  <1>1. client \in [at : Addresses \cup {Null}, raced : BOOLEAN]
    BY DEF Init, Idle
  <1>2. ownerIs \in [Shots -> {"lives", "gone", "replaced"}]
    BY DEF Init
  <1>3. QED
    BY <1>1, <1>2, EmptyTyped, Zenon DEF Init, TypeOK

(* The history has its type.                                               *)
LEMMA OwnersTyped ==
  ASSUME TypeOK
  PROVE  LET Fates == [Shots -> {"lives", "gone", "replaced"}]
         IN  /\ OwnersReplaced \in Fates /\ \A id : OwnerGone(id) \in Fates
             /\ \A s \in Shots : [ownerIs EXCEPT ![s] = "lives"] \in Fates
  BY DEF TypeOK, OwnersReplaced, OwnerGone

LEMMA TypeStep == TypeOK /\ [Next]_vars => TypeOK'
  <1> SUFFICES ASSUME TypeOK, [Next]_vars PROVE TypeOK'
    OBVIOUS
  <1> USE DEF TypeOK
  <1>1. ASSUME NEW id \in Npcs, AddNPC(id) PROVE TypeOK'
    <2>1. Append(m_vNpcList, [id |-> id, dead |-> FALSE]) \in Seq([id : Npcs, dead : BOOLEAN])
      OBVIOUS
    <2>2. QED
      BY <1>1, <2>1 DEF AddNPC, OnlyWorld, Parsed, me
  <1>2. ASSUME NEW id \in Npcs, RemoveNPC(id) PROVE TypeOK'
    <2>1. Erase(m_vNpcList, id) \in Seq([id : Npcs, dead : BOOLEAN])
      BY EraseTyped, Zenon
    <2>2. QED
      BY <1>2, <2>1 DEF RemoveNPC, OnlyWorld, Parsed, me
  <1>3. ASSUME NEW id \in Npcs, OnNPCChangeHP(id) PROVE TypeOK'
    <2>1. \A i \in DOMAIN m_vNpcList :
            [m_vNpcList EXCEPT ![i].dead = TRUE] \in Seq([id : Npcs, dead : BOOLEAN])
      BY KilledTyped, Zenon
    <2>2. QED
      BY <1>3, <2>1 DEF OnNPCChangeHP, OnlyWorld, me
  <1>4. ASSUME NEW id \in Users, RemovePC(id) PROVE TypeOK'
    <2>1. Erase(m_vPlayerList, id) \in Seq([id : Users, at : Addresses])
      BY EraseTyped, Zenon
    <2>2. QED
      BY <1>4, <2>1, OwnersTyped DEF RemovePC
  <1>5. ASSUME NEW id \in Users, NEW at \in Addresses, AddPC(id, at) PROVE TypeOK'
    <2>1. Append(m_vPlayerList, [id |-> id, at |-> at]) \in Seq([id : Users, at : Addresses])
      OBVIOUS
    <2>2. QED
      BY <1>5, <2>1 DEF AddPC
  <1>6. ASSUME NEW s \in Shots, RemoveProjectile(s) PROVE TypeOK'
    <2>1. Erase(m_vProjectileList, s) \in Seq([id : Shots, owner : Addresses])
      BY EraseTyped, Zenon
    <2>2. QED
      BY <1>6, <2>1, OwnersTyped DEF RemoveProjectile, RemovedShot, OnlyWorld, Parsed, me
  <1>7. ASSUME NEW s \in Shots, NEW by \in Users \cup {Me}, AddUserProjectile(s, by) PROVE TypeOK'
    <2>1. OwnerOf(by) \in Addresses \cup {Null}
      BY OwnerTyped
    <2>2. OwnerOf(by) # Null =>
            Append(m_vProjectileList, [id |-> s, owner |-> OwnerOf(by)])
              \in Seq([id : Shots, owner : Addresses])
      BY <2>1
    <2>3. QED
      BY <1>7, <2>2 DEF AddUserProjectile, OnlyWorld, me
  <1>8. ASSUME DeleteMe PROVE TypeOK'
    <2>1. [client EXCEPT !.raced = client # Idle] \in [at : Addresses \cup {Null}, raced : BOOLEAN]
      OBVIOUS
    <2>2. QED
      BY <1>8, <2>1, OwnersTyped DEF DeleteMe, world
  <1>9. ASSUME NEW at \in Addresses, NewMe(at) PROVE TypeOK'
    BY <1>9, OwnersTyped DEF NewMe, world
  <1>10. ASSUME CheckMe \/ TeleportFromMe \/ UseMe PROVE TypeOK'
    <2>1. /\ UNCHANGED <<world, me, ownerIs>> /\ crashed' \in BOOLEAN
          /\ client' \in {client, [at |-> m_Player, raced |-> respawning], [at |-> Null, raced |-> FALSE]}
      BY <1>10 DEF CheckMe, TeleportFromMe, UseMe, Idle
    <2>2. /\ [at |-> m_Player, raced |-> respawning] \in [at : Addresses \cup {Null}, raced : BOOLEAN]
          /\ [at |-> Null, raced |-> FALSE] \in [at : Addresses \cup {Null}, raced : BOOLEAN]
      OBVIOUS
    <2>3. client' \in [at : Addresses \cup {Null}, raced : BOOLEAN]
      BY <2>1, <2>2, Zenon
    <2>4. QED
      BY <2>1, <2>3 DEF world, me
  <1>11. ASSUME NEW s \in Shots, HitInRange(s) \/ HitTarget(s) \/ HitRefused(s) PROVE TypeOK'
    BY <1>11 DEF HitInRange, HitTarget, HitRefused, world, me
  <1>12. CASE UNCHANGED vars
    BY <1>12 DEF vars, world, me
  <1>13. QED
    BY <1>1, <1>2, <1>3, <1>4, <1>5, <1>6, <1>7, <1>8, <1>9, <1>10, <1>11, <1>12
       DEF Next, ServerThread, ClientThread

(* The lists hold objects of their kind and m_Player is null or an address *)
(* of a CPlayer, whatever the handlers answer and however often the main   *)
(* character is spawned.                                                   *)
THEOREM TypeCorrect == Spec => []TypeOK
  BY TypeInit, TypeStep, PTL DEF Spec

-------------------------------------------------------------------------------
(* The invariant, for handlers that let every packet be parsed.            *)
Gentle == Answers \subseteq Nat

NpcInv ==
  /\ IdsOf(m_vNpcList) = around /\ NoDuplicates(m_vNpcList)
  /\ \A i \in DOMAIN m_vNpcList : m_vNpcList[i].dead => m_vNpcList[i].id \in slain

(* Every CPlayer of the list is an object of its own, and where m_Player   *)
(* points, even between the two halves of a spawn, there is none of them.  *)
PlayerInv ==
  /\ IdsOf(m_vPlayerList) = users /\ NoDuplicates(m_vPlayerList)
  /\ \A i \in DOMAIN m_vPlayerList :
       m_vPlayerList[i].at \in allocated /\ m_vPlayerList[i].at # m_Player
  /\ \A i, j \in DOMAIN m_vPlayerList : m_vPlayerList[i].at = m_vPlayerList[j].at => i = j

MeInv ==
  /\ m_Player # Null /\ ~respawning => m_Player \in allocated
  /\ client # Idle /\ ~client.raced => m_Player # Null /\ ~respawning /\ client.at = m_Player

(* Whose object a shot refers to: while that lives, the one of who fired   *)
(* it; after it is gone, nobody's who matters.                             *)
Shot == [id : Shots, owner : Addresses]
Listed(id, at) ==
  \E j \in DOMAIN m_vPlayerList : m_vPlayerList[j].id = id /\ m_vPlayerList[j].at = at
Living(shot) ==
  IF fired[shot.id] = Me THEN shot.owner = m_Player /\ ~respawning
  ELSE Listed(fired[shot.id], shot.owner)
Gone(shot) == IF fired[shot.id] = Me THEN respawning ELSE shot.owner # m_Player
ShotKnown(shot) ==
  /\ fired[shot.id] # Nobody
  /\ ownerIs[shot.id] = "lives" => Living(shot)
  /\ ownerIs[shot.id] = "gone" => Gone(shot)

ShotInv ==
  /\ NoDuplicates(m_vProjectileList)
  /\ DOMAIN fired = Shots
  /\ \A s \in Shots : fired[s] = Me => s \in IdsOf(m_vProjectileList)
  /\ \A s \in Shots : fired[s] = Nobody => ownerIs[s] = "lives"
  /\ \A i \in DOMAIN m_vProjectileList : ShotKnown(m_vProjectileList[i])

WorldInv == NpcInv /\ PlayerInv /\ MeInv /\ ShotInv

LEMMA AlwaysParsed == ASSUME Gentle, NEW n \in Answers PROVE Applies(n)
  BY DEF Gentle, Applies

LEMMA WorldInit == Init => WorldInv
  <1> SUFFICES ASSUME Init PROVE WorldInv
    OBVIOUS
  <1>1. IdsOf(<<>>) = {} /\ NoDuplicates(<<>>) /\ DOMAIN <<>> = {}
    BY DEF IdsOf, NoDuplicates
  <1>2. Me # Null
    BY NullAssumption
  <1>3. NpcInv
    BY <1>1 DEF Init, NpcInv
  <1>4. PlayerInv
    BY <1>1 DEF Init, PlayerInv
  <1>5. MeInv
    BY DEF Init, MeInv
  <1>6. ShotInv
    BY <1>1, <1>2 DEF Init, ShotInv, Nobody
  <1>7. QED
    BY <1>3, <1>4, <1>5, <1>6 DEF WorldInv

LEMMA NpcStep == ASSUME Gentle, TypeOK, NpcInv, [Next]_vars PROVE NpcInv'
  <1> DEFINE R == [id : Npcs, dead : BOOLEAN]
  <1>1. m_vNpcList \in Seq(R) /\ NoDuplicates(m_vNpcList)
    BY DEF TypeOK, NpcInv
  <1>2. ASSUME NEW id \in Npcs, AddNPC(id) PROVE NpcInv'
    <2> DEFINE e == [id |-> id, dead |-> FALSE]
    <2>1. e \in R /\ e.id = id /\ e.dead = FALSE
      OBVIOUS
    <2>2. id \notin IdsOf(m_vNpcList)
      BY <1>2 DEF AddNPC, NpcInv
    <2>3. m_vNpcList' = Append(m_vNpcList, e) /\ around' = around \cup {id} /\ slain' = slain
      BY <1>2, AlwaysParsed DEF AddNPC, Parsed
    <2> HIDE DEF e, R
    <2>4. e.id \notin IdsOf(m_vNpcList)
      BY <2>1, <2>2
    <2>5. WithObject(Append(m_vNpcList, e), m_vNpcList, e)
      BY <1>1, <2>1, <2>4, AppendNew, Zenon
    <2>6. WithObject(m_vNpcList', m_vNpcList, e)
      BY <2>3, <2>5
    <2>7. QED
      BY <2>1, <2>3, <2>6 DEF WithObject, NpcInv, IdsOf, NoDuplicates
  <1>3. ASSUME NEW id \in Npcs, RemoveNPC(id) PROVE NpcInv'
    <2>1. /\ m_vNpcList' = Erase(m_vNpcList, id)
          /\ around' = around \ {id} /\ slain' = slain \ {id}
      BY <1>3, AlwaysParsed DEF RemoveNPC, Parsed
    <2> HIDE DEF R
    <2>2. WithoutId(Erase(m_vNpcList, id), m_vNpcList, id)
      BY <1>1, EraseById, Zenon
    <2>3. WithoutId(m_vNpcList', m_vNpcList, id)
      BY <2>1, <2>2
    <2>4. QED
      BY <2>1, <2>3 DEF WithoutId, NpcInv, IdsOf, NoDuplicates
  <1>4. ASSUME NEW id \in Npcs, OnNPCChangeHP(id) PROVE NpcInv'
    <2>1. around' = around /\ slain' = slain \cup {id}
      BY <1>4 DEF OnNPCChangeHP
    <2>2. CASE m_vNpcList' = m_vNpcList
      BY <2>1, <2>2 DEF NpcInv, IdsOf, NoDuplicates
    <2>3. CASE /\ Find(m_vNpcList, id) \in DOMAIN m_vNpcList
               /\ m_vNpcList' = [m_vNpcList EXCEPT ![Find(m_vNpcList, id)].dead = TRUE]
      <3> DEFINE k == Find(m_vNpcList, id)
      <3>1. /\ DOMAIN m_vNpcList' = DOMAIN m_vNpcList
            /\ \A i \in DOMAIN m_vNpcList :
                 /\ m_vNpcList'[i].id = m_vNpcList[i].id
                 /\ i # k => m_vNpcList'[i] = m_vNpcList[i]
        BY <1>1, <2>3, KilledTyped, Zenon
      <3>2. m_vNpcList[k].id = id
        BY <1>1, <2>3, FindById, Zenon
      <3> HIDE DEF k
      <3>3. IdsOf(m_vNpcList') = IdsOf(m_vNpcList)
        BY <3>1 DEF IdsOf
      <3>4. NoDuplicates(m_vNpcList')
        BY <1>1, <3>1 DEF NoDuplicates
      <3>5. \A i \in DOMAIN m_vNpcList' : m_vNpcList'[i].dead => m_vNpcList'[i].id \in slain'
        BY <2>1, <3>1, <3>2 DEF NpcInv
      <3>6. QED
        BY <2>1, <3>3, <3>4, <3>5 DEF NpcInv, IdsOf, NoDuplicates
    <2>4. QED
      BY <1>4, <2>2, <2>3 DEF OnNPCChangeHP
  <1>5. CASE UNCHANGED <<m_vNpcList, around, slain>>
    BY <1>5 DEF NpcInv, IdsOf, NoDuplicates
  <1>6. QED
    BY <1>2, <1>3, <1>4, <1>5 DEF Next, ServerThread, ClientThread, RemovePC, AddPC,
       RemoveProjectile, AddUserProjectile, DeleteMe, NewMe, CheckMe, TeleportFromMe, UseMe,
       HitInRange, HitTarget, HitRefused, vars, told, world

(* GetPlayerById finds the player's object, or there is no such player.    *)
LEMMA PlayerFound ==
  ASSUME TypeOK, PlayerInv, NEW id
  PROVE  \/ \E i \in DOMAIN m_vPlayerList :
              m_vPlayerList[i].id = id /\ PlayerById(id) = m_vPlayerList[i].at
         \/ PlayerById(id) = Null /\ id \notin IdsOf(m_vPlayerList)
  <1> DEFINE R == [id : Users, at : Addresses]
             k == Find(m_vPlayerList, id)
  <1>1. m_vPlayerList \in Seq(R) /\ NoDuplicates(m_vPlayerList)
    BY DEF TypeOK, PlayerInv
  <1> HIDE DEF R
  <1>2. \/ k \in DOMAIN m_vPlayerList /\ m_vPlayerList[k].id = id
        \/ k \notin DOMAIN m_vPlayerList /\ \A i \in DOMAIN m_vPlayerList : m_vPlayerList[i].id # id
    BY <1>1, FindById, Zenon
  <1>3. PlayerById(id) = IF k \in DOMAIN m_vPlayerList THEN m_vPlayerList[k].at ELSE Null
    BY DEF PlayerById
  <1> HIDE DEF k
  <1>4. QED
    BY <1>2, <1>3 DEF IdsOf

(* The main character's id is no player's.                                 *)
LEMMA MeNotListed == ASSUME TypeOK PROVE Me \notin IdsOf(m_vPlayerList)
  <1>1. \A i \in DOMAIN m_vPlayerList : m_vPlayerList[i] \in [id : Users, at : Addresses]
    BY SequenceFacts, Zenon DEF TypeOK
  <1>2. QED
    BY <1>1, MeAssumption DEF IdsOf

LEMMA PlayerStep == ASSUME Gentle, TypeOK, PlayerInv, MeInv, [Next]_vars PROVE PlayerInv'
  <1> DEFINE R == [id : Users, at : Addresses]
  <1>1. m_vPlayerList \in Seq(R) /\ NoDuplicates(m_vPlayerList)
    BY DEF TypeOK, PlayerInv
  <1>2. ASSUME NEW id \in Users, NEW at \in Addresses, AddPC(id, at) PROVE PlayerInv'
    <2> DEFINE e == [id |-> id, at |-> at]
    <2>1. e \in R /\ e.id = id /\ e.at = at
      OBVIOUS
    <2>2. /\ m_vPlayerList' = Append(m_vPlayerList, e) /\ users' = users \cup {id}
          /\ allocated' = allocated \cup {at} /\ m_Player' = m_Player
          /\ id \notin users /\ at \notin allocated
      BY <1>2, AlwaysParsed DEF AddPC
    <2> HIDE DEF e, R
    <2>3. e.id \notin IdsOf(m_vPlayerList)
      BY <2>1, <2>2 DEF PlayerInv
    <2>4. WithObject(Append(m_vPlayerList, e), m_vPlayerList, e)
      BY <1>1, <2>1, <2>3, AppendNew, Zenon
    <2>5. WithObject(m_vPlayerList', m_vPlayerList, e)
      BY <2>2, <2>4
    <2>6. at # m_Player
      <3>1. CASE m_Player = Null
        BY <3>1, NullAssumption
      <3>2. CASE m_Player # Null
        BY <1>2, <2>2, <3>2 DEF MeInv, AddPC
      <3>3. QED
        BY <3>1, <3>2
    <2>7. \A j \in DOMAIN m_vPlayerList' :
            m_vPlayerList'[j].at \in allocated' /\ m_vPlayerList'[j].at # m_Player'
      BY <2>1, <2>2, <2>5, <2>6 DEF WithObject, PlayerInv
    <2>8. ASSUME NEW i \in DOMAIN m_vPlayerList', NEW j \in DOMAIN m_vPlayerList',
                 m_vPlayerList'[i].at = m_vPlayerList'[j].at
          PROVE  i = j
      <3>1. m_vPlayerList'[i].id = m_vPlayerList'[j].id
        BY <2>1, <2>2, <2>5, <2>8 DEF WithObject, PlayerInv
      <3>2. QED
        BY <2>5, <3>1 DEF WithObject, NoDuplicates
    <2>9. QED
      BY <2>1, <2>2, <2>5, <2>7, <2>8 DEF WithObject, PlayerInv, IdsOf, NoDuplicates
  <1>3. ASSUME NEW id \in Users, RemovePC(id) PROVE PlayerInv'
    <2>1. /\ m_vPlayerList' = Erase(m_vPlayerList, id) /\ users' = users \ {id}
          /\ allocated' = allocated \ {PlayerById(id)} /\ m_Player' = m_Player
      BY <1>3, AlwaysParsed DEF RemovePC
    <2> HIDE DEF R
    <2>2. WithoutId(Erase(m_vPlayerList, id), m_vPlayerList, id)
      BY <1>1, EraseById, Zenon
    <2>3. WithoutId(m_vPlayerList', m_vPlayerList, id)
      BY <2>1, <2>2
    <2>4. \A i \in DOMAIN m_vPlayerList :
            m_vPlayerList[i].id # id => m_vPlayerList[i].at # PlayerById(id)
      <3> SUFFICES ASSUME NEW i \in DOMAIN m_vPlayerList, m_vPlayerList[i].id # id,
                          m_vPlayerList[i].at = PlayerById(id)
                   PROVE  FALSE
        OBVIOUS
      <3>1. m_vPlayerList[i] \in [id : Users, at : Addresses]
        BY SequenceFacts, Zenon DEF TypeOK
      <3>2. PlayerById(id) # Null
        BY <3>1, NullAssumption
      <3>3. PICK k \in DOMAIN m_vPlayerList :
              m_vPlayerList[k].id = id /\ PlayerById(id) = m_vPlayerList[k].at
        BY <3>2, PlayerFound, Zenon
      <3>4. QED
        BY <3>3 DEF PlayerInv
    <2>5. \A j \in DOMAIN m_vPlayerList' :
            m_vPlayerList'[j].at \in allocated' /\ m_vPlayerList'[j].at # m_Player'
      BY <2>1, <2>3, <2>4 DEF WithoutId, PlayerInv
    <2>6. ASSUME NEW i \in DOMAIN m_vPlayerList', NEW j \in DOMAIN m_vPlayerList',
                 m_vPlayerList'[i].at = m_vPlayerList'[j].at
          PROVE  i = j
      <3>1. m_vPlayerList'[i].id = m_vPlayerList'[j].id
        BY <2>3, <2>6 DEF WithoutId, PlayerInv
      <3>2. QED
        BY <2>3, <3>1 DEF WithoutId, NoDuplicates
    <2>7. QED
      BY <2>1, <2>3, <2>5, <2>6 DEF WithoutId, PlayerInv, IdsOf, NoDuplicates
  <1>4. CASE DeleteMe
    <2>1. /\ allocated' = allocated \ {m_Player} /\ m_Player' = m_Player
          /\ UNCHANGED <<m_vPlayerList, users>>
      BY <1>4 DEF DeleteMe, told, world
    <2>2. QED
      BY <2>1 DEF PlayerInv, IdsOf, NoDuplicates
  <1>5. ASSUME NEW at \in Addresses, NewMe(at) PROVE PlayerInv'
    <2>1. /\ at \notin allocated /\ m_Player' = at /\ allocated' = allocated \cup {at}
          /\ UNCHANGED <<m_vPlayerList, users>>
      BY <1>5 DEF NewMe, told, world
    <2>2. QED
      BY <2>1 DEF PlayerInv, IdsOf, NoDuplicates
  <1>6. CASE UNCHANGED <<m_vPlayerList, users, allocated, m_Player>>
    BY <1>6 DEF PlayerInv, IdsOf, NoDuplicates
  <1>7. QED
    BY <1>2, <1>3, <1>4, <1>5, <1>6 DEF Next, ServerThread, ClientThread, AddNPC, RemoveNPC,
       OnNPCChangeHP, RemoveProjectile, AddUserProjectile, OnlyWorld, CheckMe, TeleportFromMe,
       UseMe, HitInRange, HitTarget, HitRefused, vars, told, world, me

LEMMA MeStep == ASSUME Gentle, TypeOK, PlayerInv, MeInv, [Next]_vars PROVE MeInv'
  <1>1. ASSUME NEW id \in Users, NEW at \in Addresses, AddPC(id, at) PROVE MeInv'
    BY <1>1, AlwaysParsed DEF AddPC, MeInv, Idle
  <1>2. ASSUME NEW id \in Users, RemovePC(id) PROVE MeInv'
    <2>1. /\ allocated' = allocated \ {PlayerById(id)}
          /\ UNCHANGED <<m_Player, respawning, client>>
      BY <1>2, AlwaysParsed DEF RemovePC
    <2>2. m_Player # Null => m_Player # PlayerById(id)
      BY PlayerFound DEF PlayerInv
    <2>3. QED
      BY <2>1, <2>2 DEF MeInv, Idle
  <1>3. CASE DeleteMe
    <2>1. respawning' = TRUE /\ client' = [client EXCEPT !.raced = client # Idle]
      BY <1>3 DEF DeleteMe
    <2>2. client \in [at : Addresses \cup {Null}, raced : BOOLEAN]
      BY DEF TypeOK
    <2>3. CASE client = Idle
      <3>1. client' = Idle
        BY <2>1, <2>3 DEF Idle
      <3>2. QED
        BY <2>1, <3>1 DEF MeInv, Idle
    <2>4. CASE client # Idle
      <3>1. client'.raced
        BY <2>1, <2>2, <2>4
      <3>2. QED
        BY <2>1, <3>1 DEF MeInv
    <2>5. QED
      BY <2>3, <2>4
  <1>4. ASSUME NEW at \in Addresses, NewMe(at) PROVE MeInv'
    <2>1. respawning /\ m_Player' = at /\ allocated' = allocated \cup {at}
          /\ respawning' = FALSE /\ client' = client
      BY <1>4 DEF NewMe
    <2>2. client = Idle \/ client.raced
      BY <2>1 DEF MeInv
    <2>3. QED
      BY <2>1, <2>2 DEF MeInv, Idle
  <1>5. CASE CheckMe
    <2>1. /\ m_Player # Null /\ client'.raced = respawning /\ client'.at = m_Player
          /\ UNCHANGED <<m_Player, allocated, respawning>>
      BY <1>5 DEF CheckMe, me
    <2>2. QED
      BY <2>1 DEF MeInv
  <1>6. CASE TeleportFromMe
    <2>1. UNCHANGED <<m_Player, allocated, respawning>>
      BY <1>6 DEF TeleportFromMe, me
    <2>2. \/ client' = client
          \/ m_Player # Null /\ client'.raced = respawning /\ client'.at = m_Player
      BY <1>6 DEF TeleportFromMe
    <2>3. QED
      BY <2>1, <2>2 DEF MeInv, Idle
  <1>7. CASE UseMe
    BY <1>7 DEF UseMe, MeInv, me, Idle
  <1>8. CASE UNCHANGED <<allocated, m_Player, respawning, client>>
    BY <1>8 DEF MeInv, Idle
  <1>9. QED
    BY <1>1, <1>2, <1>3, <1>4, <1>5, <1>6, <1>7, <1>8 DEF Next, ServerThread, ClientThread, AddNPC,
       RemoveNPC, OnNPCChangeHP, RemoveProjectile, AddUserProjectile, OnlyWorld,
       HitInRange, HitTarget, HitRefused, vars, me

(* A step that leaves the shots and their owners alone.                    *)
LEMMA ShotsKept ==
  ASSUME ShotInv, UNCHANGED <<m_vProjectileList, fired, ownerIs, m_Player, respawning, m_vPlayerList>>
  PROVE  ShotInv'
  BY DEF ShotInv, ShotKnown, Living, Gone, Listed, IdsOf, NoDuplicates

LEMMA ShotsTyped == ASSUME TypeOK PROVE \A i \in DOMAIN m_vProjectileList : m_vProjectileList[i] \in Shot
  BY SequenceFacts, Zenon DEF TypeOK, Shot

(* A step that changes what is known of the shots, but not the list.       *)
LEMMA ShotsRelabelled ==
  ASSUME TypeOK, ShotInv, UNCHANGED <<m_vProjectileList, fired>>,
         \A shot \in Shot : ShotKnown(shot) => ShotKnown(shot)',
         \A s \in Shots : ownerIs[s] = "lives" /\ fired[s] = Nobody => ownerIs'[s] = "lives"
  PROVE  ShotInv'
  <1>1. \A i \in DOMAIN m_vProjectileList' : ShotKnown(m_vProjectileList[i])'
    BY ShotsTyped DEF ShotInv
  <1>2. QED
    BY <1>1 DEF ShotInv, IdsOf, NoDuplicates

(* A player comes: nobody leaves.                                          *)
LEMMA ShotAddPC ==
  ASSUME Gentle, TypeOK, PlayerInv, ShotInv, NEW id \in Users, NEW at \in Addresses, AddPC(id, at)
  PROVE  ShotInv'
  <1> DEFINE R == [id : Users, at : Addresses]
             e == [id |-> id, at |-> at]
  <1>1. m_vPlayerList \in Seq(R) /\ NoDuplicates(m_vPlayerList) /\ e \in R /\ e.id = id
    BY DEF TypeOK, PlayerInv
  <1>2. /\ m_vPlayerList' = Append(m_vPlayerList, e) /\ id \notin users
        /\ UNCHANGED <<m_vProjectileList, fired, ownerIs, m_Player, respawning>>
    BY AlwaysParsed DEF AddPC
  <1> HIDE DEF e, R
  <1>3. e.id \notin IdsOf(m_vPlayerList)
    BY <1>1, <1>2 DEF PlayerInv
  <1>4. WithObject(Append(m_vPlayerList, e), m_vPlayerList, e)
    BY <1>1, <1>3, AppendNew, Zenon
  <1>5. \A i \in DOMAIN m_vPlayerList : \E j \in DOMAIN m_vPlayerList' : m_vPlayerList'[j] = m_vPlayerList[i]
    BY <1>2, <1>4 DEF WithObject
  <1>6. \A x, y : Listed(x, y) => Listed(x, y)'
    BY <1>5 DEF Listed
  <1>7. ASSUME NEW shot \in Shot, ShotKnown(shot) PROVE ShotKnown(shot)'
    BY <1>2, <1>6, <1>7 DEF ShotKnown, Living, Gone
  <1>8. QED
    BY <1>2, <1>7, ShotsRelabelled

(* A player leaves: his object was not the main character's.               *)
LEMMA ShotRemovePC ==
  ASSUME Gentle, TypeOK, PlayerInv, ShotInv, NEW id \in Users, RemovePC(id)
  PROVE  ShotInv'
  <1> DEFINE R == [id : Users, at : Addresses]
  <1>1. m_vPlayerList \in Seq(R) /\ NoDuplicates(m_vPlayerList) /\ id # Me /\ id # Null
    BY MeAssumption, NullAssumption DEF TypeOK, PlayerInv
  <1>2. /\ m_vPlayerList' = Erase(m_vPlayerList, id) /\ ownerIs' = OwnerGone(id)
        /\ UNCHANGED <<m_vProjectileList, fired, m_Player, respawning>>
    BY AlwaysParsed DEF RemovePC
  <1> HIDE DEF R
  <1>3. WithoutId(Erase(m_vPlayerList, id), m_vPlayerList, id)
    BY <1>1, EraseById, Zenon
  <1>4. \A i \in DOMAIN m_vPlayerList : m_vPlayerList[i].id # id =>
          \E j \in DOMAIN m_vPlayerList' : m_vPlayerList'[j] = m_vPlayerList[i]
    BY <1>2, <1>3 DEF WithoutId
  <1>5. \A x, y : x # id /\ Listed(x, y) => Listed(x, y)'
    BY <1>4 DEF Listed
  <1>6. \A y : Listed(id, y) => y # m_Player
    BY DEF Listed, PlayerInv
  <1>7. \A s \in Shots : ownerIs'[s] = IF fired[s] = id /\ ownerIs[s] = "lives" THEN "gone" ELSE ownerIs[s]
    BY <1>2 DEF OwnerGone
  <1>8. ASSUME NEW shot \in Shot, ShotKnown(shot) PROVE ShotKnown(shot)'
    <2>1. shot.id \in Shots
      BY DEF Shot
    <2>2. CASE fired[shot.id] = id
      <3>1. ownerIs'[shot.id] # "lives" /\ (ownerIs'[shot.id] = "gone" => ownerIs[shot.id] \in {"lives", "gone"})
        BY <1>7, <2>1, <2>2
      <3>2. ownerIs'[shot.id] = "gone" => shot.owner # m_Player
        BY <1>1, <1>6, <1>8, <2>2, <3>1 DEF ShotKnown, Living, Gone
      <3>3. QED
        BY <1>1, <1>2, <1>8, <2>2, <3>1, <3>2 DEF ShotKnown, Living, Gone
    <2>3. CASE fired[shot.id] # id
      <3>1. ownerIs'[shot.id] = ownerIs[shot.id]
        BY <1>7, <2>1, <2>3
      <3>2. QED
        BY <1>2, <1>5, <1>8, <2>3, <3>1 DEF ShotKnown, Living, Gone
    <2>4. QED
      BY <2>2, <2>3
  <1>9. QED
    BY <1>1, <1>2, <1>7, <1>8, ShotsRelabelled DEF Nobody

(* The main character is spawned, first half and second.                   *)
LEMMA ShotSpawn ==
  ASSUME TypeOK, ShotInv, DeleteMe \/ \E at \in Addresses : NewMe(at)
  PROVE  ShotInv'
  <1>1. CASE DeleteMe
    <2>1. /\ respawning' /\ m_Player' = m_Player /\ m_vPlayerList' = m_vPlayerList
          /\ UNCHANGED <<m_vProjectileList, fired>> /\ ownerIs' = OwnerGone(Me)
      BY <1>1 DEF DeleteMe, told, world
    <2>2. \A s \in Shots : ownerIs'[s] = IF fired[s] = Me /\ ownerIs[s] = "lives" THEN "gone" ELSE ownerIs[s]
      BY <2>1 DEF OwnerGone
    <2>3. ASSUME NEW shot \in Shot, ShotKnown(shot) PROVE ShotKnown(shot)'
      <3>1. shot.id \in Shots
        BY DEF Shot
      <3>2. QED
        BY <2>1, <2>2, <2>3, <3>1 DEF ShotKnown, Living, Gone, Listed
    <2>4. Me # Nobody
      BY NullAssumption DEF Nobody
    <2>5. QED
      BY <2>1, <2>2, <2>3, <2>4, ShotsRelabelled
  <1>2. ASSUME NEW at \in Addresses, NewMe(at) PROVE ShotInv'
    <2>1. /\ respawning /\ m_vPlayerList' = m_vPlayerList
          /\ UNCHANGED <<m_vProjectileList, fired>> /\ ownerIs' = OwnersReplaced
      BY <1>2 DEF NewMe, told, world
    <2>2. \A s \in Shots : ownerIs'[s] = IF ownerIs[s] = "gone" THEN "replaced" ELSE ownerIs[s]
      BY <2>1 DEF OwnersReplaced
    <2>3. ASSUME NEW shot \in Shot, ShotKnown(shot) PROVE ShotKnown(shot)'
      <3>1. shot.id \in Shots
        BY DEF Shot
      <3>2. ownerIs'[shot.id] # "gone" /\ (ownerIs'[shot.id] = "lives" => ownerIs[shot.id] = "lives")
        BY <2>2, <3>1
      <3>3. fired[shot.id] = Me => ~(ownerIs[shot.id] = "lives")
        BY <2>1, <2>3 DEF ShotKnown, Living
      <3>4. QED
        BY <2>1, <2>3, <3>2, <3>3 DEF ShotKnown, Living, Listed
    <2>4. QED
      BY <2>1, <2>2, <2>3, ShotsRelabelled
  <1>3. QED
    BY <1>1, <1>2

LEMMA ShotAdded ==
  ASSUME Gentle, TypeOK, PlayerInv, MeInv, ShotInv,
         NEW s \in Shots, NEW by \in Users \cup {Me}, AddUserProjectile(s, by)
  PROVE  ShotInv'
  <1> DEFINE R == [id : Shots, owner : Addresses]
             e == [id |-> s, owner |-> OwnerOf(by)]
  <1>1. m_vProjectileList \in Seq(R) /\ NoDuplicates(m_vProjectileList)
    BY DEF TypeOK, ShotInv
  <1>2. /\ fired[s] = Null /\ ~respawning
        /\ UNCHANGED <<ownerIs, m_Player, respawning, m_vPlayerList>>
    BY DEF AddUserProjectile, OnlyWorld, me, Nobody
  <1>3. \/ UNCHANGED <<fired, m_vProjectileList>>
        \/ /\ PlayerById(by) # Null \/ m_Player # Null
           /\ fired' = [fired EXCEPT ![s] = by]
           /\ m_vProjectileList' = IF OwnerOf(by) # Null THEN Append(m_vProjectileList, e)
                                   ELSE m_vProjectileList
    BY AlwaysParsed DEF AddUserProjectile
  <1>4. CASE UNCHANGED <<fired, m_vProjectileList>>
    BY <1>2, <1>4, ShotsKept
  <1>5. CASE /\ PlayerById(by) # Null \/ m_Player # Null
             /\ fired' = [fired EXCEPT ![s] = by]
             /\ m_vProjectileList' = IF OwnerOf(by) # Null THEN Append(m_vProjectileList, e)
                                     ELSE m_vProjectileList
    <2>1. /\ DOMAIN fired' = Shots /\ fired'[s] = by
          /\ \A r \in Shots : r # s => fired'[r] = fired[r]
      BY <1>5 DEF ShotInv
    <2>2. by # Null /\ Me # Null /\ ownerIs[s] = "lives"
      BY <1>2, NullAssumption DEF ShotInv, Nobody
    <2>3. \A i \in DOMAIN m_vProjectileList : m_vProjectileList[i].id # s
      BY <1>2 DEF ShotInv, ShotKnown, Nobody
    <2>4. ASSUME NEW shot \in Shot, ShotKnown(shot), shot.id # s PROVE ShotKnown(shot)'
      <3>1. shot.id \in Shots
        BY DEF Shot
      <3>2. fired'[shot.id] = fired[shot.id]
        BY <2>1, <2>4, <3>1
      <3>3. QED
        BY <1>2, <2>4, <3>2 DEF ShotKnown, Living, Gone, Listed
    <2>5. CASE OwnerOf(by) = Null
      <3>1. m_vProjectileList' = m_vProjectileList
        BY <1>5, <2>5
      <3>2. PlayerById(Me) = Null
        BY PlayerFound, MeNotListed DEF IdsOf
      <3>3. by # Me
        BY <1>5, <2>5, <3>2 DEF OwnerOf
      <3>4. \A i \in DOMAIN m_vProjectileList' : ShotKnown(m_vProjectileList[i])'
        BY <2>3, <2>4, <3>1, ShotsTyped DEF ShotInv
      <3>5. QED
        BY <1>2, <2>1, <2>2, <3>1, <3>3, <3>4 DEF ShotInv, IdsOf, NoDuplicates, Nobody
    <2>6. CASE OwnerOf(by) # Null
      <3>1. m_vProjectileList' = Append(m_vProjectileList, e)
        BY <1>5, <2>6
      <3>2. e \in R /\ e.id = s /\ e.owner = OwnerOf(by)
        BY <2>6, OwnerTyped
      <3> HIDE DEF e, R
      <3>3. e.id \notin IdsOf(m_vProjectileList)
        BY <2>3, <3>2 DEF IdsOf
      <3>4. WithObject(Append(m_vProjectileList, e), m_vProjectileList, e)
        BY <1>1, <3>2, <3>3, AppendNew, Zenon
      <3>5. WithObject(m_vProjectileList', m_vProjectileList, e)
        BY <3>1, <3>4
      <3>6. IF by = Me THEN e.owner = m_Player ELSE Listed(by, e.owner)
        <4>1. PlayerById(Me) = Null
          BY PlayerFound, MeNotListed DEF IdsOf
        <4>2. by # Me => PlayerById(by) # Null
          BY <2>6 DEF OwnerOf
        <4>3. QED
          BY <3>2, <4>1, <4>2, PlayerFound DEF OwnerOf, Listed
      <3>7. \A shot : shot.id = s /\ shot.owner = e.owner => ShotKnown(shot)'
        <4> SUFFICES ASSUME NEW shot, shot.id = s, shot.owner = e.owner
                     PROVE  ShotKnown(shot)'
          OBVIOUS
        <4>1. fired'[shot.id] = by /\ ownerIs'[shot.id] = "lives"
          BY <1>2, <2>1, <2>2
        <4>2. IF by = Me THEN shot.owner = m_Player ELSE Listed(by, shot.owner)
          BY <3>6
        <4>3. QED
          BY <1>2, <2>2, <4>1, <4>2 DEF ShotKnown, Living, Listed, Nobody
      <3>8. ASSUME NEW j \in DOMAIN m_vProjectileList' PROVE ShotKnown(m_vProjectileList[j])'
        <4>1. CASE m_vProjectileList'[j] = e
          BY <3>2, <3>7, <4>1
        <4>2. ASSUME NEW i \in DOMAIN m_vProjectileList, m_vProjectileList'[j] = m_vProjectileList[i]
              PROVE  ShotKnown(m_vProjectileList[j])'
          <5>1. ShotKnown(m_vProjectileList[i]) /\ m_vProjectileList[i] \in Shot
            BY ShotsTyped DEF ShotInv
          <5>2. \A shot \in Shot : ShotKnown(shot) /\ shot.id # s => ShotKnown(shot)'
            BY <2>4
          <5>3. QED
            BY <2>3, <4>2, <5>1, <5>2
        <4>3. QED
          BY <3>5, <4>1, <4>2 DEF WithObject
      <3>9. \A r \in Shots : fired'[r] = Me => r \in IdsOf(m_vProjectileList')
        BY <2>1, <3>2, <3>5 DEF WithObject, ShotInv
      <3>10. QED
        BY <1>2, <2>1, <2>2, <3>5, <3>8, <3>9 DEF WithObject, ShotInv, NoDuplicates, IdsOf, Nobody
    <2>7. QED
      BY <2>5, <2>6
  <1>6. QED
    BY <1>3, <1>4, <1>5

(* A shot ends: nothing is known of its id any more.                       *)
LEMMA ShotRemoved ==
  ASSUME Gentle, TypeOK, ShotInv, NEW s \in Shots, RemoveProjectile(s)
  PROVE  ShotInv'
  <1> DEFINE R == [id : Shots, owner : Addresses]
  <1>1. m_vProjectileList \in Seq(R) /\ NoDuplicates(m_vProjectileList) /\ Me # Null
    BY NullAssumption DEF TypeOK, ShotInv
  <1>2. /\ m_vProjectileList' = Erase(m_vProjectileList, s)
        /\ fired' = [fired EXCEPT ![s] = Null] /\ ownerIs' = [ownerIs EXCEPT ![s] = "lives"]
        /\ UNCHANGED <<m_Player, respawning, m_vPlayerList>>
    BY AlwaysParsed DEF RemoveProjectile, RemovedShot, Parsed, OnlyWorld, me, Nobody
  <1>3. /\ DOMAIN fired' = Shots /\ fired'[s] = Null /\ ownerIs'[s] = "lives"
        /\ \A r \in Shots : r # s => fired'[r] = fired[r] /\ ownerIs'[r] = ownerIs[r]
    BY <1>2 DEF ShotInv, TypeOK
  <1> HIDE DEF R
  <1>4. WithoutId(Erase(m_vProjectileList, s), m_vProjectileList, s)
    BY <1>1, EraseById, Zenon
  <1>5. WithoutId(m_vProjectileList', m_vProjectileList, s)
    BY <1>2, <1>4
  <1>6. ASSUME NEW shot \in Shot, ShotKnown(shot), shot.id # s PROVE ShotKnown(shot)'
    <2>1. shot.id \in Shots
      BY DEF Shot
    <2>2. fired'[shot.id] = fired[shot.id] /\ ownerIs'[shot.id] = ownerIs[shot.id]
      BY <1>3, <1>6, <2>1
    <2>3. QED
      BY <1>2, <1>6, <2>2 DEF ShotKnown, Living, Gone, Listed
  <1>7. ASSUME NEW j \in DOMAIN m_vProjectileList' PROVE ShotKnown(m_vProjectileList[j])'
    <2>1. PICK i \in DOMAIN m_vProjectileList :
            m_vProjectileList'[j] = m_vProjectileList[i] /\ m_vProjectileList[i].id # s
      BY <1>5 DEF WithoutId
    <2>2. ShotKnown(m_vProjectileList[i]) /\ m_vProjectileList[i] \in Shot
      BY ShotsTyped DEF ShotInv
    <2>3. \A shot \in Shot : ShotKnown(shot) /\ shot.id # s => ShotKnown(shot)'
      BY <1>6
    <2>4. QED
      BY <2>1, <2>2, <2>3
  <1>8. \A r \in Shots : fired'[r] = Me => r \in IdsOf(m_vProjectileList')
    BY <1>1, <1>3, <1>5 DEF WithoutId, ShotInv
  <1>9. QED
    BY <1>3, <1>5, <1>7, <1>8 DEF WithoutId, ShotInv, NoDuplicates, IdsOf, Nobody

LEMMA ShotStep == ASSUME Gentle, TypeOK, PlayerInv, MeInv, ShotInv, [Next]_vars PROVE ShotInv'
  <1>1. CASE UNCHANGED <<m_vProjectileList, fired, ownerIs, m_Player, respawning, m_vPlayerList>>
    BY <1>1, ShotsKept
  <1>2. ASSUME NEW id \in Users, RemovePC(id) \/ \E at \in Addresses : AddPC(id, at) PROVE ShotInv'
    BY <1>2, ShotAddPC, ShotRemovePC
  <1>3. ASSUME NEW s \in Shots,
               RemoveProjectile(s) \/ \E by \in Users \cup {Me} : AddUserProjectile(s, by)
        PROVE  ShotInv'
    BY <1>3, ShotAdded, ShotRemoved
  <1>4. CASE DeleteMe \/ \E at \in Addresses : NewMe(at)
    BY <1>4, ShotSpawn
  <1>5. QED
    BY <1>1, <1>2, <1>3, <1>4 DEF Next, ServerThread, ClientThread, AddNPC, RemoveNPC,
       OnNPCChangeHP, OnlyWorld, CheckMe, TeleportFromMe, UseMe, HitInRange, HitTarget,
       HitRefused, vars, told, world, me

(* The shots whose owner is m_Player, but for the replaced ones, are those *)
(* of the main character.                                                  *)
LEMMA ShotsTold ==
  ASSUME TypeOK, PlayerInv, ShotInv
  PROVE  OwnHitsOnly
  <1> SUFFICES ASSUME ~respawning, NEW s \in IdsOf(m_vProjectileList), ownerIs[s] # "replaced"
               PROVE  IsMine(s) <=> fired[s] = Me
    BY DEF OwnHitsOnly
  <1> DEFINE R == [id : Shots, owner : Addresses]
             k == Find(m_vProjectileList, s)
             shot == m_vProjectileList[k]
  <1>1. m_vProjectileList \in Seq(R) /\ NoDuplicates(m_vProjectileList)
    BY DEF TypeOK, ShotInv
  <1> HIDE DEF R
  <1>2. \/ k \in DOMAIN m_vProjectileList /\ m_vProjectileList[k].id = s
        \/ \A i \in DOMAIN m_vProjectileList : m_vProjectileList[i].id # s
    BY <1>1, FindById, Zenon
  <1>3. k \in DOMAIN m_vProjectileList /\ shot.id = s
    BY <1>2 DEF IdsOf
  <1>4. IsMine(s) <=> shot.owner = m_Player
    BY <1>3 DEF IsMine, ProjectileAt
  <1>5. ShotKnown(shot) /\ shot \in Shot
    BY <1>3, ShotsTyped DEF ShotInv
  <1> HIDE DEF shot, k
  <1>6. ownerIs[s] \in {"lives", "gone"}
    BY <1>3, <1>5 DEF TypeOK, Shot
  <1>7. \A y : Listed(fired[s], y) => y # m_Player
    BY DEF Listed, PlayerInv
  <1>8. QED
    BY <1>3, <1>4, <1>5, <1>6, <1>7 DEF ShotKnown, Living, Gone

LEMMA WorldCorrect == ASSUME Gentle PROVE Spec => [](TypeOK /\ WorldInv)
  <1>1. Init => TypeOK /\ WorldInv
    BY TypeInit, WorldInit
  <1>2. TypeOK /\ WorldInv /\ [Next]_vars => TypeOK' /\ WorldInv'
    BY TypeStep, NpcStep, PlayerStep, MeStep, ShotStep DEF WorldInv
  <1>3. QED
    BY <1>1, <1>2, PTL DEF Spec

(* With handlers that let every packet be parsed the world is what the     *)
(* server has told, for any number of NPCs, players and shots and however  *)
(* often the main character is spawned (the Add and Remove functions).     *)
THEOREM WorldMirrorsCorrect == ASSUME Gentle PROVE Spec => []WorldMirrors
  <1>1. TypeOK /\ WorldInv => WorldMirrors
    <2> SUFFICES ASSUME TypeOK, WorldInv PROVE WorldMirrors
      OBVIOUS
    <2>1. \A i \in DOMAIN m_vProjectileList : fired[m_vProjectileList[i].id] # Nobody
      BY DEF WorldInv, ShotInv, ShotKnown
    <2>2. QED
      BY <2>1 DEF WorldInv, NpcInv, PlayerInv, ShotInv, WorldMirrors, IdsOf
  <1>2. QED
    BY <1>1, WorldCorrect, PTL

(* Under the same assumption a shot is taken for the main character's      *)
(* exactly if he fired it, although owners are compared as pointers that   *)
(* may dangle and addresses are used again; the shots excepted are those   *)
(* whose owner was deleted before the last spawn (OnSendHitProjectile,     *)
(* RemovePC, OnMainControllerSpawn).                                       *)
THEOREM OwnHitsCorrect == ASSUME Gentle PROVE Spec => []OwnHitsOnly
  <1>1. TypeOK /\ WorldInv => OwnHitsOnly
    BY ShotsTold DEF WorldInv
  <1>2. QED
    BY <1>1, WorldCorrect, PTL

(* Under the same assumption the client thread, which holds the client     *)
(* mutex only, uses a main character that exists and is the present one,   *)
(* if no spawn came between its read of m_Player and its use               *)
(* (OnMainControllerMove, Commands::Teleport, OnMainControllerSpawn).      *)
THEOREM MeUsedAliveCorrect == ASSUME Gentle PROVE Spec => []MeUsedAlive
  <1>1. WorldInv => MeUsedAlive
    BY DEF WorldInv, MeInv, MeUsedAlive
  <1>2. QED
    BY <1>1, WorldCorrect, PTL

-------------------------------------------------------------------------------
(* What AtIndices returns: the elements at the indices, and no others.     *)
LEMMA AtIndicesFacts ==
  ASSUME NEW S, NEW s \in Seq(S), NEW I \in SUBSET DOMAIN s
  PROVE  /\ AtIndices(s, I) \in Seq(S) 
         /\ Cardinality(I) \in 0 .. Len(s) /\ Len(AtIndices(s, I)) = Cardinality(I)
         /\ \A i \in I : \E k \in DOMAIN AtIndices(s, I) : AtIndices(s, I)[k] = s[i]
         /\ \A k \in DOMAIN AtIndices(s, I) : \E i \in I : AtIndices(s, I)[k] = s[i]
  <1> DEFINE n    == Cardinality(I)
             f    == [i \in I |-> Rank(I, i)]
             At(k) == CHOOSE i \in I : Rank(I, i) = k
  <1>1. IsFiniteSet(I) /\ n \in Nat /\ n <= Len(s) /\ I \subseteq Nat
    <2>1. Len(s) \in Nat /\ DOMAIN s = 1 .. Len(s)
      OBVIOUS
    <2>2. IsFiniteSet(1 .. Len(s)) /\ Cardinality(1 .. Len(s)) = Len(s)
      <3>1. \A m \in Nat : IsFiniteSet(1 .. m) /\ Cardinality(1 .. m) = m
        BY FS_Interval
      <3>2. QED
        BY <2>1, <3>1
    <2>3. QED
      BY <2>1, <2>2, FS_Subset, FS_CardinalityType
  <1>2. \A i \in I : Rank(I, i) \in 1 .. n
    <2> TAKE i \in I
    <2> DEFINE upto == {j \in I : j <= i}
    <2>1. IsFiniteSet(upto) /\ Cardinality(upto) <= n /\ Cardinality(upto) \in Nat
      BY <1>1, FS_Subset, FS_CardinalityType
    <2>2. i \in upto
      BY <1>1
    <2>3. Cardinality(upto) # 0
      BY <2>1, <2>2, FS_EmptySet
    <2>4. QED
      BY <1>1, <2>1, <2>3 DEF Rank
  <1>3. \A i, j \in I : i < j => Rank(I, i) # Rank(I, j)
    <2> TAKE i, j \in I
    <2> HAVE i < j
    <2> DEFINE low == {k \in I : k <= i}
               high == {k \in I : k <= j}
    <2>1. low \subseteq high /\ j \in high /\ j \notin low
      BY <1>1
    <2>2. IsFiniteSet(high)
      BY <1>1, FS_Subset
    <2>3. Cardinality(high) # Cardinality(low)
      BY <2>1, <2>2, FS_Subset
    <2>4. QED
      BY <2>3 DEF Rank
  <1>4. \A i, j \in I : Rank(I, i) = Rank(I, j) => i = j
    BY <1>1, <1>3
  <1>5. \A k \in 1 .. n : \E i \in I : Rank(I, i) = k
    <2>1. f \in Injection(I, 1 .. n)
      BY <1>2, <1>4 DEF Injection, IsInjective
    <2>2. IsFiniteSet(1 .. n) /\ Cardinality(1 .. n) = n
      BY <1>1, FS_Interval
    <2>3. f \in Surjection(I, 1 .. n)
      BY <2>1, <2>2, FS_Injection
    <2>4. QED
      BY <2>3 DEF Surjection
  <1>6. \A k \in 1 .. n : At(k) \in I /\ Rank(I, At(k)) = k
    BY <1>5
  <1>7. AtIndices(s, I) = [k \in 1 .. n |-> s[At(k)]]
    BY DEF AtIndices
  <1> HIDE DEF At, n, f
  <1>8. \A i \in I : At(Rank(I, i)) = i
    BY <1>2, <1>4, <1>6
  <1>9. /\ AtIndices(s, I) \in Seq(S) /\ Len(AtIndices(s, I)) = n
        /\ DOMAIN AtIndices(s, I) = 1 .. n
    BY <1>1, <1>6, <1>7
  <1>10. n = Cardinality(I)
    BY DEF n
  <1>11. QED
    BY <1>1, <1>2, <1>6, <1>7, <1>8, <1>9, <1>10

(* remove_if keeps the length, and what is to be kept.                     *)
LEMMA MovedForwardFacts ==
  ASSUME NEW S, NEW s \in Seq(S), NEW I \in SUBSET DOMAIN s
  PROVE  /\ MovedForward(s, I) \in Seq(S) /\ Len(MovedForward(s, I)) = Len(s)
         /\ \A i \in I : \E k \in DOMAIN MovedForward(s, I) : MovedForward(s, I)[k] = s[i]
  <1> DEFINE kept == AtIndices(s, I)
             rest == SubSeq(s, Cardinality(I) + 1, Len(s))
             t    == MovedForward(s, I)
  <1>1. /\ kept \in Seq(S) /\ Cardinality(I) \in 0 .. Len(s) /\ Len(kept) = Cardinality(I)
        /\ \A i \in I : \E k \in DOMAIN kept : kept[k] = s[i]
    BY AtIndicesFacts
  <1>2. rest \in Seq(S) /\ Len(rest) = Len(s) - Cardinality(I)
    BY <1>1
  <1>3. t = kept \o rest
    BY DEF MovedForward
  <1> HIDE DEF kept, rest, t
  <1>4. /\ t \in Seq(S) /\ Len(t) = Len(s)
        /\ \A k \in DOMAIN kept : k \in DOMAIN t /\ t[k] = kept[k]
    BY <1>1, <1>2, <1>3
  <1>5. \A i \in I : \E k \in DOMAIN t : t[k] = s[i]
    BY <1>1, <1>4
  <1>6. QED
    BY <1>4, <1>5 DEF t

-------------------------------------------------------------------------------
(* As many targets as there are elements are all of them.                  *)
LEMMA RoundRobin ==
  ASSUME NEW S, NEW list \in Seq(S), list # <<>>, Len(list) <= HitCount, NEW k \in DOMAIN list
  PROVE  k \in DOMAIN Targets(list) /\ Targets(list)[k] = list[k]
  <1>1. /\ k \in 1 .. Len(list) /\ Len(list) \in Nat \ {0} /\ k \in 1 .. HitCount
    BY HitCountAssumption
  <1>2. (k - 1) % Len(list) = k - 1
    BY <1>1
  <1>3. DOMAIN Targets(list) = 1 .. HitCount /\ Targets(list)[k] = list[((k - 1) % Len(list)) + 1]
    BY <1>1 DEF Targets
  <1>4. QED
    BY <1>1, <1>2, <1>3

LEMMA LivingStep == ASSUME TypeOK, LivingAreHit, [Next]_vars PROVE LivingAreHit'
  <1>1. ASSUME NEW s \in Shots, HitInRange(s) PROVE LivingAreHit'
    <2>1. PICK near \in SUBSET Npcs :
            /\ DeadRemoved(AnyNpc(near)) # <<>>
            /\ hit' = [targets |-> Targets(DeadRemoved(AnyNpc(near))),
                       inRange |-> AnyNpc(near)]
      BY <1>1 DEF HitInRange
    <2> DEFINE Records == [id : Npcs, dead : BOOLEAN]
               inRange == AnyNpc(near)
               living  == {i \in DOMAIN inRange : ~inRange[i].dead}
               list    == DeadRemoved(inRange)
    <2>2. inRange \in Seq(Records)
      <3>1. m_vNpcList \in Seq(Records)
        BY DEF TypeOK
      <3>2. {i \in DOMAIN m_vNpcList : m_vNpcList[i].id \in near} \in SUBSET DOMAIN m_vNpcList
        OBVIOUS
      <3>3. QED
        BY <3>1, <3>2, AtIndicesFacts, Zenon DEF AnyNpc
    <2> HIDE DEF inRange
    <2>3. list = MovedForward(inRange, living)
      BY DEF DeadRemoved, RemoveIf
    <2>4. living \in SUBSET DOMAIN inRange
      OBVIOUS
    <2> HIDE DEF living, Records, list
    <2>5. /\ list \in Seq(Records) /\ Len(list) = Len(inRange)
          /\ \A i \in living : \E k \in DOMAIN list : list[k] = inRange[i]
      BY <2>2, <2>3, <2>4, MovedForwardFacts, Zenon
    <2>6. hit'.inRange = inRange /\ hit'.targets = Targets(list) /\ list # <<>>
      BY <2>1 DEF inRange, list
    <2>7. ASSUME Len(inRange) <= HitCount, NEW i \in living
          PROVE  \E j \in DOMAIN hit'.targets : hit'.targets[j] = inRange[i]
      <3>1. PICK k \in DOMAIN list : list[k] = inRange[i]
        BY <2>5, <2>7
      <3>2. Len(list) <= HitCount
        BY <2>5, <2>7
      <3>3. k \in DOMAIN Targets(list) /\ Targets(list)[k] = list[k]
        BY <2>5, <2>6, <3>2, RoundRobin, Zenon
      <3>4. QED
        BY <2>6, <3>1, <3>3
    <2>8. QED
      BY <2>6, <2>7, Zenon DEF LivingAreHit, living
  <1>2. ASSUME NEW s \in Shots, HitTarget(s) PROVE LivingAreHit'
    BY <1>2 DEF HitTarget, NoHit, LivingAreHit
  <1>3. CASE hit' = NoHit
    BY <1>3 DEF LivingAreHit, NoHit
  <1>4. CASE UNCHANGED hit
    BY <1>4 DEF LivingAreHit
  <1>5. QED
    BY <1>1, <1>2, <1>3, <1>4 DEF Next, ServerThread, ClientThread, AddNPC, RemoveNPC,
       OnNPCChangeHP, RemoveProjectile, AddUserProjectile, OnlyWorld, AddPC, RemovePC,
       DeleteMe, NewMe, CheckMe, TeleportFromMe, UseMe, HitRefused, vars

(* Whatever the handlers answer and whoever is respawned: when the hits    *)
(* are enough, every living NPC in range is hit, although remove_if leaves *)
(* dead ones at the end of the list (OnSendHitProjectile).                 *)
THEOREM LivingHitCorrect == Spec => []LivingAreHit
  <1>1. Init => LivingAreHit
    BY DEF Init, NoHit, LivingAreHit
  <1>2. TypeOK /\ LivingAreHit /\ [Next]_vars => LivingAreHit'
    BY LivingStep
  <1>3. QED
    BY <1>1, <1>2, TypeCorrect, PTL DEF Spec
===============================================================================
