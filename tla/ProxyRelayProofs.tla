--------------------------- MODULE ProxyRelayProofs ---------------------------
(***************************************************************************)
(* Invariants of ProxyRelay for every set of packet lengths, every answer  *)
(* of the packet handlers and any number of packets.  What the client is   *)
(* sent is only in step when no TELEPORT command is used (TeleportOn);     *)
(* everything else holds with them too.                                    *)
(***************************************************************************)
EXTENDS ProxyRelay, TLAPS

(* The position at which the packet after the first k was or will be       *)
(* encrypted: the peer's packets follow each other in the keystream.       *)
PositionAfter(t, k) ==
  IF k < Len(stream[t]) THEN stream[t][k + 1].at ELSE peerSend[t]

RecvInv(t) ==
  /\ next[t] <= Len(stream[t])
  /\ \A k \in 1 .. Len(stream[t]) :
       PositionAfter(t, k) = stream[t][k].at + stream[t][k].size
  /\ pc[t] = "body" => Arrived(t) /\ trans[t] = Arriving(t).size
  /\ ReadPosition(t) = ExpectedPosition(t)
  /\ packet[t] # Garbage

LEMMA ThreadsAreTwo == Threads = {"server", "client"} /\ None \notin Threads
  BY DEF Threads, None

LEMMA ProductIsNat == \A a, b \in Nat : a * b \in Nat
  OBVIOUS

(* What the operators on ciphers do to the two positions.                  *)
LEMMA CipherOperators ==
  ASSUME NEW c \in Cipher, NEW n \in Nat
  PROVE  /\ Encrypted(c, n) \in Cipher /\ Saved(c) \in Cipher /\ Restored(c) \in Cipher
         /\ Encrypted(c, n).pos = c.pos + n /\ Encrypted(c, n).mark = c.mark
         /\ Saved(c).pos = c.pos /\ Saved(c).mark = c.pos
         /\ Restored(c).pos = c.mark
         /\ c.pos \in Nat /\ c.mark \in Nat
  BY DEF Cipher, Encrypted, Saved, Restored

LEMMA Appending ==
  ASSUME NEW S, NEW s \in Seq(S), NEW e \in S
  PROVE  /\ Len(s) \in Nat /\ Len(Append(s, e)) = Len(s) + 1
         /\ Append(s, e)[Len(s) + 1] = e
         /\ \A k \in 1 .. Len(s) : Append(s, e)[k] = s[k]
  OBVIOUS

(* Counting sent copies keeps their sum.                                   *)
LEMMA CountingCopies ==
  ASSUME NEW o \in Answered, NEW n \in Nat
  PROVE  /\ Sent(o, n) \in Answered
         /\ Sent(o, n).copies = o.copies - n /\ Sent(o, n).sent = o.sent + n
         /\ Sent(o, n).size = o.size
         /\ Nothing \in Answered
  BY DEF Answered, Sent, Nothing

-------------------------------------------------------------------------------
(* Typing *)

LEMMA TypeInit == Init => TypeOK
  BY DEF Init, TypeOK, CipherAt, Cipher, StreamStart, Threads, None, Own, Name,
         Nothing, Places, Answered, Chunk

LEMMA TypeNext == TypeOK /\ [Next]_vars => TypeOK'
  <1>1. SUFFICES ASSUME TypeOK, [Next]_vars PROVE TypeOK'
    OBVIOUS
  <1> USE <1>1
  <1>0. ASSUME NEW t \in Threads, NEW from, NEW to \in Places, Goto(t, from, to)
        PROVE  pc' \in [Threads -> Places]
    BY <1>0 DEF Goto, TypeOK
  <1>2. CASE UNCHANGED vars
    BY <1>2 DEF TypeOK, vars, peers, input, output
  <1>3. ASSUME NEW t \in Threads, PeerSends(t) PROVE TypeOK'
    <2>1. PICK n \in Sizes :
            /\ stream' = [stream EXCEPT ![t] = Append(@, [size |-> n, at |-> peerSend[t]])]
            /\ peerSend' = [peerSend EXCEPT ![t] = @ + n]
      BY <1>3 DEF PeerSends
    <2>2. n \in Nat /\ peerSend[t] \in Nat /\ stream[t] \in Seq(Packet)
      BY SizesAssumption DEF TypeOK
    <2>3. [size |-> n, at |-> peerSend[t]] \in Packet
      BY <2>2 DEF Packet
    <2>4. Append(stream[t], [size |-> n, at |-> peerSend[t]]) \in Seq(Packet)
      BY <2>2, <2>3
    <2>5. stream' \in [Threads -> Seq(Packet)] /\ peerSend' \in [Threads -> Nat]
      BY <2>1, <2>2, <2>4 DEF TypeOK
    <2>6. QED
      BY <1>3, <2>5 DEF PeerSends, TypeOK, input, output
  <1>4. ASSUME NEW t \in Threads, ReadHeader(t) PROVE TypeOK'
    <2>1. Arriving(t) \in Packet
      BY <1>4 DEF ReadHeader, Arrived, Arriving, TypeOK
    <2>2. trans' \in [Threads -> Nat]
      <3>1. PICK n \in IF recv[t].pos = Arriving(t).at THEN {Arriving(t).size} ELSE Sizes :
              trans' = [trans EXCEPT ![t] = n]
        BY <1>4 DEF ReadHeader
      <3>2. n \in Nat
        BY <2>1, <3>1, SizesAssumption DEF Packet
      <3>3. QED
        BY <3>1, <3>2 DEF TypeOK
    <2>3. recv' \in [Threads -> Cipher]
      <3>1. recv[t] \in Cipher /\ HeaderSize \in Nat
        BY DEF TypeOK, HeaderSize
      <3>2. Encrypted(Saved(recv[t]), HeaderSize) \in Cipher
        BY <3>1, CipherOperators
      <3>3. QED
        BY <1>4, <3>2 DEF ReadHeader, TypeOK
    <2>4. QED
      BY <1>4, <2>2, <2>3 DEF ReadHeader, Goto, Places, TypeOK, peers, output
  <1>5. ASSUME NEW t \in Threads, ReadBody(t) PROVE TypeOK'
    <2>1. packet' \in [Threads -> Name]
      <3>1. PICK p : p \in {next[t] + 1, Garbage} /\ packet' = [packet EXCEPT ![t] = p]
        BY <1>5 DEF ReadBody
      <3>2. p \in Name
        BY <3>1 DEF TypeOK, Name, Garbage
      <3>3. QED
        BY <3>1, <3>2 DEF TypeOK
    <2>2. recv' \in [Threads -> Cipher]
      <3>1. recv[t] \in Cipher /\ trans[t] \in Nat
        BY DEF TypeOK
      <3>2. Encrypted(Saved(Restored(recv[t])), trans[t]) \in Cipher
        BY <3>1, CipherOperators
      <3>3. QED
        BY <1>5, <3>2 DEF ReadBody, TypeOK
    <2>3. next' \in [Threads -> Nat]
      BY <1>5 DEF ReadBody, TypeOK
    <2>4. pc' \in [Threads -> Places]
      BY <1>0, <1>5 DEF ReadBody, Places
    <2>5. UNCHANGED <<peers, trans, out, mutex, output>>
      BY <1>5 DEF ReadBody
    <2>6. QED
      BY <2>1, <2>2, <2>3, <2>4, <2>5 DEF TypeOK, peers, output
  <1>6. ASSUME NEW t \in Threads, EnterParse(t) PROVE TypeOK'
    BY <1>6 DEF EnterParse, Goto, Places, TypeOK, peers, input, output
  <1>7. ASSUME NEW t \in Threads, NEW cs \in SUBSET Int, Answer(t, cs)
        PROVE  out' \in [Threads -> Answered]
    BY <1>7, SizesAssumption DEF Answer, TypeOK, Answered
  <1>8. ASSUME NEW t \in Threads, Handle(t) PROVE TypeOK'
    <2>1. Counts[t] \in SUBSET Int
      BY CountsAssumption
    <2>2. QED
      BY <1>7, <1>8, <2>1 DEF Handle, Goto, Places, TypeOK, peers, input, output
  <1>9. CASE CallLookup
    BY <1>9 DEF CallLookup, Goto, Places, TypeOK, peers, input, output
  <1>10. CASE LockServer
    BY <1>10, ThreadsAreTwo DEF LockServer, Goto, Places, TypeOK, peers, input, output
  <1>11. CASE Lookup
    <2>1. Counts["client"] \cup {0} \in SUBSET Int
      BY CountsAssumption, ThreadsAreTwo
    <2>2. QED
      BY <1>7, <1>11, <2>1, ThreadsAreTwo 
         DEF Lookup, Goto, Places, TypeOK, peers, input, output
  <1>12. ASSUME NEW t \in Threads, NEW by \in Threads, NEW p \in Name,
                NEW n \in Nat, NEW c \in Nat, Seal(t, p, n, c, by)
         PROVE  /\ chunk' \in [Threads -> Chunk]
                /\ send' \in [Threads -> Cipher]
                /\ UNCHANGED <<peerRecv, delivered>>
    <2>1. send[t] \in Cipher
      BY DEF TypeOK
    <2>2. Encrypted(send[t], n) \in Cipher /\ send[t].pos \in Nat
      BY <2>1, CipherOperators
    <2>3. QED
      BY <1>12, <2>2 DEF Seal, TypeOK, Chunk
  <1>13. ASSUME NEW t \in Threads, NEW by \in Threads, WriteTo(t, by)
         PROVE  /\ peerRecv' \in [Threads -> Nat]
                /\ delivered' \in [Threads -> Seq(Name)]
                /\ UNCHANGED <<send, chunk>>
    <2> DEFINE c == chunk[by]
               read == IF c.at = peerRecv[t] THEN c.packet ELSE Garbage
               d == [i \in 1 .. c.copies |-> read]
    <2>1. c.copies \in Nat /\ c.packet \in Name /\ c.size \in Nat
      BY DEF TypeOK, Chunk
    <2>2. read \in Name
      BY <2>1 DEF Name, Garbage
    <2>3. d \in Seq(Name)
      <3> HIDE DEF read
      <3>1. QED
        BY <2>1, <2>2
    <2>4. delivered[t] \in Seq(Name)
      BY DEF TypeOK
    <2>5. delivered[t] \o d \in Seq(Name)
      <3> HIDE DEF d
      <3>1. QED
        BY <2>3, <2>4
    <2>6. /\ delivered' = [delivered EXCEPT ![t] = delivered[t] \o d]
          /\ peerRecv' = [peerRecv EXCEPT ![t] = peerRecv[t] + c.size]
          /\ UNCHANGED <<send, chunk>>
      BY <1>13 DEF WriteTo
    <2>7. delivered' \in [Threads -> Seq(Name)]
      <3> HIDE DEF d
      <3>1. QED
        BY <2>5, <2>6 DEF TypeOK
    <2>8. peerRecv' \in [Threads -> Nat]
      <3>1. peerRecv \in [Threads -> Nat]
        BY DEF TypeOK
      <3> HIDE DEF c
      <3>2. peerRecv[t] + c.size \in Nat
        BY <2>1, <3>1
      <3>3. QED
        BY <2>6, <3>1, <3>2
    <2>9. QED
      BY <2>6, <2>7, <2>8
  <1>14. CASE TeleportEncrypt
    <2>1. Own \in Name /\ 1 \in Nat /\ TeleportSize \in Nat
      BY TeleportAssumption DEF Own, Name
    <2>2. pc' \in [Threads -> Places]
      BY <1>0, <1>14, ThreadsAreTwo DEF TeleportEncrypt, Places
    <2>3. Seal("server", Own, TeleportSize, 1, "client")
          /\ UNCHANGED <<peers, input, out, mutex>>
      BY <1>14 DEF TeleportEncrypt
    <2>4. /\ chunk' \in [Threads -> Chunk]
          /\ send' \in [Threads -> Cipher]
          /\ UNCHANGED <<peerRecv, delivered>>
      BY <1>12, <2>1, <2>3, ThreadsAreTwo
    <2>5. QED
      BY <2>2, <2>3, <2>4 DEF TypeOK, peers, input
  <1>15. CASE TeleportWrite
    <2>1. pc' \in [Threads -> Places]
      BY <1>0, <1>15, ThreadsAreTwo DEF TeleportWrite, Places
    <2>2. out' \in [Threads -> Answered]
      <3>1. Nothing \in Answered
        BY DEF Nothing, Answered
      <3>2. QED
        BY <1>15, <3>1 DEF TeleportWrite, TypeOK
    <2>3. QED
      BY <1>13, <1>15, <2>1, <2>2, ThreadsAreTwo
         DEF TeleportWrite, TypeOK, peers, input
  <1>16. ASSUME NEW t \in Threads, Encrypt(t) PROVE TypeOK'
    <2> DEFINE p == IF Spoiled(t) THEN Garbage ELSE packet[t]
               n == out[t].size * Batch(t)
    <2>1. Batch(t) \in Nat /\ out[t].size \in Nat
      <3>1. out[t] \in Answered
        BY DEF TypeOK
      <3>2. out[t].size \in Nat /\ out[t].copies \in Int
        BY <3>1 DEF Answered
      <3>3. out[t].copies >= 1
        BY <1>16 DEF Encrypt, Sends
      <3>4. QED
        BY <3>2, <3>3 DEF Batch
    <2>2. n \in Nat /\ p \in Name
      BY <2>1, ProductIsNat DEF TypeOK, Name, Garbage
    <2>3. Seal(t, p, n, Batch(t), t) /\ UNCHANGED <<peers, input, mutex>>
      BY <1>16 DEF Encrypt
    <2>4. out' \in [Threads -> Answered]
      <3>1. Sent(out[t], Batch(t)) \in Answered
        BY <2>1, CountingCopies DEF TypeOK
      <3>2. QED
        BY <1>16, <3>1 DEF Encrypt, TypeOK
    <2>5. pc' \in [Threads -> Places]
      BY <1>0, <1>16 DEF Encrypt, Places
    <2> HIDE DEF p, n
    <2>6. /\ chunk' \in [Threads -> Chunk]
          /\ send' \in [Threads -> Cipher]
          /\ UNCHANGED <<peerRecv, delivered>>
      BY <1>12, <2>1, <2>2, <2>3
    <2>7. QED
      BY <2>3, <2>4, <2>5, <2>6 DEF TypeOK, peers, input
  <1>17. ASSUME NEW t \in Threads, Write(t) PROVE TypeOK'
    <2>1. PICK to \in Places : Goto(t, "write", to)
      BY <1>17 DEF Write, Places
    <2>2. pc' \in [Threads -> Places]
      BY <1>0, <2>1
    <2>3. QED
      BY <1>13, <1>17, <2>2 DEF Write, TypeOK, peers, input
  <1>18. ASSUME NEW t \in Threads, Drop(t) PROVE TypeOK'
    BY <1>18 DEF Drop, Goto, Places, TypeOK, peers, input, output
  <1>19. ASSUME NEW t \in Threads, LeaveParse(t) PROVE TypeOK'
    BY <1>19 DEF LeaveParse, Goto, Places, TypeOK, peers, input, output
  <1>20. QED
    BY <1>2, <1>3, <1>4, <1>5, <1>6, <1>8, <1>9, <1>10, <1>11, <1>14, <1>15,
       <1>16, <1>17, <1>18, <1>19
       DEF Next, Loop, ClientHandlers, Quiet

(* The variables of the relay keep their types, whatever the handlers      *)
(* answer (all the actions of the two receive loops).                      *)
THEOREM TypeCorrect == Spec => []TypeOK
  BY TypeInit, TypeNext, PTL DEF Spec

-------------------------------------------------------------------------------
(* The receiving side *)

LEMMA RecvInit == Init => \A t \in Threads : RecvInv(t)
  BY DEF Init, RecvInv, PositionAfter, Arrived, Arriving, ReadPosition,
         ExpectedPosition, CipherAt, StreamStart, Own, Garbage

(* RecvInv(u) speaks of u's stream, its input and whether it is in a body. *)
LEMMA RecvFrame ==
  ASSUME NEW u \in Threads, RecvInv(u),
         stream'[u] = stream[u], peerSend'[u] = peerSend[u], next'[u] = next[u],
         recv'[u] = recv[u], trans'[u] = trans[u], packet'[u] = packet[u],
         (pc'[u] = "body") <=> (pc[u] = "body")
  PROVE  RecvInv(u)'
  BY DEF RecvInv, PositionAfter, Arrived, Arriving, ReadPosition, ExpectedPosition

LEMMA RecvNext ==
  ASSUME TypeOK, [Next]_vars, NEW u \in Threads, RecvInv(u)
  PROVE  RecvInv(u)'
  <1> DEFINE Kept == /\ stream'[u] = stream[u] /\ peerSend'[u] = peerSend[u]
                     /\ next'[u] = next[u] /\ recv'[u] = recv[u]
                     /\ trans'[u] = trans[u] /\ packet'[u] = packet[u]
  <1>1. CASE UNCHANGED vars
    BY <1>1, RecvFrame DEF vars, peers, input
  <1>2. ASSUME NEW t \in Threads, PeerSends(t) PROVE RecvInv(u)'
    <2>1. CASE t # u
      <3>1. Kept /\ pc' = pc
        BY <1>2, <2>1 DEF PeerSends, input, TypeOK
      <3>2. QED
        BY <3>1, RecvFrame
    <2>2. CASE t = u
      <3>1. PICK n \in Sizes :
              /\ stream'[u] = Append(stream[u], [size |-> n, at |-> peerSend[u]])
              /\ peerSend'[u] = peerSend[u] + n
              /\ UNCHANGED <<pc, next, recv, trans, packet>>
        BY <1>2, <2>2 DEF PeerSends, input, TypeOK
      <3> DEFINE p == [size |-> n, at |-> peerSend[u]]
                 len == Len(stream[u])
      <3>2. /\ stream[u] \in Seq(Packet) /\ len \in Nat /\ next[u] \in Nat
            /\ p \in Packet
        <4>1. n \in Nat /\ peerSend[u] \in Nat /\ stream[u] \in Seq(Packet)
          BY SizesAssumption DEF TypeOK
        <4>2. QED
          BY <4>1 DEF Packet, TypeOK
      <3>3. /\ Len(stream'[u]) = len + 1 /\ stream'[u][len + 1] = p
            /\ \A k \in 1 .. len : stream'[u][k] = stream[u][k]
        <4>1. stream'[u] = Append(stream[u], p)
          BY <3>1
        <4> HIDE DEF p
        <4>2. QED
          BY <3>2, <4>1, Appending
      <3>4. p.at = peerSend[u] /\ p.size = n
        OBVIOUS
      <3> HIDE DEF p
      <3>5. \A k \in 0 .. len : PositionAfter(u, k)' = PositionAfter(u, k)
        BY <3>1, <3>2, <3>3, <3>4 DEF PositionAfter
      <3>6. \A k \in 1 .. len + 1 :
              PositionAfter(u, k)' = stream'[u][k].at + stream'[u][k].size
        <4>1. SUFFICES ASSUME NEW k \in 1 .. len + 1
                       PROVE  PositionAfter(u, k)' = stream'[u][k].at + stream'[u][k].size
          OBVIOUS
        <4>2. CASE k \in 1 .. len
          BY <3>2, <3>3, <3>5, <4>2 DEF RecvInv
        <4>3. CASE k = len + 1
          BY <3>1, <3>2, <3>3, <3>4, <4>3 DEF PositionAfter
        <4>4. QED
          BY <3>2, <4>2, <4>3
      <3>7. ExpectedPosition(u) = PositionAfter(u, next[u])
            /\ ExpectedPosition(u)' = PositionAfter(u, next[u])'
        BY DEF ExpectedPosition, Arrived, Arriving, PositionAfter
      <3>8. ReadPosition(u)' = ReadPosition(u)
        BY <3>1 DEF ReadPosition
      <3>9. next[u] <= len
        BY DEF RecvInv
      <3>10. pc'[u] = "body" => Arrived(u)' /\ trans'[u] = Arriving(u)'.size
        BY <3>1, <3>2, <3>3 DEF RecvInv, Arrived, Arriving
      <3>11. PositionAfter(u, next[u])' = PositionAfter(u, next[u])
        BY <3>1, <3>2, <3>5, <3>9
      <3>12. ReadPosition(u)' = ExpectedPosition(u)'
        BY <3>7, <3>8, <3>11 DEF RecvInv
      <3>13. QED
        BY <3>1, <3>2, <3>3, <3>6, <3>9, <3>10, <3>12 DEF RecvInv
    <2>3. QED
      BY <2>1, <2>2
  <1>3. ASSUME NEW t \in Threads, ReadHeader(t) PROVE RecvInv(u)'
    <2>1. CASE t # u
      <3>1. Kept /\ pc'[u] = pc[u]
        BY <1>3, <2>1 DEF ReadHeader, Goto, peers, TypeOK
      <3>2. QED
        BY <3>1, RecvFrame
    <2>2. CASE t = u
      <3>1. /\ pc[u] = "header" /\ pc'[u] = "body" /\ Arrived(u)
            /\ UNCHANGED <<stream, peerSend, next, packet>>
            /\ recv'[u] = Encrypted(Saved(recv[u]), HeaderSize)
        BY <1>3, <2>2 DEF ReadHeader, Goto, peers, TypeOK
      <3>2. recv[u] \in Cipher /\ HeaderSize \in Nat
        BY DEF TypeOK, HeaderSize
      <3>3. recv'[u].mark = recv[u].pos
        BY <3>1, <3>2, CipherOperators
      <3>4. recv[u].pos = Arriving(u).at
        BY <3>1 DEF RecvInv, ReadPosition, ExpectedPosition
      <3>5. trans'[u] = Arriving(u).size
        BY <1>3, <2>2, <3>4 DEF ReadHeader, TypeOK
      <3>6. ReadPosition(u)' = ExpectedPosition(u)'
        BY <3>1, <3>3, <3>4 DEF ReadPosition, ExpectedPosition, Arrived, Arriving
      <3>7. QED
        BY <3>1, <3>5, <3>6 DEF RecvInv, PositionAfter, Arrived, Arriving
    <2>3. QED
      BY <2>1, <2>2
  <1>4. ASSUME NEW t \in Threads, ReadBody(t) PROVE RecvInv(u)'
    <2>1. CASE t # u
      <3>1. Kept /\ pc'[u] = pc[u]
        BY <1>4, <2>1 DEF ReadBody, Goto, peers, TypeOK
      <3>2. QED
        BY <3>1, RecvFrame
    <2>2. CASE t = u
      <3> DEFINE start == Restored(recv[u])
      <3>1. /\ pc[u] = "body" /\ pc'[u] = "lock"
            /\ UNCHANGED <<stream, peerSend, trans>>
            /\ next'[u] = next[u] + 1
            /\ recv'[u] = Encrypted(Saved(start), trans[u])
            /\ packet'[u] = IF start.pos = Arriving(u).at THEN next[u] + 1 ELSE Garbage
        BY <1>4, <2>2 DEF ReadBody, Goto, peers, TypeOK
      <3>2. /\ recv[u] \in Cipher /\ trans[u] \in Nat /\ next[u] \in Nat
            /\ Len(stream[u]) \in Nat
        BY DEF TypeOK
      <3>3. start \in Cipher /\ start.pos = recv[u].mark
        BY <3>2, CipherOperators
      <3>4. recv'[u].pos = start.pos + trans[u]
        <4> HIDE DEF start
        <4>1. Saved(start) \in Cipher /\ Saved(start).pos = start.pos
          BY <3>2, <3>3, CipherOperators
        <4>2. Encrypted(Saved(start), trans[u]).pos = start.pos + trans[u]
          BY <3>2, <4>1, CipherOperators
        <4>3. QED
          BY <3>1, <4>2
      <3>5. /\ Arrived(u) /\ trans[u] = Arriving(u).size /\ start.pos = Arriving(u).at
            /\ next[u] + 1 \in 1 .. Len(stream[u])
        BY <3>1, <3>2, <3>3 DEF RecvInv, ReadPosition, ExpectedPosition, Arrived
      <3>6. packet'[u] # Garbage
        BY <3>1, <3>2, <3>5 DEF Garbage
      <3>7. PositionAfter(u, next[u] + 1) = Arriving(u).at + Arriving(u).size
        BY <3>5 DEF RecvInv, Arriving
      <3>8. ExpectedPosition(u)' = PositionAfter(u, next[u] + 1)
        BY <3>1 DEF ExpectedPosition, PositionAfter, Arrived, Arriving
      <3>9. ReadPosition(u)' = ExpectedPosition(u)'
        BY <3>1, <3>4, <3>5, <3>7, <3>8 DEF ReadPosition
      <3>10. next'[u] <= Len(stream'[u])
        BY <3>1, <3>2, <3>5
      <3>11. QED
        BY <3>1, <3>6, <3>9, <3>10 DEF RecvInv, PositionAfter
    <2>3. QED
      BY <2>1, <2>2
  <1>5. ASSUME UNCHANGED <<peers, input>>, (pc'[u] = "body") <=> (pc[u] = "body")
        PROVE  RecvInv(u)'
    BY <1>5, RecvFrame DEF peers, input
  <1>6. ASSUME NEW t \in Threads, NEW from, NEW to, Goto(t, from, to),
               from # "body", to # "body"
        PROVE  (pc'[u] = "body") <=> (pc[u] = "body")
    BY <1>6 DEF Goto, TypeOK
  <1>7. ASSUME NEW t \in Threads,
               \/ EnterParse(t) \/ Handle(t) \/ Encrypt(t) \/ Write(t)
               \/ Drop(t) \/ LeaveParse(t)
        PROVE  RecvInv(u)'
    BY <1>5, <1>6, <1>7 DEF EnterParse, Handle, Encrypt, Write, Drop, LeaveParse
  <1>8. CASE ClientHandlers
    BY <1>5, <1>6, <1>8, ThreadsAreTwo
       DEF ClientHandlers, CallLookup, LockServer, Lookup, TeleportEncrypt, TeleportWrite
  <1>9. CASE Quiet
    BY <1>1, <1>9 DEF Quiet
  <1>10. QED
    BY <1>1, <1>2, <1>3, <1>4, <1>7, <1>8, <1>9 DEF Next, Loop

(* A receive loop never loses its place in the keystream: SERVER_ThreadRecv*)
(* and CLIENT_ThreadRecv decrypt every header and every packet with the    *)
(* bytes it was encrypted with.                                            *)
THEOREM ReceiveCorrect == Spec => []ReceiveInStep
  <1> DEFINE I == TypeOK /\ \A t \in Threads : RecvInv(t)
  <1>1. Init => I
    BY TypeInit, RecvInit
  <1>2. I /\ [Next]_vars => I'
    BY TypeNext, RecvNext
  <1>3. I => ReceiveInStep
    BY DEF ReceiveInStep, RecvInv
  <1>4. QED
    BY <1>1, <1>2, <1>3, PTL DEF Spec

-------------------------------------------------------------------------------
(* The mutexes *)

LEMMA LockInit == Init => LockDiscipline
  BY DEF Init, LockDiscipline, Threads, None, Parsing

LEMMA LockNext == TypeOK /\ LockDiscipline /\ [Next]_vars => LockDiscipline'
  <1>1. SUFFICES ASSUME TypeOK, LockDiscipline, [Next]_vars PROVE LockDiscipline'
    OBVIOUS
  <1> USE <1>1
  <1>2. pc \in [Threads -> Places] /\ mutex \in [Threads -> Threads \cup {None}]
    BY DEF TypeOK
  <1>3. ASSUME UNCHANGED mutex, NEW t \in Threads, NEW from, NEW to, Goto(t, from, to),
               from \in Parsing <=> to \in Parsing, from # "lookup", to # "lookup"
        PROVE  LockDiscipline'
    BY <1>2, <1>3, ThreadsAreTwo DEF LockDiscipline, Goto
  <1>4. ASSUME UNCHANGED <<pc, mutex>> PROVE LockDiscipline'
    BY <1>4 DEF LockDiscipline
  <1>5. CASE UNCHANGED vars
    BY <1>4, <1>5 DEF vars
  <1>6. ASSUME NEW t \in Threads, PeerSends(t) PROVE LockDiscipline'
    BY <1>4, <1>6 DEF PeerSends
  <1>7. ASSUME NEW t \in Threads,
               ReadHeader(t) \/ ReadBody(t) \/ Handle(t) \/ Encrypt(t) \/ Drop(t)
        PROVE  LockDiscipline'
    BY <1>3, <1>7 DEF ReadHeader, ReadBody, Handle, Encrypt, Drop, Parsing
  <1>8. ASSUME NEW t \in Threads, Write(t) PROVE LockDiscipline'
    <2>1. PICK to \in {"send", "unlock"} : Goto(t, "write", to)
      BY <1>8 DEF Write
    <2>2. QED
      BY <1>3, <1>8, <2>1 DEF Write, Parsing
  <1>9. ASSUME NEW t \in Threads, EnterParse(t) PROVE LockDiscipline'
    <2>1. /\ pc[t] = "lock" /\ pc' = [pc EXCEPT ![t] = "handler"]
          /\ mutex[t] = None /\ mutex' = [mutex EXCEPT ![t] = t]
      BY <1>9 DEF EnterParse, Goto
    <2>2. QED
      BY <1>2, <2>1, ThreadsAreTwo DEF LockDiscipline, Parsing
  <1>10. ASSUME NEW t \in Threads, LeaveParse(t) PROVE LockDiscipline'
    <2>1. /\ pc[t] = "unlock" /\ pc' = [pc EXCEPT ![t] = "header"]
          /\ mutex' = [mutex EXCEPT ![t] = None]
      BY <1>10 DEF LeaveParse, Goto
    <2>2. QED
      BY <1>2, <2>1, ThreadsAreTwo DEF LockDiscipline, Parsing
  <1>11. CASE CallLookup \/ TeleportEncrypt \/ TeleportWrite
    BY <1>3, <1>11, ThreadsAreTwo DEF CallLookup, TeleportEncrypt, TeleportWrite, Parsing
  <1>12. CASE LockServer
    <2>1. /\ pc["client"] = "lookupLock" /\ pc' = [pc EXCEPT !["client"] = "lookup"]
          /\ mutex["server"] = None /\ mutex' = [mutex EXCEPT !["server"] = "client"]
      BY <1>12 DEF LockServer, Goto
    <2>2. QED
      BY <1>2, <2>1, ThreadsAreTwo DEF LockDiscipline, Parsing
  <1>13. CASE Lookup
    <2>1. /\ pc["client"] = "lookup" /\ pc' = [pc EXCEPT !["client"] = "send"]
          /\ mutex' = [mutex EXCEPT !["server"] = None]
      BY <1>13 DEF Lookup, Goto
    <2>2. QED
      BY <1>2, <2>1, ThreadsAreTwo DEF LockDiscipline, Parsing
  <1>14. CASE Quiet
    BY <1>5, <1>14 DEF Quiet
  <1>15. QED
    BY <1>5, <1>6, <1>7, <1>8, <1>9, <1>10, <1>11, <1>12, <1>13, <1>14
       DEF Next, Loop, ClientHandlers

(* The handlers of a direction run with its mutex held and nobody keeps a  *)
(* mutex it has left the critical section of (scoped_lock in the Parse     *)
(* functions, Lock and Unlock in OnSendHitProjectile).                     *)
THEOREM LocksCorrect == Spec => []LockDiscipline
  BY TypeInit, TypeNext, LockInit, LockNext, PTL DEF Spec

-------------------------------------------------------------------------------
(* The sending side *)

(* WriteInStep(t) for a thread that is the only one to send on its socket. *)
SendInv(t) ==
  IF pc[t] = "write"
  THEN chunk[t].at = peerRecv[t] /\ send[t].pos = chunk[t].at + chunk[t].size
  ELSE send[t].pos = peerRecv[t]

(* Only the client is ever sent anything by the other thread.              *)
SoleSender(t) == t = "server" => ~TeleportOn /\ pc["client"] # "teleport"

LEMMA SendInit == Init => \A t \in Threads : SendInv(t)
  BY DEF Init, SendInv, CipherAt, StreamStart

LEMMA SoleSenderInit ==
  ASSUME Init, NEW t \in Threads, t = "server" => ~TeleportOn
  PROVE  SoleSender(t)
  BY ThreadsAreTwo DEF Init, SoleSender

LEMMA SoleSenderNext ==
  ASSUME TypeOK, [Next]_vars, NEW u \in Threads, SoleSender(u)
  PROVE  SoleSender(u)'
  <1>1. ASSUME NEW t \in Threads, NEW from, NEW to, Goto(t, from, to), to # "teleport"
        PROVE  SoleSender(u)'
    BY <1>1, ThreadsAreTwo DEF Goto, SoleSender, TypeOK
  <1>2. CASE UNCHANGED vars \/ Quiet
    BY <1>2 DEF SoleSender, vars, Quiet
  <1>3. ASSUME NEW t \in Threads, PeerSends(t) PROVE SoleSender(u)'
    BY <1>3 DEF PeerSends, SoleSender
  <1>4. ASSUME NEW t \in Threads, Loop(t) PROVE SoleSender(u)'
    <2>1. PICK from, to : Goto(t, from, to) /\ to # "teleport"
      BY <1>4 DEF Loop, ReadHeader, ReadBody, EnterParse, Handle, Encrypt, Write,
                  Drop, LeaveParse
    <2>2. QED
      BY <1>1, <2>1
  <1>5. CASE ClientHandlers
    <2>1. CASE TeleportEncrypt
      BY <2>1 DEF TeleportEncrypt, SoleSender
    <2>2. CASE CallLookup \/ LockServer \/ Lookup \/ TeleportWrite
      BY <1>1, <2>2, ThreadsAreTwo DEF CallLookup, LockServer, Lookup, TeleportWrite
    <2>3. QED
      BY <1>5, <2>1, <2>2 DEF ClientHandlers
  <1>6. QED
    BY <1>2, <1>3, <1>4, <1>5 DEF Next

LEMMA SendNext ==
  ASSUME TypeOK, [Next]_vars, NEW u \in Threads, SendInv(u), SoleSender(u)
  PROVE  SendInv(u)'
  <1>1. ASSUME UNCHANGED output, NEW t \in Threads, NEW from, NEW to,
               Goto(t, from, to), from # "write", to # "write"
        PROVE  SendInv(u)'
    <2>1. (pc'[u] = "write") <=> (pc[u] = "write")
      BY <1>1 DEF Goto, TypeOK
    <2>2. QED
      BY <1>1, <2>1 DEF SendInv, output
  <1>2. CASE UNCHANGED vars \/ Quiet
    BY <1>2 DEF SendInv, vars, output, Quiet
  <1>3. ASSUME NEW t \in Threads, PeerSends(t) PROVE SendInv(u)'
    BY <1>3 DEF PeerSends, SendInv, output
  <1>4. ASSUME NEW t \in Threads,
               \/ ReadHeader(t) \/ ReadBody(t) \/ EnterParse(t) \/ Handle(t)
               \/ Drop(t) \/ LeaveParse(t)
        PROVE  SendInv(u)'
    BY <1>1, <1>4 DEF ReadHeader, ReadBody, EnterParse, Handle, Drop, LeaveParse
  <1>5. ASSUME NEW t \in Threads, Encrypt(t) PROVE SendInv(u)'
    <2> DEFINE n == out[t].size * Batch(t)
    <2>1. /\ pc[t] = "send" /\ pc' = [pc EXCEPT ![t] = "write"]
          /\ UNCHANGED peerRecv
          /\ send' = [send EXCEPT ![t] = Encrypted(send[t], n)]
          /\ \E p : chunk' = [chunk EXCEPT ![t] =
               [packet |-> p, size |-> n, copies |-> Batch(t), at |-> send[t].pos]]
      BY <1>5 DEF Encrypt, Goto, Seal
    <2>2. n \in Nat
      <3>1. out[t] \in Answered
        BY DEF TypeOK
      <3>2. out[t].size \in Nat /\ out[t].copies \in Int
        BY <3>1 DEF Answered
      <3>3. out[t].copies >= 1
        BY <1>5 DEF Encrypt, Sends
      <3>4. Batch(t) \in Nat
        BY <3>2, <3>3 DEF Batch
      <3>5. QED
        BY <3>2, <3>4, ProductIsNat
    <2> HIDE DEF n
    <2>3. CASE t = u
      <3>1. send[u] \in Cipher
        BY DEF TypeOK
      <3>2. send'[u].pos = send[u].pos + n
        <4>1. send \in [Threads -> Cipher]
          BY DEF TypeOK
        <4>2. send'[u] = Encrypted(send[u], n)
          BY <2>1, <2>3, <4>1
        <4>3. QED
          BY <2>2, <3>1, <4>2, CipherOperators
      <3>3. chunk'[u].at = send[u].pos /\ chunk'[u].size = n
        BY <2>1, <2>3 DEF TypeOK
      <3>4. pc[u] # "write" /\ pc'[u] = "write"
        BY <2>1, <2>3 DEF TypeOK
      <3>5. QED
        BY <2>1, <3>2, <3>3, <3>4 DEF SendInv
    <2>4. CASE t # u
      <3>1. chunk'[u] = chunk[u] /\ send'[u] = send[u] /\ pc'[u] = pc[u]
        BY <2>1, <2>4 DEF TypeOK
      <3>2. QED
        BY <2>1, <3>1 DEF SendInv
    <2>5. QED
      BY <2>3, <2>4
  <1>6. ASSUME NEW t \in Threads, Write(t) PROVE SendInv(u)'
    <2>1. PICK to \in {"send", "unlock"} : Goto(t, "write", to)
      BY <1>6 DEF Write
    <2>2. /\ pc[t] = "write" /\ pc' = [pc EXCEPT ![t] = to]
          /\ UNCHANGED <<send, chunk>>
          /\ peerRecv' = [peerRecv EXCEPT ![t] = @ + chunk[t].size]
      BY <1>6, <2>1 DEF Write, Goto, WriteTo
    <2>3. CASE t = u
      BY <2>2, <2>3 DEF SendInv, TypeOK
    <2>4. CASE t # u
      BY <2>2, <2>4 DEF SendInv, TypeOK
    <2>5. QED
      BY <2>3, <2>4
  <1>7. CASE CallLookup \/ LockServer \/ Lookup
    BY <1>1, <1>7, ThreadsAreTwo DEF CallLookup, LockServer, Lookup
  <1>8. CASE TeleportEncrypt
    <2>1. u = "client"
      BY <1>8, ThreadsAreTwo DEF TeleportEncrypt, SoleSender
    <2>2. /\ pc["client"] = "handler" /\ pc'["client"] = "teleport"
          /\ send'["client"] = send["client"] /\ UNCHANGED peerRecv
      BY <1>8, ThreadsAreTwo DEF TeleportEncrypt, Goto, Seal, TypeOK
    <2>3. QED
      BY <2>1, <2>2 DEF SendInv
  <1>9. CASE TeleportWrite
    <2>1. u = "client"
      BY <1>9, ThreadsAreTwo DEF TeleportWrite, Goto, SoleSender
    <2>2. /\ pc["client"] = "teleport" /\ pc'["client"] = "send"
          /\ peerRecv'["client"] = peerRecv["client"] /\ UNCHANGED send
      BY <1>9, ThreadsAreTwo DEF TeleportWrite, Goto, WriteTo, TypeOK
    <2>3. QED
      BY <2>1, <2>2 DEF SendInv
  <1>10. QED
    BY <1>2, <1>3, <1>4, <1>5, <1>6, <1>7, <1>8, <1>9 DEF Next, Loop, ClientHandlers

LEMMA SendInvInStep ==
  ASSUME NEW t \in Threads, SendInv(t), SoleSender(t)
  PROVE  WriteInStep(t)
  <1>1. Pending(t) = IF pc[t] = "write" THEN {chunk[t]} ELSE {}
    BY DEF Pending, SoleSender
  <1>2. QED
    BY <1>1 DEF SendInv, WriteInStep

(* Whatever is written to the server is next in the server's keystream:    *)
(* only the client thread sends there, between encryption and write it     *)
(* does nothing else (SERVER_SendPacket), TELEPORT commands included.      *)
THEOREM ServerStreamCorrect == Spec => []ServerStreamInStep
  <1> DEFINE I == TypeOK /\ SendInv("client") /\ SoleSender("client")
  <1>1. Init => I
    BY TypeInit, SendInit, SoleSenderInit, ThreadsAreTwo
  <1>2. I /\ [Next]_vars => I'
    BY TypeNext, SendNext, SoleSenderNext, ThreadsAreTwo
  <1>3. I => ServerStreamInStep
    BY SendInvInStep, ThreadsAreTwo DEF ServerStreamInStep
  <1>4. QED
    BY <1>1, <1>2, <1>3, PTL DEF Spec

(* Without TELEPORT commands the same holds of what is written to the      *)
(* client (CLIENT_SendPacket); with them it does not.                      *)
THEOREM ClientStreamCorrect == ~TeleportOn /\ Spec => []ClientStreamInStep
  <1>1. SUFFICES ASSUME ~TeleportOn PROVE Spec => []ClientStreamInStep
    OBVIOUS
  <1> DEFINE I == TypeOK /\ SendInv("server") /\ SoleSender("server")
  <1>2. Init => I
    BY <1>1, TypeInit, SendInit, SoleSenderInit, ThreadsAreTwo
  <1>3. I /\ [Next]_vars => I'
    BY TypeNext, SendNext, SoleSenderNext, ThreadsAreTwo
  <1>4. I => ClientStreamInStep
    BY SendInvInStep, ThreadsAreTwo DEF ClientStreamInStep
  <1>5. QED
    BY <1>2, <1>3, <1>4, PTL DEF Spec

-------------------------------------------------------------------------------
(* The filter each direction implements *)

(* What thread t holds of the packet it has taken: the packet is the last  *)
(* one taken until the loop is back in read, and what has been encrypted   *)
(* and not written is copies of it.                                        *)
FilterInv(t) ==
  /\ pc[t] \notin {"header", "body"} => packet[t] = next[t]
  /\ pc[t] = "write" => /\ chunk[t].packet = packet[t]
                        /\ chunk[t].copies >= 1 /\ out[t].copies >= 0

(* Handlers of the server's packets that never ask for a second copy, as   *)
(* those of CCustomPacketHandler: then none is sent after another, and the *)
(* two-buffer ApplyCryptor finds the plaintext in its target.              *)
SingleCopies == \A c \in Counts["server"] : c <= 1
SingleInv ==
  /\ pc["server"] = "send" => out["server"].sent = 0 /\ out["server"].copies <= 1
  /\ pc["server"] = "write" => out["server"].copies <= 0

(* A step thread t takes, in its loop or in a handler.                     *)
StepOf(t) == Loop(t) \/ (t = "client" /\ ClientHandlers)

LEMMA NextIsAStep ==
  ASSUME [Next]_vars
  PROVE  \/ UNCHANGED vars
         \/ \E t \in Threads : PeerSends(t)
         \/ \E t \in Threads : StepOf(t)
  <1>1. ASSUME ClientHandlers PROVE \E t \in Threads : StepOf(t)
    BY <1>1, ThreadsAreTwo DEF StepOf
  <1>2. QED
    BY <1>1 DEF Next, Quiet, StepOf

(* A thread's packet, its answer and what it has encrypted are its own.    *)
LEMMA StepKeepsOthers ==
  ASSUME TypeOK, NEW t \in Threads, NEW u \in Threads, t # u, StepOf(t)
  PROVE  /\ pc'[u] = pc[u] /\ packet'[u] = packet[u] /\ next'[u] = next[u]
         /\ out'[u] = out[u] /\ chunk'[u] = chunk[u]
  <1>1. ASSUME NEW from, NEW to, Goto(t, from, to) PROVE pc'[u] = pc[u]
    BY <1>1 DEF Goto, TypeOK
  <1>2. pc'[u] = pc[u]
    BY <1>1 DEF StepOf, Loop, ClientHandlers, ReadHeader, ReadBody, EnterParse,
                Handle, Encrypt, Write, Drop, LeaveParse, CallLookup, LockServer,
                Lookup, TeleportEncrypt, TeleportWrite
  <1>3. packet'[u] = packet[u] /\ next'[u] = next[u]
    BY DEF StepOf, Loop, ClientHandlers, ReadHeader, ReadBody, EnterParse,
           Handle, Encrypt, Write, Drop, LeaveParse, CallLookup, LockServer,
           Lookup, TeleportEncrypt, TeleportWrite, input, TypeOK
  <1>4. ASSUME NEW e, out' = [out EXCEPT ![t] = e] PROVE out'[u] = out[u]
    BY <1>4 DEF TypeOK
  <1>5. ASSUME NEW cs, Answer(t, cs) PROVE out'[u] = out[u]
    BY <1>4, <1>5 DEF Answer
  <1>6. out'[u] = out[u]
    BY <1>4, <1>5 DEF StepOf, Loop, ClientHandlers, ReadHeader, ReadBody, EnterParse,
           Handle, Encrypt, Write, Drop, LeaveParse, CallLookup, LockServer,
           Lookup, TeleportEncrypt, TeleportWrite
  <1>7. ASSUME NEW s, NEW p, NEW n, NEW c, Seal(s, p, n, c, t) PROVE chunk'[u] = chunk[u]
    BY <1>7 DEF Seal, TypeOK
  <1>8. ASSUME NEW s, WriteTo(s, t) PROVE chunk'[u] = chunk[u]
    BY <1>8 DEF WriteTo
  <1>9. chunk'[u] = chunk[u]
    BY <1>7, <1>8 DEF StepOf, Loop, ClientHandlers, ReadHeader, ReadBody, EnterParse,
           Handle, Encrypt, Write, Drop, LeaveParse, CallLookup, LockServer,
           Lookup, TeleportEncrypt, TeleportWrite, output
  <1>10. QED
    BY <1>2, <1>3, <1>6, <1>9

(* Nothing is damaged by the two-buffer ApplyCryptor: always so towards    *)
(* the server, and towards the client with single copies.                  *)
LEMMA NothingSpoiled ==
  ASSUME NEW u \in Threads, u = "server" => SingleInv, pc[u] = "send"
  PROVE  ~Spoiled(u)
  BY DEF Spoiled, SingleInv

LEMMA FilterInit == Init => (\A t \in Threads : FilterInv(t)) /\ SingleInv
  BY DEF Init, FilterInv, SingleInv, Threads

LEMMA SingleNext ==
  ASSUME TypeOK, [Next]_vars, SingleCopies, SingleInv
  PROVE  SingleInv'
  <1> DEFINE u == "server"
  <1>0. u \in Threads /\ pc \in [Threads -> Places] /\ out \in [Threads -> Answered]
    BY ThreadsAreTwo DEF TypeOK
  <1>1. ASSUME pc'[u] = pc[u], out'[u] = out[u] PROVE SingleInv'
    BY <1>1 DEF SingleInv
  <1>2. CASE UNCHANGED vars
    BY <1>1, <1>2 DEF vars
  <1>3. ASSUME NEW t \in Threads, PeerSends(t) PROVE SingleInv'
    BY <1>1, <1>3 DEF PeerSends
  <1>4. ASSUME NEW t \in Threads, t # u, StepOf(t) PROVE SingleInv'
    BY <1>0, <1>1, <1>4, StepKeepsOthers
  <1>5. CASE Handle(u)
    <2>1. PICK c \in Counts[u], n \in Sizes :
            out' = [out EXCEPT ![u] = [size |-> n, copies |-> c, sent |-> 0]]
      BY <1>5 DEF Handle, Answer
    <2>2. pc'[u] = "send"
      BY <1>0, <1>5 DEF Handle, Goto
    <2>3. out'[u].copies = c /\ out'[u].sent = 0
      BY <1>0, <2>1
    <2>4. QED
      BY <2>1, <2>2, <2>3 DEF SingleInv, SingleCopies
  <1>6. CASE Encrypt(u)
    <2>1. pc[u] = "send" /\ pc'[u] = "write"
      BY <1>0, <1>6 DEF Encrypt, Goto
    <2>2. out'[u] = Sent(out[u], 1)
      BY <1>0, <1>6 DEF Encrypt, Batch
    <2>3. out'[u].copies = out[u].copies - 1
      BY <1>0, <2>2, CountingCopies
    <2>4. out[u].copies \in Int
      BY <1>0 DEF Answered
    <2>5. QED
      BY <2>1, <2>3, <2>4 DEF SingleInv
  <1>7. CASE Write(u)
    <2>1. ~(out[u].copies > 0) /\ pc[u] = "write"
      <3>1. out[u].copies \in Int
        BY <1>0 DEF Answered
      <3>2. QED
        BY <1>7, <3>1 DEF Write, Goto, SingleInv
    <2>2. pc'[u] = "unlock"
      BY <1>0, <1>7, <2>1 DEF Write, Goto
    <2>3. QED
      BY <2>2 DEF SingleInv
  <1>8. CASE ReadHeader(u) \/ ReadBody(u) \/ EnterParse(u) \/ Drop(u) \/ LeaveParse(u)
    <2>1. pc'[u] \notin {"send", "write"}
      BY <1>0, <1>8 DEF ReadHeader, ReadBody, EnterParse, Drop, LeaveParse, Goto
    <2>2. QED
      BY <2>1 DEF SingleInv
  <1>9. StepOf(u) => SingleInv'
    BY <1>5, <1>6, <1>7, <1>8 DEF StepOf, Loop
  <1>10. QED
    BY <1>2, <1>3, <1>4, <1>9, NextIsAStep

LEMMA FilterNext ==
  ASSUME TypeOK, [Next]_vars, NEW u \in Threads, RecvInv(u), FilterInv(u),
         u = "server" => SingleInv
  PROVE  FilterInv(u)'
  <1>0. /\ pc \in [Threads -> Places] /\ out \in [Threads -> Answered]
        /\ chunk \in [Threads -> Chunk] /\ packet \in [Threads -> Name]
        /\ next \in [Threads -> Nat]
    BY DEF TypeOK
  <1>1. ASSUME pc'[u] = pc[u], packet'[u] = packet[u], next'[u] = next[u],
               out'[u] = out[u], chunk'[u] = chunk[u]
        PROVE  FilterInv(u)'
    BY <1>1 DEF FilterInv
  <1>2. CASE UNCHANGED vars
    BY <1>1, <1>2 DEF vars, input, output
  <1>3. ASSUME NEW t \in Threads, PeerSends(t) PROVE FilterInv(u)'
    BY <1>1, <1>3 DEF PeerSends, input, output
  <1>4. ASSUME NEW t \in Threads, t # u, StepOf(t) PROVE FilterInv(u)'
    BY <1>1, <1>4, StepKeepsOthers
  <1>5. ASSUME pc[u] \notin {"header", "body"}, packet'[u] = packet[u],
               next'[u] = next[u], pc'[u] # "write"
        PROVE  FilterInv(u)'
    BY <1>5 DEF FilterInv
  <1>6. CASE ReadHeader(u) \/ LeaveParse(u)
    <2>1. pc'[u] \in {"header", "body"}
      BY <1>0, <1>6 DEF ReadHeader, LeaveParse, Goto
    <2>2. QED
      BY <2>1 DEF FilterInv
  <1>7. CASE ReadBody(u)
    <2>1. pc'[u] = "lock" /\ next'[u] = next[u] + 1
      BY <1>0, <1>7 DEF ReadBody, Goto
    <2>2. packet'[u] \in {next[u] + 1, Garbage}
      BY <1>0, <1>7 DEF ReadBody
    <2>3. packet'[u] # Garbage
      BY RecvNext DEF RecvInv
    <2>4. QED
      BY <2>1, <2>2, <2>3 DEF FilterInv
  <1>8. CASE EnterParse(u) \/ Handle(u) \/ Drop(u)
    BY <1>0, <1>5, <1>8 DEF EnterParse, Handle, Drop, Goto, input
  <1>9. CASE Encrypt(u)
    <2>1. /\ pc[u] = "send" /\ pc'[u] = "write"
          /\ packet'[u] = packet[u] /\ next'[u] = next[u]
      BY <1>0, <1>9 DEF Encrypt, Goto, input
    <2>2. chunk'[u].packet = packet[u] /\ chunk'[u].copies = Batch(u)
      BY <1>0, <1>9, <2>1, NothingSpoiled DEF Encrypt, Seal
    <2>3. /\ out[u].copies >= 1 /\ out[u].copies \in Int
          /\ Batch(u) \in Nat /\ Batch(u) >= 1 /\ out[u].copies - Batch(u) >= 0
      BY <1>0, <1>9 DEF Encrypt, Sends, Batch, Answered
    <2>4. out'[u] = Sent(out[u], Batch(u))
      BY <1>0, <1>9 DEF Encrypt
    <2>5. out'[u].copies >= 0
      BY <1>0, <2>3, <2>4, CountingCopies
    <2>6. QED
      BY <2>1, <2>2, <2>3, <2>5 DEF FilterInv
  <1>10. CASE Write(u)
    <2>1. pc[u] = "write" /\ pc'[u] \in {"send", "unlock"}
      BY <1>0, <1>10 DEF Write, Goto
    <2>2. packet'[u] = packet[u] /\ next'[u] = next[u]
      BY <1>10 DEF Write, input
    <2>3. QED
      BY <1>5, <2>1, <2>2
  <1>11. CASE u = "client" /\ ClientHandlers
    BY <1>0, <1>5, <1>11 DEF ClientHandlers, CallLookup, LockServer, Lookup,
       TeleportEncrypt, TeleportWrite, Goto, input
  <1>12. StepOf(u) => FilterInv(u)'
    BY <1>6, <1>7, <1>8, <1>9, <1>10, <1>11 DEF StepOf, Loop
  <1>13. QED
    BY <1>2, <1>3, <1>4, <1>12, NextIsAStep

(* The three ways in which a step changes what the filter of direction t   *)
(* is made of.                                                             *)
Answers(t) == IF t = "client" THEN Counts["client"] \cup {0} ELSE Counts["server"]
Keeps(t) ==
  Accepted(t)' = Accepted(t) /\ Owed(t)' = Owed(t) /\ delivered'[t] = delivered[t]
Accepts(t) ==
  /\ Owed(t) = 0
  /\ Accepted(t)' = Accepted(t) + 1
  /\ Owed(t)' \in {IF c < 1 THEN 0 ELSE c : c \in Answers(t)}
  /\ delivered'[t] = delivered[t]
Delivers(t) ==
  \E n \in 1 .. Owed(t) :
    /\ delivered'[t] = delivered[t] \o [i \in 1 .. n |-> Accepted(t)]
    /\ Owed(t)' = Owed(t) - n
    /\ Accepted(t)' = Accepted(t)

(* A write to another socket leaves what this one has been sent.           *)
LEMMA DeliveredByOthers ==
  ASSUME TypeOK, NEW t \in Threads, NEW u \in Threads, t # u, StepOf(t),
         u = "server" => ~TeleportWrite
  PROVE  delivered'[u] = delivered[u]
  <1>1. ASSUME WriteTo(t, t) PROVE delivered'[u] = delivered[u]
    BY <1>1 DEF WriteTo, TypeOK
  <1>2. ASSUME NEW s, NEW p, NEW n, NEW c, Seal(s, p, n, c, t)
        PROVE  delivered'[u] = delivered[u]
    BY <1>2 DEF Seal
  <1>3. t = "client" => u = "server"
    BY ThreadsAreTwo
  <1>4. QED
    BY <1>1, <1>2, <1>3 DEF StepOf, Loop, ClientHandlers, ReadHeader, ReadBody, EnterParse,
       Handle, Encrypt, Write, Drop, LeaveParse, CallLookup, LockServer,
       Lookup, TeleportEncrypt, output

(* An answer decides about one packet.                                     *)
LEMMA AnsweringAccepts ==
  ASSUME TypeOK, NEW u \in Threads, NEW c \in Answers(u), c \in Int,
         pc[u] \in Undecided, pc'[u] = "send", next'[u] = next[u],
         out'[u].copies = c, delivered'[u] = delivered[u]
  PROVE  Accepts(u)
  <1>1. Accepted(u) = next[u] - 1 /\ Accepted(u)' = next[u] /\ next[u] \in Nat
    BY DEF Accepted, Undecided, TypeOK
  <1>2. Owed(u) = 0
    BY DEF Owed, Undecided
  <1>3. Owed(u)' = IF c < 1 THEN 0 ELSE c
    BY DEF Owed
  <1>4. QED
    BY <1>1, <1>2, <1>3 DEF Accepts

(* Every step of the relay is one of the filter's, or none.                *)
LEMMA FilterStep ==
  ASSUME TypeOK, [Next]_vars, NEW u \in Threads,
         FilterInv(u), SendInv(u), SoleSender(u), u = "server" => SingleInv
  PROVE  Keeps(u) \/ Accepts(u) \/ Delivers(u)
  <1>0. /\ pc \in [Threads -> Places] /\ out \in [Threads -> Answered]
        /\ chunk \in [Threads -> Chunk] /\ next \in [Threads -> Nat]
        /\ delivered \in [Threads -> Seq(Name)] /\ Len(delivered[u]) \in Nat
    BY DEF TypeOK
  <1>1. ASSUME pc'[u] = pc[u], next'[u] = next[u], out'[u] = out[u],
               chunk'[u] = chunk[u], delivered'[u] = delivered[u]
        PROVE  Keeps(u)
    BY <1>1 DEF Keeps, Accepted, Owed
  <1>2. CASE UNCHANGED vars
    BY <1>1, <1>2 DEF vars, input, output
  <1>3. ASSUME NEW t \in Threads, PeerSends(t) PROVE Keeps(u)
    BY <1>1, <1>3 DEF PeerSends, input, output
  <1>4. ASSUME NEW t \in Threads, t # u, StepOf(t) PROVE Keeps(u)
    <2>1. u = "server" => ~TeleportWrite
      BY DEF SoleSender, TeleportWrite, Goto
    <2>2. QED
      BY <1>1, <1>4, <2>1, StepKeepsOthers, DeliveredByOthers
  <1>5. ASSUME pc[u] \notin {"send", "write"}, pc'[u] \notin {"send", "write"},
               pc[u] \in Undecided <=> pc'[u] \in Undecided,
               next'[u] = next[u], delivered'[u] = delivered[u]
        PROVE  Keeps(u)
    BY <1>5 DEF Keeps, Accepted, Owed
  <1>6. CASE ReadHeader(u) \/ EnterParse(u) \/ LeaveParse(u)
    BY <1>0, <1>5, <1>6 DEF ReadHeader, EnterParse, LeaveParse, Goto, Undecided,
       input, output
  <1>7. CASE ReadBody(u)
    <2>1. /\ pc[u] = "body" /\ pc'[u] = "lock" /\ next'[u] = next[u] + 1
          /\ delivered' = delivered
      BY <1>0, <1>7 DEF ReadBody, Goto, output
    <2>2. Accepted(u)' = Accepted(u)
      BY <1>0, <2>1 DEF Accepted, Undecided
    <2>3. QED
      BY <2>1, <2>2 DEF Keeps, Owed
  <1>8. CASE Handle(u)
    <2>1. PICK c \in Counts[u], n \in Sizes :
            out' = [out EXCEPT ![u] = [size |-> n, copies |-> c, sent |-> 0]]
      BY <1>8 DEF Handle, Answer
    <2>2. /\ pc[u] \in Undecided /\ pc'[u] = "send"
          /\ next' = next /\ delivered' = delivered
      BY <1>0, <1>8 DEF Handle, Goto, Undecided, input, output
    <2>3. c \in Answers(u) /\ c \in Int
      BY CountsAssumption, ThreadsAreTwo DEF Answers
    <2>4. out'[u].copies = c
      BY <1>0, <2>1
    <2>5. QED
      BY <2>2, <2>3, <2>4, AnsweringAccepts
  <1>9. CASE Encrypt(u)
    <2>1. pc[u] = "send" /\ pc'[u] = "write" /\ next' = next /\ delivered' = delivered
      BY <1>0, <1>9 DEF Encrypt, Goto, Seal, input
    <2>2. chunk'[u].copies = Batch(u)
      BY <1>0, <1>9 DEF Encrypt, Seal
    <2>3. out[u].copies >= 1 /\ out[u].copies \in Int /\ Batch(u) \in Nat
      BY <1>0, <1>9 DEF Encrypt, Sends, Batch, Answered
    <2>4. out'[u] = Sent(out[u], Batch(u))
      BY <1>0, <1>9 DEF Encrypt
    <2>5. out'[u].copies = out[u].copies - Batch(u)
      BY <1>0, <2>3, <2>4, CountingCopies
    <2>6. Owed(u) = out[u].copies /\ Owed(u)' = out'[u].copies + chunk'[u].copies
      BY <2>1, <2>3 DEF Owed
    <2>7. Owed(u)' = Owed(u)
      BY <2>2, <2>3, <2>5, <2>6
    <2>8. QED
      BY <2>1, <2>7 DEF Keeps, Accepted, Undecided
  <1>10. CASE Write(u)
    <2> DEFINE n == chunk[u].copies
    <2>1. /\ pc[u] = "write" /\ next' = next /\ out' = out
          /\ pc'[u] = IF out[u].copies > 0 THEN "send" ELSE "unlock"
      BY <1>0, <1>10 DEF Write, Goto, input
    <2>2. /\ chunk[u].packet = next[u] /\ chunk[u].at = peerRecv[u]
          /\ n >= 1 /\ n \in Nat /\ out[u].copies >= 0 /\ out[u].copies \in Int
      BY <1>0, <2>1 DEF FilterInv, SendInv, Chunk, Answered
    <2>3. Accepted(u) = next[u] /\ Accepted(u)' = next[u]
      BY <2>1 DEF Accepted, Undecided
    <2>4. delivered'[u] = delivered[u] \o [i \in 1 .. n |-> Accepted(u)]
      BY <1>0, <1>10, <2>2, <2>3 DEF Write, WriteTo
    <2>5. Owed(u) = out[u].copies + n /\ Owed(u)' = out[u].copies
      BY <2>1, <2>2 DEF Owed
    <2> HIDE DEF n
    <2>6. n \in 1 .. Owed(u) /\ Owed(u)' = Owed(u) - n
      BY <2>2, <2>5
    <2>7. QED
      BY <2>3, <2>4, <2>6 DEF Delivers
  <1>11. CASE Drop(u)
    <2>1. /\ pc[u] = "send" /\ pc'[u] = "unlock" /\ next' = next
          /\ delivered' = delivered /\ ~(out[u].copies >= 1)
      BY <1>0, <1>11 DEF Drop, Goto, Sends, input, output
    <2>2. Owed(u) = 0 /\ Owed(u)' = 0
      <3>1. out[u].copies \in Int
        BY <1>0 DEF Answered
      <3>2. QED
        BY <2>1, <3>1 DEF Owed
    <2>3. QED
      BY <2>1, <2>2 DEF Keeps, Accepted, Undecided
  <1>12. ASSUME u = "client", CallLookup \/ LockServer \/ TeleportEncrypt PROVE Keeps(u)
    BY <1>0, <1>5, <1>12 DEF CallLookup, LockServer, TeleportEncrypt, Seal, Goto,
       Undecided, input, output
  <1>13. ASSUME u = "client", Lookup \/ TeleportWrite PROVE Accepts(u)
    <2>1. PICK c \in Counts["client"] \cup {0} : out'[u].copies = c
      <3>1. CASE Lookup
        <4>1. PICK c \in Counts["client"] \cup {0}, n \in Sizes :
                out' = [out EXCEPT !["client"] = [size |-> n, copies |-> c, sent |-> 0]]
          BY <3>1 DEF Lookup, Answer
        <4>2. out'[u].copies = c
          BY <1>0, <1>13, <4>1
        <4>3. QED
          BY <4>2
      <3>2. CASE TeleportWrite
        <4>1. out'[u].copies = 0
          BY <1>0, <1>13, <3>2 DEF TeleportWrite, Nothing
        <4>2. QED
          BY <4>1
      <3>3. QED
        BY <1>13, <3>1, <3>2
    <2>2. /\ pc[u] \in Undecided /\ pc'[u] = "send" /\ next' = next
          /\ delivered'[u] = delivered[u]
      BY <1>0, <1>13, ThreadsAreTwo DEF Lookup, TeleportWrite, WriteTo, Goto, Undecided,
         input, output
    <2>3. c \in Answers(u) /\ c \in Int
      BY <1>13, CountsAssumption, ThreadsAreTwo DEF Answers
    <2>4. QED
      BY <2>1, <2>2, <2>3, AnsweringAccepts
  <1>14. StepOf(u) => Keeps(u) \/ Accepts(u) \/ Delivers(u)
    BY <1>6, <1>7, <1>8, <1>9, <1>10, <1>11, <1>12, <1>13
       DEF StepOf, Loop, ClientHandlers
  <1>15. QED
    BY <1>2, <1>3, <1>4, <1>14, NextIsAStep

LEMMA FilterStart ==
  ASSUME Init, NEW t \in Threads
  PROVE  Accepted(t) = 0 /\ Owed(t) = 0 /\ delivered[t] = <<>>
  BY DEF Init, Accepted, Undecided, Owed

(* What the refinement of direction t needs of a state.                    *)
DirectionInv(t) ==
  TypeOK /\ RecvInv(t) /\ FilterInv(t) /\ SendInv(t) /\ SoleSender(t)

(* The server gets the client's packets in the order they were sent, each  *)
(* as often as its handler said, and can decrypt every byte: the client's  *)
(* receive loop, its parsing and SERVER_SendPacket implement PacketFilter, *)
(* also while the user types TELEPORT commands.                            *)
THEOREM ServerFilterCorrect == Spec => ToServer
  <1> DEFINE I == DirectionInv("client")
  <1>0. "client" \in Threads
    BY ThreadsAreTwo
  <1>1. Init => I
    BY <1>0, TypeInit, RecvInit, FilterInit, SendInit, SoleSenderInit DEF DirectionInv
  <1>2. I /\ [Next]_vars => I'
    BY <1>0, TypeNext, RecvNext, FilterNext, SendNext, SoleSenderNext DEF DirectionInv
  <1>3. Init => ServerFilter!Init
    BY <1>0, FilterStart DEF ServerFilter!Init
  <1>4. I /\ [Next]_vars => [ServerFilter!Next]_(ServerFilter!vars)
    <2>1. SUFFICES ASSUME I, [Next]_vars
                   PROVE  [ServerFilter!Next]_(ServerFilter!vars)
      OBVIOUS
    <2>2. Keeps("client") \/ Accepts("client") \/ Delivers("client")
      BY <1>0, <2>1, FilterStep DEF DirectionInv
    <2>3. ASSUME Keeps("client") PROVE UNCHANGED ServerFilter!vars
      BY <2>3 DEF Keeps, ServerFilter!vars
    <2>4. ASSUME Accepts("client") PROVE ServerFilter!Accept
      BY <2>4 DEF Accepts, Answers, ServerFilter!Accept
    <2>5. ASSUME Delivers("client") PROVE ServerFilter!Deliver
      BY <2>5 DEF Delivers, ServerFilter!Deliver, ServerFilter!Repeated
    <2>6. QED
      BY <2>2, <2>3, <2>4, <2>5 DEF ServerFilter!Next
  <1>5. QED
    BY <1>1, <1>2, <1>3, <1>4, PTL DEF Spec, ToServer, ServerFilter!Spec

(* The client gets the server's packets in order, each as often as its     *)
(* handler said, and can decrypt every byte: the server's receive loop,    *)
(* its parsing and CLIENT_SendPacket implement PacketFilter as long as no  *)
(* TELEPORT command writes in between and no handler wants a second copy.  *)
THEOREM ClientFilterCorrect ==
  ASSUME ~TeleportOn, SingleCopies
  PROVE  Spec => ToClient
  <1> DEFINE I == DirectionInv("server") /\ SingleInv
  <1>0. "server" \in Threads
    BY ThreadsAreTwo
  <1>1. Init => I
    BY <1>0, TypeInit, RecvInit, FilterInit, SendInit, SoleSenderInit DEF DirectionInv
  <1>2. I /\ [Next]_vars => I'
    BY <1>0, TypeNext, RecvNext, FilterNext, SendNext, SoleSenderNext, SingleNext
       DEF DirectionInv
  <1>3. Init => ClientFilter!Init
    BY <1>0, FilterStart DEF ClientFilter!Init
  <1>4. I /\ [Next]_vars => [ClientFilter!Next]_(ClientFilter!vars)
    <2>1. SUFFICES ASSUME I, [Next]_vars
                   PROVE  [ClientFilter!Next]_(ClientFilter!vars)
      OBVIOUS
    <2>2. Keeps("server") \/ Accepts("server") \/ Delivers("server")
      BY <1>0, <2>1, FilterStep DEF DirectionInv
    <2>3. ASSUME Keeps("server") PROVE UNCHANGED ClientFilter!vars
      BY <2>3 DEF Keeps, ClientFilter!vars
    <2>4. ASSUME Accepts("server") PROVE ClientFilter!Accept
      BY <2>4 DEF Accepts, Answers, ClientFilter!Accept
    <2>5. ASSUME Delivers("server") PROVE ClientFilter!Deliver
      BY <2>5 DEF Delivers, ClientFilter!Deliver, ClientFilter!Repeated
    <2>6. QED
      BY <2>2, <2>3, <2>4, <2>5 DEF ClientFilter!Next
  <1>5. QED
    BY <1>1, <1>2, <1>3, <1>4, PTL DEF Spec, ToClient, ClientFilter!Spec
===============================================================================
