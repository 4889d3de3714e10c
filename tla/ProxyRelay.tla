------------------------------ MODULE ProxyRelay ------------------------------
(***************************************************************************)
(* The two receive loops of CProxy (Proxy.cpp) once the keys are in place: *)
(* SERVER_ThreadRecv reads packets from the server and writes to the       *)
(* client, CLIENT_ThreadRecv the other way round.  Each loop owns a        *)
(* decrypting cipher; each socket has one encrypting cipher, advanced and  *)
(* written to by whoever sends on it.  An ApplyCryptor call and a          *)
(* boost::asio call are one step each, so anything can happen between the  *)
(* encryption of a packet and its write.                                   *)
(*                                                                         *)
(* A thread t stands for its direction too: recv["server"] is Encrypt,     *)
(* send["server"] is EncryptLayer (towards the client), recv["client"] is  *)
(* Decrypt and send["client"] is DecryptLayer (towards the server).        *)
(***************************************************************************)
EXTENDS Keystream, Sequences

CONSTANTS Sizes,        \* lengths of the packets the peers send
          Counts,       \* Counts[t]: the answers of the packet handlers
          TeleportOn,   \* TRUE if the user types TELEPORT commands
          TeleportSize, \* length of a TCTeleportPacket
          MaxPackets    \* bound on the packets of each peer (model bound)

Threads == {"server", "client"}
None == "none"

(* A packet holds at least its header: two bytes of length, two of opcode. *)
ASSUME SizesAssumption == Sizes \subseteq {n \in Nat : n >= 4}
ASSUME CountsAssumption == Counts \in [Threads -> SUBSET Int]
ASSUME TeleportAssumption == TeleportOn \in BOOLEAN /\ TeleportSize \in Nat
ASSUME MaxPacketsAssumption == MaxPackets \in Nat

HeaderSize == 4

(* What a read or a write yields when the two ends of a stream disagree on *)
(* the keystream, and the proxy's own packet.  Others have positive names. *)
Garbage == -1
Own == 0

(* ApplyData keys Encrypt from the start of its stream, but draws 128      *)
(* bytes from Decrypt to do so, before it copies both to the layers.       *)
StreamStart(t) == IF t = "client" THEN 128 ELSE 0

VARIABLES
  stream,     \* stream[t]: all packets the peer of t has sent: [size, at]
  peerSend,   \* peerSend[t]: the sending peer's keystream position
  pc,         \* pc[t]: where the loop of thread t is
  next,       \* next[t]: packets thread t has taken from its socket
  recv,       \* recv[t]: the cipher t decrypts with
  trans,      \* trans[t]: the packet length thread t read from the header
  packet,     \* packet[t]: the decrypted packet being handled
  out,        \* out[t]: copies still to be sent, and already: [size, copies, sent]
  mutex,      \* mutex[t]: who holds m_ServerRecvMutex / m_ClientRecvMutex
  send,       \* send[t]: the cipher of the socket t writes to
  chunk,      \* chunk[t]: encrypted, not yet written: [packet, size, copies, at]
  peerRecv,   \* peerRecv[t]: the receiving peer's keystream position
  delivered   \* delivered[t]: the packets the receiving peer has decrypted

peers == <<stream, peerSend>>
input == <<next, recv, trans, packet>>
output == <<send, chunk, peerRecv, delivered>>
vars == <<peers, pc, input, out, mutex, output>>

Packet == [size : Sizes, at : Nat]
Name   == Int      \* Garbage, Own, or the number of a packet
Answered == [size : Nat, copies : Int, sent : Nat]
Chunk  == [packet : Name, size : Nat, copies : Nat, at : Nat]
Places == {"header", "body", "lock", "handler", "lookupLock", "lookup",
           "teleport", "send", "write", "unlock"}

TypeOK ==
  /\ stream \in [Threads -> Seq(Packet)]
  /\ peerSend \in [Threads -> Nat]
  /\ pc \in [Threads -> Places]
  /\ next \in [Threads -> Nat]
  /\ recv \in [Threads -> Cipher]
  /\ trans \in [Threads -> Nat]
  /\ packet \in [Threads -> Name]
  /\ out \in [Threads -> Answered]
  /\ mutex \in [Threads -> Threads \cup {None}]
  /\ send \in [Threads -> Cipher]
  /\ chunk \in [Threads -> Chunk]
  /\ peerRecv \in [Threads -> Nat]
  /\ delivered \in [Threads -> Seq(Name)]

Nothing == [size |-> 0, copies |-> 0, sent |-> 0]

Init ==
  /\ stream = [t \in Threads |-> <<>>]
  /\ peerSend = [t \in Threads |-> StreamStart(t)]
  /\ pc = [t \in Threads |-> "header"]
  /\ next = [t \in Threads |-> 0]
  /\ recv = [t \in Threads |-> CipherAt(StreamStart(t))]
  /\ trans = [t \in Threads |-> 0]
  /\ packet = [t \in Threads |-> Own]
  /\ out = [t \in Threads |-> Nothing]
  /\ mutex = [t \in Threads |-> None]
  /\ send = [t \in Threads |-> CipherAt(StreamStart(t))]
  /\ chunk = [t \in Threads |-> [packet |-> Own, size |-> 0, copies |-> 0, at |-> 0]]
  /\ peerRecv = [t \in Threads |-> StreamStart(t)]
  /\ delivered = [t \in Threads |-> <<>>]

Goto(t, from, to) == pc[t] = from /\ pc' = [pc EXCEPT ![t] = to]

-------------------------------------------------------------------------------
(* A peer encrypts a packet where its last one ended and sends it.         *)
PeerSends(t) ==
  \E n \in Sizes :
    /\ Len(stream[t]) < MaxPackets
    /\ stream' = [stream EXCEPT ![t] = Append(@, [size |-> n, at |-> peerSend[t]])]
    /\ peerSend' = [peerSend EXCEPT ![t] = @ + n]
    /\ UNCHANGED <<pc, input, out, mutex, output>>

(* The next packet is there to be read.                                    *)
Arrived(t) == next[t] < Len(stream[t])
Arriving(t) == stream[t][next[t] + 1]

(* Read four bytes and decrypt them, only to learn the packet's length.    *)
ReadHeader(t) ==
  /\ Goto(t, "header", "body")
  /\ Arrived(t)
  /\ trans' \in {[trans EXCEPT ![t] = n] :
       n \in IF recv[t].pos = Arriving(t).at THEN {Arriving(t).size} ELSE Sizes}
  /\ recv' = [recv EXCEPT ![t] = Encrypted(Saved(@), HeaderSize)]
  /\ UNCHANGED <<peers, next, packet, out, mutex, output>>

(* Go back to where the header started, read the rest, decrypt the packet. *)
ReadBody(t) ==
  /\ Goto(t, "body", "lock")
  /\ LET start == Restored(recv[t]) IN
       /\ packet' = [packet EXCEPT ![t] =
            IF start.pos = Arriving(t).at THEN next[t] + 1 ELSE Garbage]
       /\ recv' = [recv EXCEPT ![t] = Encrypted(Saved(start), trans[t])]
  /\ next' = [next EXCEPT ![t] = @ + 1]
  /\ UNCHANGED <<peers, trans, out, mutex, output>>

(* ParseServerPacket and ParseClientPacket hold their mutex to the end.    *)
EnterParse(t) ==
  /\ Goto(t, "lock", "handler")
  /\ mutex[t] = None
  /\ mutex' = [mutex EXCEPT ![t] = t]
  /\ UNCHANGED <<peers, input, out, output>>

-------------------------------------------------------------------------------
(* The handler's answer: how many copies to send, and of what size, since  *)
(* it may replace the packet.                                              *)
Answer(t, counts) ==
  \E c \in counts, n \in Sizes :
    out' = [out EXCEPT ![t] = [size |-> n, copies |-> c, sent |-> 0]]

Handle(t) ==
  /\ Goto(t, "handler", "send")
  /\ Answer(t, Counts[t])
  /\ UNCHANGED <<peers, input, mutex, output>>

(* OnSendHitProjectile: look the projectile up under the server mutex.     *)
CallLookup ==
  /\ Goto("client", "handler", "lookupLock")
  /\ UNCHANGED <<peers, input, out, mutex, output>>

LockServer ==
  /\ Goto("client", "lookupLock", "lookup")
  /\ mutex["server"] = None
  /\ mutex' = [mutex EXCEPT !["server"] = "client"]
  /\ UNCHANGED <<peers, input, out, output>>

(* Mutant: a failed lookup returns without unlocking.                      *)
LookupKeepsMutex ==
  /\ Goto("client", "lookup", "send")
  /\ out' = [out EXCEPT !["client"] = Nothing]
  /\ UNCHANGED <<peers, input, mutex, output>>

(* Mutant: a failed lookup is tried again until the projectile is known.   *)
LookupRetries ==
  /\ Goto("client", "lookup", "lookupLock")
  /\ mutex' = [mutex EXCEPT !["server"] = None]
  /\ UNCHANGED <<peers, input, out, output>>

(* Every way out unlocks: nothing is sent for an unknown projectile, one   *)
(* of somebody else or one without targets, else m_iHitCount copies.       *)
Lookup ==
  /\ Goto("client", "lookup", "send")
  /\ Answer("client", Counts["client"] \cup {0})
  /\ mutex' = [mutex EXCEPT !["server"] = None]
  /\ UNCHANGED <<peers, input, output>>

Seal(t, p, n, c, by) ==
  /\ chunk' = [chunk EXCEPT ![by] =
       [packet |-> p, size |-> n, copies |-> c, at |-> send[t].pos]]
  /\ send' = [send EXCEPT ![t] = Encrypted(@, n)]
  /\ UNCHANGED <<peerRecv, delivered>>

(* The receiving peer decrypts with its own position in the keystream.     *)
WriteTo(t, by) ==
  LET c == chunk[by] IN
  /\ delivered' = [delivered EXCEPT ![t] = @ \o
       [i \in 1 .. c.copies |-> IF c.at = peerRecv[t] THEN c.packet ELSE Garbage]]
  /\ peerRecv' = [peerRecv EXCEPT ![t] = @ + c.size]
  /\ UNCHANGED <<send, chunk>>

(* OnSendChat on a TELEPORT command: the client thread itself encrypts for *)
(* the client and writes to m_Client, holding only the client mutex.       *)
TeleportEncrypt ==
  /\ TeleportOn
  /\ Goto("client", "handler", "teleport")
  /\ Seal("server", Own, TeleportSize, 1, "client")
  /\ UNCHANGED <<peers, input, out, mutex>>

TeleportWrite ==
  /\ Goto("client", "teleport", "send")
  /\ WriteTo("server", "client")
  /\ out' = [out EXCEPT !["client"] = Nothing]
  /\ UNCHANGED <<peers, input, mutex>>

-------------------------------------------------------------------------------
(* SERVER_SendPacket makes one buffer of all copies and encrypts it at     *)
(* once; CLIENT_SendPacket encrypts and writes copy after copy.            *)
Batch(t) == IF t = "client" THEN out[t].copies ELSE 1

(* Mutant: the copies sent are not counted down.                           *)
SentUncounted(o, n) == [o EXCEPT !.sent = @ + n]

Sent(o, n) == [size |-> o.size, copies |-> o.copies - n, sent |-> o.sent + n]

(* The two-buffer ApplyCryptor takes the last bytes of a buffer that ends  *)
(* inside a keystream word from its target: the plaintext for the first    *)
(* copy, the previous copy's ciphertext for the others.                    *)
EndsInsideWord(p) == p % 4 # 0
Spoiled(t) ==
  t = "server" /\ out[t].sent > 0 /\ EndsInsideWord(send[t].pos + out[t].size)

(* Mutant: zero copies are taken for one.                                  *)
SendsAtZero(t) == out[t].copies >= 0

Sends(t) == out[t].copies >= 1

Encrypt(t) ==
  /\ Goto(t, "send", "write")
  /\ Sends(t)
  /\ Seal(t, IF Spoiled(t) THEN Garbage ELSE packet[t],
          out[t].size * Batch(t), Batch(t), t)
  /\ out' = [out EXCEPT ![t] = Sent(@, Batch(t))]
  /\ UNCHANGED <<peers, input, mutex>>

Write(t) ==
  /\ Goto(t, "write", IF out[t].copies > 0 THEN "send" ELSE "unlock")
  /\ WriteTo(t, t)
  /\ UNCHANGED <<peers, input, out, mutex>>

(* Mutant: the packet is encrypted before its count is looked at.          *)
DropEncrypted(t) ==
  /\ Goto(t, "send", "unlock")
  /\ ~Sends(t)
  /\ Seal(t, packet[t], out[t].size, 0, t)
  /\ UNCHANGED <<peers, input, out, mutex>>

(* A count below one sends nothing.                                        *)
Drop(t) ==
  /\ Goto(t, "send", "unlock")
  /\ ~Sends(t)
  /\ UNCHANGED <<peers, input, out, mutex, output>>

LeaveParse(t) ==
  /\ Goto(t, "unlock", "header")
  /\ mutex' = [mutex EXCEPT ![t] = None]
  /\ UNCHANGED <<peers, input, out, output>>

-------------------------------------------------------------------------------
Loop(t) ==
  \/ ReadHeader(t) \/ ReadBody(t) \/ EnterParse(t) \/ Handle(t)
  \/ Encrypt(t) \/ Write(t) \/ Drop(t) \/ LeaveParse(t)

ClientHandlers ==
  CallLookup \/ LockServer \/ Lookup \/ TeleportEncrypt \/ TeleportWrite

(* Both loops wait in read and the peers have nothing to say.              *)
Quiet ==
  /\ \A t \in Threads : pc[t] = "header" /\ ~Arrived(t) /\ Len(stream[t]) = MaxPackets
  /\ UNCHANGED vars

Next ==
  \/ \E t \in Threads : PeerSends(t) \/ Loop(t)
  \/ ClientHandlers
  \/ Quiet

(* The scheduler runs a thread that can run; peers need not send.          *)
Fairness ==
  /\ WF_vars(Loop("server"))
  /\ WF_vars(Loop("client") \/ ClientHandlers)

Spec == Init /\ [][Next]_vars
FairSpec == Spec /\ Fairness

-------------------------------------------------------------------------------
(* Where thread t stands in its stream: between the header and the body    *)
(* it has drawn four bytes too many, which the saved position undoes.      *)
ReadPosition(t) == IF pc[t] = "body" THEN recv[t].mark ELSE recv[t].pos

(* The position at which the peer encrypted the first packet not yet taken.*)
ExpectedPosition(t) == IF Arrived(t) THEN Arriving(t).at ELSE peerSend[t]

(* A receive loop never loses its place: whatever is read ahead, and       *)
(* however long a packet, the next packet is decrypted with the bytes it   *)
(* was encrypted with, so its length is right too (SERVER_ThreadRecv,      *)
(* CLIENT_ThreadRecv: DoEncrypt, DoRestoreEncrypt, DoEncrypt).             *)
ReceiveInStep ==
  \A t \in Threads : ReadPosition(t) = ExpectedPosition(t) /\ packet[t] # Garbage

(* What has been encrypted for a socket but not written: nothing, or the   *)
(* chunk a thread is about to write.                                       *)
Pending(t) ==
  (IF pc[t] = "write" THEN {chunk[t]} ELSE {})
    \cup (IF t = "server" /\ pc["client"] = "teleport" THEN {chunk["client"]} ELSE {})

(* Bytes are written in the order they were encrypted in: a chunk about to *)
(* be written is the next the peer's cipher is ready for, and there is     *)
(* never a second one.                                                     *)
WriteInStep(t) ==
  IF Pending(t) = {} THEN send[t].pos = peerRecv[t]
  ELSE \E c \in Pending(t) :
         /\ Pending(t) = {c}
         /\ c.at = peerRecv[t]
         /\ send[t].pos = c.at + c.size
ClientStreamInStep == WriteInStep("server")
ServerStreamInStep == WriteInStep("client")

(* The handlers of a direction run one at a time with its mutex held, and  *)
(* the client thread looks projectiles up only while the server thread is  *)
(* not inside ParseServerPacket (m_ServerRecvMutex, Lock, Unlock).         *)
Parsing == {"handler", "lookupLock", "lookup", "teleport", "send", "write", "unlock"}
LockDiscipline ==
  /\ \A t \in Threads : pc[t] \in Parsing <=> mutex[t] = t
  /\ pc["client"] = "lookup" <=> mutex["server"] = "client"
  /\ mutex["client"] # "server"

(* The packets thread t has decided about, and the copies it still owes.   *)
Undecided == {"lock", "handler", "lookupLock", "lookup", "teleport"}
Accepted(t) == IF pc[t] \in Undecided THEN next[t] - 1 ELSE next[t]
Owed(t) ==
  CASE pc[t] = "send"  -> IF out[t].copies < 1 THEN 0 ELSE out[t].copies
    [] pc[t] = "write" -> out[t].copies + chunk[t].copies
    [] OTHER           -> 0

ClientFilter == INSTANCE PacketFilter WITH
  Counts <- Counts["server"], Injects <- TeleportOn,
  accepted <- Accepted("server"), copies <- Owed("server"),
  delivered <- delivered["server"]

ServerFilter == INSTANCE PacketFilter WITH
  Counts <- Counts["client"] \cup {0}, Injects <- FALSE,
  accepted <- Accepted("client"), copies <- Owed("client"),
  delivered <- delivered["client"]

(* The client gets the server's packets, in order, as often as the packet  *)
(* handler said, and can decrypt every one (ParseServerPacket and the      *)
(* CLIENT_SendPacket functions); ToServer is the other direction, where a  *)
(* handler may also answer zero for a projectile it does not like.         *)
ToClient == ClientFilter!Spec
ToServer == ServerFilter!Spec

(* A packet that was sent does not stay in the proxy: the loop decides     *)
(* about it, leaves ParseServerPacket or ParseClientPacket, and is back in *)
(* read.                                                                   *)
EveryPacketHandled ==
  \A t \in Threads : \A k \in 1 .. MaxPackets :
    Len(stream[t]) >= k ~> next[t] >= k /\ pc[t] = "header"
===============================================================================
