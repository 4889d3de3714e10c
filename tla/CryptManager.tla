----------------------------- MODULE CryptManager -----------------------------
(***************************************************************************)
(* The key exchange: the first loop of SERVER_ThreadRecv and of            *)
(* CLIENT_ThreadRecv (Proxy.cpp) with the CryptManager they share          *)
(* (Crypt.h).  Each loop takes two 128-byte keys from its peer, stores     *)
(* them, and passes each on to the other peer; whoever finds the other     *)
(* side complete runs ApplyData.  Nothing is locked, so every access to    *)
(* the shared counts, keys and ciphers is a step of its own.               *)
(*                                                                         *)
(* The peers are external: each sends two keys and then its first packet.  *)
(***************************************************************************)
EXTENDS Integers, Sequences

Threads == {"server", "client"}
Other(t) == IF t = "server" THEN "client" ELSE "server"

(* The i-th message of a peer is its i-th key; the third its first packet. *)
Key(t, i) == <<t, i>>
NoKey == <<>>

(* The keys of the two directions, as the parts they are mixed from: the   *)
(* client's direction is keyed by both keys of the client and the first of *)
(* the server, the server's by the second key of the server run through    *)
(* the client's keystream.                                                 *)
DecryptKey(k) == <<k["server"][1], k["client"][1], k["client"][2]>>
EncryptKey(k) == <<k["server"][2], DecryptKey(k)>>

VARIABLES
  serverAnswers, \* TRUE if the server's second key is an answer to the
                 \* client's second key (never changes)
  pc,        \* pc[t]: where thread t is
  sent,      \* sent[t]: messages the peer of t has sent
  read,      \* read[t]: messages thread t has read
  received,  \* received[t]: keys the peer thread t writes to has been sent
  count,     \* count[t]: m_ServerKeyCount, m_ClientKeyCount
  keys,      \* keys[t][i]: SV_KEY_i, CL_KEY_i
  cipher,    \* the four CCrypt objects: [key, drawn]
  applied    \* completed runs of ApplyData (history)
shared == <<count, keys, cipher, applied>>
network == <<serverAnswers, sent, read, received>>
vars == <<pc, network, shared>>

Ciphers == {"Encrypt", "EncryptLayer", "Decrypt", "DecryptLayer"}
Unkeyed == [key |-> NoKey, drawn |-> 0]

TypeOK ==
  /\ serverAnswers \in BOOLEAN
  /\ pc \in [Threads -> {"loop", "count", "store", "check", "genDecrypt", "genEncrypt",
                         "layers", "forward", "relay", "packet"}]
  /\ sent \in [Threads -> 0 .. 3] /\ read \in [Threads -> 0 .. 3]
  /\ received \in [Threads -> Seq({Key(t, i) : t \in Threads, i \in 1 .. 2})]
  /\ count \in [Threads -> 0 .. 2]
  /\ applied \in 0 .. 2
  /\ \A c \in Ciphers : cipher[c].drawn \in 0 .. 256

Init ==
  /\ serverAnswers \in BOOLEAN
  /\ pc = [t \in Threads |-> "loop"]
  /\ sent = [t \in Threads |-> 0] /\ read = [t \in Threads |-> 0]
  /\ received = [t \in Threads |-> <<>>]
  /\ count = [t \in Threads |-> 0]
  /\ keys = [t \in Threads |-> <<NoKey, NoKey>>]
  /\ cipher = [c \in Ciphers |-> Unkeyed]
  /\ applied = 0

Goto(t, from, to) == pc[t] = from /\ pc' = [pc EXCEPT ![t] = to]

-------------------------------------------------------------------------------
(* The keys the peer of thread t has received from the other peer.         *)
Heard(t) == Len(received[Other(t)])

(* A packet can only be encrypted once all four keys are known to its      *)
(* sender; keys can be sent at any time, but for serverAnswers.            *)
MaySend(t) ==
  CASE sent[t] = 0 -> TRUE
    [] sent[t] = 1 -> serverAnswers /\ t = "server" => Heard(t) = 2
    [] sent[t] = 2 -> Heard(t) = 2
    [] OTHER       -> FALSE

PeerSends(t) ==
  /\ MaySend(t)
  /\ sent' = [sent EXCEPT ![t] = @ + 1]
  /\ UNCHANGED <<serverAnswers, pc, read, received, shared>>

-------------------------------------------------------------------------------
(* HasServerKey, HasClientKey                                              *)
HasKey(t) == count[t] > 1

ReadMessage(t) ==
  /\ read[t] < sent[t]
  /\ read' = [read EXCEPT ![t] = @ + 1]
  /\ UNCHANGED <<serverAnswers, sent, received, shared>>

ReadKey(t) == ~HasKey(t) /\ Goto(t, "loop", "count") /\ ReadMessage(t)

LeaveKeyLoop(t) ==
  /\ HasKey(t)
  /\ Goto(t, "loop", "relay")
  /\ UNCHANGED <<network, shared>>

(* SVSetKeyData, CLSetKeyData                                              *)
CountKey(t) ==
  /\ Goto(t, "count", "store")
  /\ count' = [count EXCEPT ![t] = @ + 1]
  /\ UNCHANGED <<network, keys, cipher, applied>>

StoreKey(t) ==
  /\ Goto(t, "store", IF count[t] = 2 THEN "check" ELSE "forward")
  /\ keys' = [keys EXCEPT ![t][count[t]] = Key(t, read[t])]
  /\ UNCHANGED <<network, count, cipher, applied>>

(* Mutants: the other side's count is not looked at; only the server       *)
(* thread looks; the thread waits for the other side to be complete.       *)
CheckOtherOmitted(t) ==
  Goto(t, "check", "genDecrypt") /\ UNCHANGED <<network, shared>>
CheckOtherByServer(t) ==
  /\ Goto(t, "check", IF t = "server" /\ count["client"] = 2 THEN "genDecrypt" ELSE "forward")
  /\ UNCHANGED <<network, shared>>
CheckOtherWaits(t) ==
  /\ Goto(t, "check", IF count[Other(t)] = 2 THEN "genDecrypt" ELSE "check")
  /\ UNCHANGED <<network, shared>>

CheckOther(t) ==
  /\ Goto(t, "check", IF count[Other(t)] = 2 THEN "genDecrypt" ELSE "forward")
  /\ UNCHANGED <<network, shared>>

(* GenerateKey fills the registers but does not wind them back: a cipher   *)
(* that has been used goes on from where it is.                            *)
Generated(c, k) == [key |-> k, drawn |-> c.drawn]
Drawn(c, n) == [c EXCEPT !.drawn = @ + n]

(* ApplyData: key Decrypt, draw 128 bytes of it to make the other key, key *)
(* Encrypt, copy both to the layers.                                       *)
GenerateDecrypt(t) ==
  /\ Goto(t, "genDecrypt", "genEncrypt")
  /\ cipher' = [cipher EXCEPT
       !["Decrypt"] = Drawn(Generated(@, DecryptKey(keys)), 128)]
  /\ UNCHANGED <<network, count, keys, applied>>

GenerateEncrypt(t) ==
  /\ Goto(t, "genEncrypt", "layers")
  /\ cipher' = [cipher EXCEPT !["Encrypt"] = Generated(@, EncryptKey(keys))]
  /\ UNCHANGED <<network, count, keys, applied>>

CopyLayers(t) ==
  /\ Goto(t, "layers", "forward")
  /\ cipher' = [cipher EXCEPT !["EncryptLayer"] = cipher["Encrypt"],
                              !["DecryptLayer"] = cipher["Decrypt"]]
  /\ applied' = applied + 1
  /\ UNCHANGED <<network, count, keys>>

(* Mutant: the first key is sent twice.                                    *)
ForwardFirstKey(t) ==
  /\ Goto(t, "forward", "loop")
  /\ received' = [received EXCEPT ![t] = Append(@, Key(t, 1))]
  /\ UNCHANGED <<serverAnswers, sent, read, shared>>

(* The key goes on to the other peer only after it has been stored.        *)
ForwardKey(t) ==
  /\ Goto(t, "forward", "loop")
  /\ received' = [received EXCEPT ![t] = Append(@, Key(t, read[t]))]
  /\ UNCHANGED <<serverAnswers, sent, read, shared>>

(* The second loop: the first packet is there and will be decrypted.       *)
ReadPacket(t) == Goto(t, "relay", "packet") /\ ReadMessage(t)

-------------------------------------------------------------------------------
Step(t) ==
  \/ ReadKey(t) \/ LeaveKeyLoop(t) \/ CountKey(t) \/ StoreKey(t) \/ CheckOther(t)
  \/ GenerateDecrypt(t) \/ GenerateEncrypt(t) \/ CopyLayers(t) \/ ForwardKey(t)
  \/ ReadPacket(t)

(* Both peers' packets are being relayed: ProxyRelay goes on from here.    *)
Relaying ==
  /\ \A t \in Threads : pc[t] = "packet"
  /\ UNCHANGED vars

Next ==
  \/ \E t \in Threads : PeerSends(t) \/ Step(t)
  \/ Relaying

(* Peers that want a connection answer, and the scheduler runs a thread    *)
(* that can run.                                                           *)
Fairness == \A t \in Threads : WF_vars(PeerSends(t)) /\ WF_vars(Step(t))

Spec == Init /\ [][Next]_vars /\ Fairness

-------------------------------------------------------------------------------
(* Keys as the peers know them.                                            *)
PeerKeys == [t \in Threads |-> <<Key(t, 1), Key(t, 2)>>]

Keyed(c) ==
  CASE c \in {"Decrypt", "DecryptLayer"} ->
         cipher[c] = [key |-> DecryptKey(PeerKeys), drawn |-> 128]
    [] c \in {"Encrypt", "EncryptLayer"} ->
         cipher[c] = [key |-> EncryptKey(PeerKeys), drawn |-> 0]

(* If the server answers: when the first packet of either peer has         *)
(* arrived, all four ciphers hold the keys the peers use and stand where   *)
(* the peers start: ApplyData is over, saw all four keys and did not run a *)
(* second time on a cipher that is in use.  ProxyRelay starts from here.   *)
KeyedBeforeUse ==
  serverAnswers /\ (\E t \in Threads : pc[t] = "packet") => \A c \in Ciphers : Keyed(c)

(* Both peers get both keys of the other, in order (SERVER_SendPacket and  *)
(* CLIENT_SendPacket in the key loops).                                    *)
KeysForwarded ==
  \A t \in Threads : received[t] = SubSeq(PeerKeys[t], 1, Len(received[t]))

(* Whoever is second to complete its side sees the first: both threads     *)
(* cannot leave the key loop without ApplyData having been run, whatever   *)
(* the order the keys arrive in (SVSetKeyData, CLSetKeyData).              *)
SomebodyApplies ==
  (\A t \in Threads : HasKey(t) /\ pc[t] \in {"forward", "loop", "relay"})
    => applied > 0

(* The key exchange ends: both loops reach the first packet.               *)
ExchangeCompletes == <>(\A t \in Threads : pc[t] = "packet")
===============================================================================
