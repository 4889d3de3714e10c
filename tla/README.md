# TLA+ models of the TERA packet proxy

Specifications, model-checking configurations and machine-checked proofs for the
program in `src/TERA/TERAProxy`. The proxy accepts one game client at a time,
connects to the game server for it, takes part in the key exchange of the two,
and from then on decrypts, inspects, edits, multiplies or drops every packet of
both directions and encrypts it again for the other side.

## Inventory

| component | source | state | operations |
|---|---|---|---|
| stream cipher `CCrypt` | `Crypt.h` 273-632 | three registers, left-over bytes of the last keystream word, a saved copy of both | `ApplyCryptor` (in place; from one buffer to another), `SaveData`, `RestoreData`, `GenerateKey` |
| key exchange `CryptManager` | `Crypt.h` 634-816, key loops in `Proxy.cpp` | four keys, two counters, four ciphers | `SVSetKeyData`, `CLSetKeyData`, `ApplyData`, `DoEncrypt`, `DoDecrypt`, `ServerEncrypt`, `ClientEncrypt`, restores |
| receive loops of `CProxy` | `Proxy.cpp` 689-817 | a buffer and a thread per direction, a mutex per direction | read header, read body, parse, send |
| packet dispatch | `Proxy.cpp` 310-581, `PacketHandler.h` | none of its own | a handler and an update of the world per opcode |
| life of `CProxy` | `Proxy.cpp` 6-184, 653-687, 981-1054 | `m_bShutdown`, sockets, threads, promise | accept, connect, handshake, `Shutdown`, destructor |
| `CProxyManager`, `main` | `ProxyManager.cpp`, `main.cpp` | list of proxies, `m_bAcceptProxy`, the `io_service` | `StartAccept`, `AcceptImpl`, `AddProxy`, `RemoveProxy`, `StopAccept`, `Clear` |
| `CCustomPacketHandler`, `CCommandManager` | `CustomPacketHandler.h`, `Commands.cpp` | switches and numbers the user sets by chat | chat commands, `OnSendHitProjectile`, `Teleport` |
| world `CClientManager` | `ClientData.cpp`, `Controller.h` | players, NPCs, projectiles, the main character | add, remove, move, stats, lookup |
| packet containers | `Container.h`, `Packets.h`, `PacketStructs/` | a byte buffer with offsets | `Insert`, `Remove`, `GetOffset`, `GetSizeAt` |
| `CEmulator` | `Emulator.cpp` | two sockets, an acceptor | listen, connect, two asynchronous read loops, close |
| `CServerList` | `Serverlist.cpp` | count of active sockets, delete-later flag | accept, a thread per socket, `Stop` |
| `CSha` and key generation | `Crypt.h` 20-245, 364-411, 597-618 | message block, length, digest; the buffer a key is stretched in | `Input`, `PadMessage`, `Result`; `FillKey`, `GenerateKey`, `ShiftKey`, `XorKey` |
| opcode tables | `Opcodes.h`, `OpcodeStrings.h` | two static indices | `GetHeaderByKey`, for the log |
| utilities | `Utils.h`, `SocketUtils.h` | none | debug output |

How they interact. `main` runs one `io_service` thread. `AcceptImpl` creates a
`CProxy`, which listens; when a client arrives the service thread itself connects
to the server, waits for its handshake and starts two receive threads. Each
receive thread reads from one peer and writes to the other, both through the one
`CryptManager`; they share nothing else but the world, for which each has its own
mutex. The packet handler runs on the receive threads; its
`OnSendHitProjectile` takes the second mutex for a lookup, and its `TELEPORT`
command sends to the client from the client thread. A receive thread whose
connection ends posts `Shutdown` to the service thread, and that deletes the proxy;
a thread whose write fails calls `Shutdown` itself, and the proxy is deleted under
it. `CEmulator` and `CServerList` stand in for the game's launcher and server list;
they are compiled with the rest and `main` does not start them.

What is hard here: a stream cipher turns every lost, repeated or reordered byte
into garbage for the rest of the connection; two threads use the ciphers, the
sockets and the world; the key exchange is unlocked; the `io_service` stops for
ever when it has nothing to do at the wrong moment; objects are deleted by
whoever notices first. `PROJECT.json` lists these hazards line by line with the
properties that cover them.

What makes each component correct:

* cipher: cutting the stream into calls makes no difference, and a restore goes
  back to exactly the saved position;
* key exchange: the keys are applied once, with all four parts, before the first
  packet, and both peers get both keys;
* receive loops: no loop loses its place, bytes leave in the order they were
  encrypted in, each packet comes out as often as its handler says, in order,
  and no packet stays in the proxy;
* manager: one listener at a time, always again a listener, live proxies in the
  list and dead ones out of it;
* life of a proxy: it is deleted once, after both sockets are closed, whenever a
  peer goes, and no thread runs on it for ever;
* packet handler: the packet it builds never moves under its own references and
  its targets form one list; a batch is the packet as often as was asked;
* world: it mirrors what the client has been told, and pointers that dangle are
  never mistaken for a living object;
* emulator: one session at a time, nothing crosses from one to the next, and it
  listens again;
* server list: deleted when the last user is gone and not before.

## Modules

| module | stands for | notes |
|---|---|---|
| `Keystream` | a `CCrypt` as the others see it | a position in an endless keystream and a saved position; operators only |
| `StreamCipher` | what `CCrypt` promises | abstract machine over `Keystream` |
| `CCrypt` | class `CCrypt` | detailed machine: words drawn, left-over bytes, saved state; refines `StreamCipher` |
| `PacketFilter` | what one direction of the proxy promises | abstract FIFO filter: accept a packet, decide how many copies, deliver them |
| `ProxyRelay` | `SERVER_ThreadRecv`, `CLIENT_ThreadRecv`, `Parse*Packet`, `*_SendPacket`, locks, `Teleport` | two threads and four ciphers; refines `PacketFilter` twice, once per direction |
| `MCProxyRelay` | | handler answers for the small instances |
| `ProxyRelayProofs` | | proofs about `ProxyRelay` |
| `ProxyLifetime` | `ConnectToServer`, `WaitForHandshake`, `*_StartRecv`, `*_CheckRecvError`, `Shutdown`, `~CProxy` | service thread and receive threads on one object; packets only counted |
| `ProxyLifetimeProofs` | | proofs about `ProxyLifetime` |
| `CryptManager` | the key loops, `SVSetKeyData`, `CLSetKeyData`, `ApplyData` | every access to unlocked shared state is a step |
| `Sha` | `CSha` | message blocks and padding; the compression of a block is a symbol |
| `KeyGenerator` | `ShiftKey`, `XorKey`, `ApplyData`'s mixing for both ciphers, `FillKey`, `GenerateKey` | which byte ends up where; functions and one call of `GenerateKey`, digest by digest |
| `MCCryptManager` | | runs the exchange, and a hash and a key generation at its end |
| `CryptProofs` | | proofs about `CCrypt`, `CryptManager`, `KeyGenerator` and `Sha` |
| `ProxyManager` | `CProxyManager`, `main`, the life of a proxy as the manager sees it | the `io_service` and the async threads |
| `ProxyManagerProofs` | | proofs about `ProxyManager` |
| `Algorithm` | `std::find_if`, `std::remove_if` | what the lists are kept with; external. Written without recursion, so that it can be proved about |
| `ClientManager` | `CClientManager`, the dispatch of `Parse*Packet` to it, the lookup of `OnSendHitProjectile` | lists, pointers, and the accesses of two threads to `m_Player` |
| `MCWorld` | | the permutations of ids and addresses, for symmetry |
| `ClientManagerProofs` | | proofs about `ClientManager` |
| `PacketContainer` | `CPacketData` | length, capacity and the ends of what was inserted; operators only |
| `HitPacket` | `SProjectilePacket`, `STargetPacket` | the packet a hit is multiplied with, target by target |
| `ServerBatch` | `SERVER_SendPacket` with a count | the doubling copy, byte by byte, in fixed-width arithmetic |
| `CustomPacketHandler` | `OnSendChat`, `OnSendHitProjectile`, the end of `ParseClientPacket` | composes `HitPacket` and `ServerBatch` with the numbers and switches typed in chat |
| `OpcodeTable` | `GetHeaderByKey` | the search with its static indices; the table's keys are a constant |
| `HandlersProofs` | | proofs about `HitPacket`, `ServerBatch` and `OpcodeTable` |
| `MCHandlers` | | the handler, with lookups for the log in between |
| `Emulator` | `CEmulator` | every handler, with the asynchronous operations it starts and cancels |
| `EmulatorProofs` | | proofs about `Emulator` |
| `ServerList` | `CServerList` | accepting, a thread per socket, `Stop`; every access to an atomic a step |
| `ServerListProofs` | | proofs about `ServerList` |

`CCrypt` proves that a cipher is a position; `CryptManager` shows that all four
ciphers are keyed and stand where the peers stand when the first packet arrives
(`KeyedBeforeUse`); that is the initial state of `ProxyRelay`, whose
`StreamStart` is the position `ApplyData` leaves each of them at. `KeyGenerator`
takes the keys `CryptManager` names by their parts down to bytes. `ProxyManager` sees
a proxy's life in a few states; `ProxyLifetime` is that life in detail, and
`ProxyRelay` what its threads do to packets. `ClientManager` decides whether a hit
is multiplied and at whom; `CustomPacketHandler` builds and sends it.

### State and code

`CCrypt`: the three registers only ever step together, driven by their own
contents, so the generator's state is the number of words drawn since
`GenerateKey` (`words`, and `lastWords` for `m_LastKEY`). `m_ChangeLen` and
`m_ChangeData` are as in the code, the word being named by its number. `used`
is a history of which keystream bytes the last call used.

`ProxyRelay`: `pc[t]` is the place of thread `t` in its loop; `recv`, `send` are
the ciphers `Encrypt`/`Decrypt` and `EncryptLayer`/`DecryptLayer`; `trans` and
`packet` are the buffer; `out` is `pSendData`, `iSendSize`, `iSendCount`; `chunk`
is a buffer that has been encrypted and not yet written. A call of
`ApplyCryptor` and a `boost::asio` call are one step each. `stream`, `peerSend`,
`peerRecv` and `delivered` are the two peers, with their own positions in the
keystreams: a packet decrypted at another position than it was encrypted at is
`Garbage`. The world is left out here; a handler is its answer: how many copies,
of what size.

`CryptManager`: `count`, `keys`, `cipher` are the members of the class; `read`
is the loop's buffer (the message it holds), `received` what has been sent on to
the other peer. Keys are symbolic: a mixed key is the tuple of its parts.

`ProxyManager`: `handlers` is the queue of the service; `connecting` says that
the service thread is inside `ConnectToServer`, which blocks it; `life`,
`promise`, `waiter` are the proxy, its `m_Callback` and its async thread; `list`
is `m_vProxyList`.

`ClientManager`: `m_vNpcList`, `m_vPlayerList`, `m_vProjectileList` and `m_Player`
are the members, players and the main character being named by the address of
their object and `allocated` being the addresses in use, since a projectile keeps
a pointer to its owner. `around`, `users`, `fired`, `slain` are what the server
has said. A handler of the server thread is one step, its mutex being held
throughout, except that `OnMainControllerSpawn` deletes and makes anew in two,
because the client thread uses `m_Player` under another mutex (`CheckMe`, then
`UseMe`). The answer of the packet handler decides whether a packet is parsed
(`Applies`); `S_CREATURE_CHANGE_HP` has its own condition, as in the code.
A handler that replaces a packet is not distinguished from one that does not.
`S_SPAWN_ME` may come at any time and as often as it likes. Where the code follows
`m_Player` without a look at it (`AddUserProjectile`, `Teleport`), the null pointer
ends the process (`crashed`). Two histories name what the properties need:
`client.raced`, that a spawn came between the client thread's read of `m_Player` and
its use, or the read between the halves of a spawn; and `ownerIs`, what became
of the object that owns a shot: it lives, it has been deleted, or it has been deleted and
the main character has been made anew since.

`ProxyLifetime`: `pc[c]` is where each of the three callers is; `open`,
`m_bShutdown` and `m_LastError` are the members, and since nothing locks them each
test and each assignment is a step. `deletions` counts `delete this`. What a thread
reads from the freed object is its last value or anything (`MayRead`, chosen by
`keepsFreed`), and a write to a peer that has gone reports it or not
(`sendsFail`).

`Sha`, `KeyGenerator`: bytes are symbols that remember where they come from, so
that a byte lost, doubled or overwritten shows. A processed block is the block
itself, in the sequence of blocks processed so far. A byte of a mixed key is the set of
the bytes XORed to make it, equal ones cancelling. `generating` is the cipher whose
`GenerateKey` is called, and `inputs` the list of the 680-byte buffers that have been
hashed: the digest is a function of the buffer, the same for the same buffer and of its own
bytes for a new one (`NumberOf`), so a byte of the key counts exactly if it is in one of
the inputs.

`HitPacket`, `PacketContainer`: a container is its length, its capacity and its
`m_vSizes`; `dangling` says that an insertion has moved the bytes under a reference.
`ServerBatch`: byte `k` of the packet is called `k`, `saved` is the heap buffer,
`Word` the range of a 32-bit number.

`Emulator`: `outstanding` and `queue` are what the `io_service` holds: operations
started, and completions whose handlers are to be run, in order. Every completion
carries the session its operation belonged to, which the code does not know.

`ServerList`: `pc[s]` is what is happening to a socket: its accept, its queued
handler, its thread; the members are as in the code. `setAtStart` is a history: the
value the uninitialised `m_bDeleteLater` started with.

## Runs

| run | configuration | question |
|---|---|---|
| `ccrypt` | `CCrypt.cfg` | is the word-wise cipher a stream cipher? |
| `relay` | `MCRelay.cfg` | are both directions in step and filtered as the handlers say? |
| `relay_teleport` | `MCRelayTeleport.cfg` | what still holds with TELEPORT commands; does anything get stuck? |
| `relay_teleport_race` | `MCRelayTeleportRace.cfg` | is the client's stream safe from TELEPORT? (no) |
| `keys` | `MCKeys.cfg` | are the keys applied once, before use, does the exchange end; does every byte of them get into the hash and all of that into the registers, and is it padded as the standard says? |
| `manager` | `MCManager.cfg` | one listener, complete list, listening again |
| `manager_waits` | `MCWaitsForClients.cfg` | is there always a listener again? (no) |
| `world` | `MCWorld.cfg` | does the world mirror what the server told, and when is a pointer mistaken, however often the main character is spawned? |
| `lifetime` | `MCLifetime.cfg` | does one caller only shut a proxy down, and is it always deleted when a peer goes; do its threads end? |
| `emulator` | `MCEmulator.cfg` | does a late completion harm the session after its own? |
| `serverlist` | `MCServerList.cfg` | does the counting of threads keep the object as long as it is needed, and no longer? |
| `handlers` | `MCHandlers.cfg` | is a multiplied hit well formed and sent as often as asked; does the log find its opcodes? |

The two runs that answer "no" are expected violations; each is a disagreement
between the code and what a comment of the repository says, quoted under
`findings` in `PROJECT.json`:

1. `Teleport` (`Commands.cpp:25`) encrypts and writes to the client on the client
   thread while the server thread does the same. The server thread encrypts, the
   client thread encrypts and writes, the server thread writes: the client gets
   bytes in another order than they were encrypted in.
2. `main` (`main.cpp:19`) never resets the service. If the last handler has run
   before the async thread posts the next `AcceptImpl`, nobody listens any more.

### What else the code does

These behaviours are in the models; the properties are stated around them and
make the exception visible.

* The two-buffer `ApplyCryptor` (`Crypt.h:590`) takes its last bytes from its
  target, so the second copy of a packet to the client that ends inside a keystream
  word is damaged. No handler of the repository asks for two copies to the client.
* `RemoveProxy` (`ProxyManager.cpp:34`) drops the result of `std::remove_if`: deleted
  proxies stay in the list. `LiveProxiesListed` is about the living.
* `StopAccept` (`ProxyManager.cpp:57`) does not reach an `AcceptImpl` already posted,
  nor a proxy that already listens.
* `S_CREATURE_CHANGE_HP` (`Proxy.cpp:504`) is not parsed when its handler answers
  zero, the default of `CCustomPacketHandler`: dead NPCs stay alive in the world.
  `WorldMirrors` says only that the dead were slain.
* When writes report failures, two threads can both pass the test of
  `m_bShutdown` (`Proxy.cpp:35`), and the proxy is deleted twice. `ShutDownOnce`
  and `OneStray` are about failures that show up in reads only. Even then both receive
  threads may post `Shutdown` (`Proxy.cpp:662`, `680`): the second call runs on the deleted
  object, and if its memory has been used again it may find the flag clear and delete once
  more. `ShutDownOnce` says that this is the only way: while the object exists one caller
  gets past the test, and if freed memory keeps its contents (`keepsFreed`) there is
  one deletion.
* A main character who is spawned again is deleted and made anew under the server
  mutex (`ClientData.cpp:236`), while the client thread uses him under the client mutex: if
  the spawn falls between its read of `m_Player` and its use, it writes into the deleted
  object. `MeUsedAlive` excepts exactly this (`raced`) and says nothing else leads there.
* Shots keep pointers to deleted owners. After the main character has been spawned again, his
  own earlier shots are no longer taken for his, and a shot of a player who has left can
  be, if he was allocated where that player was (`CustomPacketHandler.h:210`).
  `OwnHitsOnly` excepts the shots whose owner was deleted before the last spawn.
* A projectile of somebody unknown, or a TELEPORT command, before the first
  `S_SPAWN_ME` follows a null pointer (`ClientData.cpp:145`, `Commands.cpp:20`): the
  process ends, which is why the run `world` does not check for deadlock.
* An uninitialised `m_bDeleteLater` that happens to be set (`Serverlist.cpp:53`) makes the
  first accept of the server list the last: nobody is ever served, although nobody has
  called `Stop`. `KeepsAccepting` states what happens in either case.
* Stop and the last socket thread can both delete the server list
  (`Serverlist.cpp:107`). A thread whose `setsockopt` fails never counts down
  (`Serverlist.cpp:72`), and the list is never deleted (`StopDeletes` excepts it).
* An emulator that cannot reach the server list neither reads nor listens again
  (`Emulator.cpp:76`). The last error of one session, handled late, ends the session
  after it, which is why `NoCrossing` and `ListensAgain` need a run of several.
* A `HITCOUNT` whose product with the packet's size does not fit half of 32 bits
  wraps the doubling copy (`Proxy.cpp:222`): the copy runs past its buffer.
* `HITCOUNTER` is taken for `HITCOUNT`, whose first letters it shares
  (`CustomPacketHandler.h:63`); a command without its number ends the program, since
  nobody catches what `lexical_cast` throws.
* `GetHeaderByKey` does not find the very opcode its indices point at after a search
  downwards; the log then says `UNKNOWN_OPCODE` (`OnlyPivotLost`).

### Bounds

* `CCrypt`: calls of 3 to 9 bytes (every residue modulo the word length, with
  and without a whole word between two partial ones) and six words. Shorter
  calls are excluded by the code itself: `i < s - 3` wraps for `s < 3`, and no
  caller passes fewer than the four header bytes.
* `ProxyRelay`: two packets per peer, so that the place after one packet matters
  for the next; sizes 4 and 7, one that ends on a word boundary and one that does
  not; up to two copies.
* `CryptManager`: nothing to bound; two keys and a first packet per peer. A
  mixed key and a stretched one have their real sizes, 128 and 680 bytes.
* `Sha`: `LengthRange = 32` makes the low word of the length carry after 4 bytes and
  the high word after 128, within a message of 140 bytes; pieces of 1 and 50 bytes
  reach every length modulo 64 up to three blocks. In the code it is 2^32; the
  theorem is about every multiple of eight.
* `ProxyManager`: three proxies, one after the other, so that one can fail while
  another relays and a third listens. Each address is used once.
* `ProxyLifetime`: `MaxPackets = 2` from each peer, so that a thread can be
  between two packets, or reading or sending, while another is in any step of
  `Shutdown`. Both kinds of writes and of freed memory are initial states.
* `ClientManager`: two NPCs, so that the dead and the living mix in either order;
  two players, two shots and three addresses, so that the address of a player who
  left is used again while his shot is under way; three hits for two targets, so
  that the round robin comes round. Spawns are not bounded. Ids and addresses are only
  compared, never ordered, which makes the symmetry of `MCWorld` sound; the run checks
  invariants only.
* `Emulator`: four sessions and four reads, so that what is left over from one
  session can meet the next and the one after it, with data in both directions.
* `ServerList`: three sockets, so that one can be served, one accepted and one
  accepting when `Stop` comes.
* `CustomPacketHandler`: a head of three bytes, targets of two, three of them,
  sent -1 to 8, 15 and 17 times: none, one, powers of two, one less and one
  more, and with `Word = 128` counts that overflow the product. Two switches, one
  of them that of the packet `S_CREATURE_CHANGE_HP`.
* `OpcodeTable`: six opcodes with gaps, looked up from every place the indices can
  be left at, and headers between and above them.

### Fairness

* `ProxyRelay` (`FairSpec`): weak fairness of each receive thread. A thread that
  can run is scheduled; a thread that waits for a mutex or for bytes is not
  enabled. Peers need never send.
* `CryptManager`: weak fairness of each thread and of each peer; a peer that
  wants a connection sends its keys. Only `ExchangeCompletes` uses it.
* `ProxyManager`: weak fairness of the service thread, which includes the answer
  of a server that has been connected to (the read in `WaitForHandshake` has no
  timeout), and of each async thread. Clients come as they like.
* `ProxyLifetime`: weak fairness of the service thread and of each receive thread.
  That a socket's read ends when the socket is closed or the peer has gone is the
  enabling of `ReceiveFails`; peers close when they like, or never.
* `Emulator`: weak fairness of the service thread. Launchers and the server list may
  never do anything.
* `ServerList`: weak fairness of the thread that has called `Stop`, of the service's
  handlers and of each socket thread, whose read ends after the five seconds of
  `SO_RCVTIMEO` at the latest. Nobody need call `Stop`.

### Assumptions about what is outside

* `serverAnswers` (a choice of the initial state): the server sends its second
  key after it has the client's second key. With it, `KeyedBeforeUse` holds;
  without it both threads can find both counters at two and run `ApplyData` twice,
  and `GenerateKey` does not wind the registers back. The other properties of the
  key exchange hold either way.
* A peer can encrypt a packet only when it knows all keys.
* `boost::async` returns a future whose destructor does not wait, so that
  `AcceptImpl` does not block on the thread it starts.
* The peers send well-formed packets, at least a header long.
* `boost::asio`: a completion handler runs once, on the thread that runs the
  service, and cancelling or closing a socket completes what is outstanding on it
  with an error.
* `CServerList::Stop` is called on the service thread, so that it does not cut into
  `HandleAccept`. `m_bDeleteLater` is not initialised and may start as either value.
* A freed object can be read; what it reads as is a choice, or, where the code
  would go on to call into a destroyed object, the model stops describing it.

## Proofs

All theorems are checked by TLAPS with no omitted step. They hold for every value
of the constants that satisfies the named assumptions of the modules.

`CryptProofs`, the cipher: the inductive invariant is
`CCryptTypeOK /\ LeftOverIsLastWord`. Without the second part the step of the
refinement fails: that left-over bytes are at positions `4 * words - m_ChangeLen`
onwards is true only of the word drawn last.
`CCryptRefines` is the step simulation under the mapping to positions, from
arithmetic lemmas on division by four.

The key exchange: `PlaceInv` says, from where a thread is in its loop, how many keys
it has read, counted, stored and passed on, so that `KeysForwarded` follows; each
step of one thread leaves that of the other alone (`StepKeepsOther`). `ApplyInv` is
the argument for `SomebodyApplies`: both counts are unlocked, but whoever counts its
second key last looks at the other's count after that. `KeyedBeforeUse` needs that
the server answers (`AnswerInv`): the client thread has then looked at the server's
count before that gets to two, so it never runs `ApplyData`, the server thread does,
and what it has keyed is a matter of where it is (`KeyedAt`). Without the answer,
both may run it; that is the run's other half and no theorem claims it.

Key generation: `KeyInv` says that after `r` digests the buffer is `Stage(c, r)`: the
first `20 * r` bytes are those of the digests so far, the rest is the mixed key of cipher
`c` as `FillKey` left it, and the inputs are the stages before. No two stages are
equal (`StagesDiffer`), since byte `20 * r` is hashed in one and not in the other, so each
digest is a new one. What the first stage holds is `OneOfEach`, that every byte of the mixed key is
made of one byte of each part, and `EveryByteMixed`, that a shift leaves no byte out; no two of
the bytes XORed are equal, so none cancel (`DecryptBytes`, `EncryptBytes`).

The hash: `Fed(s, n)` gives the whole object from the number of bytes it has been
given: blocks done, bytes in the block, length in two words. A byte keeps it
(`ByteFed`) until both words wrap, and the loop of `Input`, a recursive function,
keeps it by a least counterexample. `PadMessage` then leaves one block more or two
(`PadsOneBlock`, `PadsTwoBlocks`), whose bytes are those of `Padded`
(`PaddedByteIs`), for any `LengthRange` that is a multiple of eight.

`ProxyRelayProofs`: type correctness is inductive only together with the place of
each loop in its stream, since a loop that loses its place can read any length.
`ReceiveCorrect` carries, besides `ReceiveInStep`, that packets lie one after the
other in the peer's stream, so that the position after one is the position of the
next. `LocksCorrect` is inductive as it stands. `ServerStreamCorrect` and
`ClientStreamCorrect` say that what has been encrypted and not written is
at most one chunk, the next the peer expects; the first uses only that the client
thread alone sends to the server, the second needs `~TeleportOn`, and
`relay_teleport_race` shows why.

`ServerFilterCorrect` and `ClientFilterCorrect` are the refinements of `PacketFilter`,
step by step: reading a header or a body, waiting and encrypting stutter, a handler's
answer decides, a write delivers. `FilterInv` ties a thread's buffers to the abstract
queue: the packet in the buffer is the last one taken until the loop reads again, and
an encrypted chunk is copies of it; the peer decrypts it because the streams are in
step. Towards the client two hypotheses are needed: no TELEPORT, and no handler that
asks for a second copy (`SingleInv`), as none of `CCustomPacketHandler` does, because
the two-buffer `ApplyCryptor` may spoil it.

`ProxyLifetimeProofs`: type correctness is inductive by itself, and so is
`ClosingInv`, by which whoever is about to delete the object has closed both
sockets: only the service opens one, before there are threads. `ShutDownOnce` and
`OneStray` need to know who may call `Shutdown`. `StrayInv`: without failing writes,
once the service is inside `Shutdown` one of the two threads has left, since only a
thread that leaves posts it. `ShutdownInv` (writes do not fail, and the object exists or
freed memory keeps its contents): until `m_bShutdown` is set both sockets are open and `m_LastError` is
clear, so that a receive thread that does call `Shutdown` finds the flag set and goes
no further, and the service alone is past the test. Nothing is proved of the
Shutdown that a freed flag lets through; `ShutDownOnce` does not exclude it.

`ServerListProofs`: `ListInv` is type correctness, `CountsThreads` with cardinalities
of finite sets, `AliveWhileServed`, what sets the flag (`FlagInv`: the memory the object was
made in, or `Stop`), that nothing is deleted before `m_bDeleteLater` is set (`LaterInv`),
that one accept is under way until then (`AcceptInv`), and that a flag set from the start
leaves no socket to serve (`StartInv`). `AliveWhileServed` covers the threads up to their
countdown; the two tests after it may read a freed object.

`HandlersProofs`: `HitInv` gives the place of every target from its number
in closed form, so that the capacity reserved once is never exceeded and every
offset is the next one's place. `BatchInv` says that what is filled so far repeats
with the period of the packet and ends with a whole copy; doubling keeps both, and
the last copy takes what is missing from the start. `NoWrap` is where the product
has to stay below half a word. `OnlyPivotCorrect` is about the two loops of
`GetHeaderByKey`, which are recursive functions on the indices. That they are defined,
that they stay in the table and that they end at the right gap is proved from a least
counterexample (`LeastNatural`, from the library's well-founded order of the naturals):
halving an index makes it smaller, so a least index the claim fails for has a smaller
one. The only assumption is that the table is sorted and starts with key zero.

`ProxyManagerProofs`: `OneAcceptor` is the uniqueness of a token that is, in turn, a
posted `AcceptImpl` or an async thread that is to post one (`TokenInv`);
`PromiseInv` ties it to the proxy that listens, which has an unset promise and the
thread that waits for it. `LiveProxiesListed` needs `ManagerInv`: a proxy that lives is
in the list or its addition is still queued; what is to be removed is deleted and stays
so (`PhaseInv`), since a proxy is connected once and each of its handlers is posted in one
phase of its life; and `std::remove_if` keeps every element that does not pass its test
(`MovedForwardFacts`), even though the vector does not get shorter.

`ClientManagerProofs`: under `Gentle` (no answer below zero, so every packet that
could be parsed is) each list is related to what the server said, for any number of spawns;
`PlayerInv` keeps every player's object at an address of its own, and not where `m_Player`
points, not even between the halves of a spawn, which is what makes a comparison of
pointers safe for owners that live. `ShotInv` says of each listed shot whose owner lives
that it points to the object of who fired it (`Living`), and of one whose owner is gone that
it does not point to the main character, unless it was his and he is being spawned
(`Gone`); of a shot whose owner has been replaced nothing is known, and `OwnHitsOnly` claims
nothing. Find and erase are lemmas about sequences (`FindById`, `EraseById`, `AppendNew`).
`LivingHitCorrect` needs
none of this: what `remove_if` moves forward contains every living NPC in range, and
the round robin over the targets (`RoundRobin`) reaches each index of a list that is not
longer than the number of hits.

`EmulatorProofs`: the token of `OneToken` is given a place, an outstanding accept or read
or one queued completion, instead of being counted (`TokenThere`, `TokenGone`). For
`NoCrossing`, `Served` says that all data in the queue was read in the session that is
served now, and `ClientInv` why it stays so: while the emulator listens for the next
launcher nothing is read from this one, and data that is in the queue stands before
the completion of the accept. Without that order a crossing would be possible.

The proofs about `TypeOK` of `ProxyLifetime`, `ServerList`, `ProxyManager` and
`ClientManager` and about `ClosedWhenDeleted` stand without a run.

Only model-checked: everything about liveness, since weak fairness and `ENABLED` are
outside what the prover can do. Every safety invariant that a passing run checks is
stated by a theorem.

## Plan

Done: cipher, relay, key exchange with hash and key generation, manager, life of a
proxy, world, packet handler with its packets, emulator, server list. What is
left, in this order:

1. `KeyGenerator` continued: the majority-clocked registers of `ApplyCryptor`, to
   justify that a cipher is the number of words it has drawn.
2. `ClientManager`: `OnPlayerStatsUpdate` and the positions, when a property needs them.

## Not modelled

* The numbers in the opcode tables: generated, and nothing but their order
  matters. `Opcodes.h` and `OpcodeStrings.h` are three fifths of the repository's
  lines, and most of the rest that no definition stands for is packet layouts,
  declarations, includes and comments.
* `RandomKey`, `TeleportTo`, `Clear` of the manager, `Remove`, `Get`, `GetAny` and
  `Find` of the container, `SERVER_Send` and `SOCKET_Send` of the emulator: nothing
  calls them.
* The asynchronous `*_CallbackRead` functions of `CProxy` (`Proxy.cpp` 583-651 and
  843-936), which nothing starts.
* Positions, names, hit points other than zero; the XML file of the server list;
  `Utils.h`, `SocketUtils.h` and debug output.
