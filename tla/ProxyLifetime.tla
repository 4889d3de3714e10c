---------------------------- MODULE ProxyLifetime ----------------------------
(***************************************************************************)
(* The life of one CProxy object (Proxy.cpp) from the accepted client to   *)
(* "delete this".  Three threads run its code: the service thread, which   *)
(* connects, starts the receive threads and runs the Shutdowns they post,  *)
(* and the two receive threads, which also call Shutdown themselves when a *)
(* send fails.  Nothing serialises those calls: m_bShutdown is tested and  *)
(* then set, and m_LastError is one member that all three write.           *)
(*                                                                         *)
(* Packets are only counted (ProxyRelay says what is in them).  The thread *)
(* that reads from socket s is called s; it sends on the other socket.     *)
(***************************************************************************)
EXTENDS Integers

CONSTANT MaxPackets    \* packets each peer sends at most (model bound)
ASSUME MaxPacketsAssumption == MaxPackets \in Nat

Sockets == {"client", "server"}
Callers == Sockets \cup {"service"}
Other(s) == IF s = "client" THEN "server" ELSE "client"

VARIABLES
  sendsFail,   \* writes to a peer that has gone report it (else only reads do)
  keepsFreed,  \* freed memory reads as it was last written (else as anything)
  peer,        \* peer[s]: the other end of socket s is there
  open,        \* open[s]: the socket is open
  m_bShutdown,
  m_LastError,
  pc,          \* pc[c]: where caller c is
  toRead,      \* toRead[s]: packets that thread s may still receive
  posted,      \* Shutdowns posted to the service and not run yet
  deletions    \* how often the object has been deleted
vars == <<sendsFail, keepsFreed, peer, open, m_bShutdown, m_LastError, pc,
          toRead, posted, deletions>>

(* Inside Shutdown, in this order.                                         *)
Closing == {"closeClient", "closeServer", "delete"}
InShutdown == {"test", "set"} \cup Closing

TypeOK ==
  /\ sendsFail \in BOOLEAN /\ keepsFreed \in BOOLEAN
  /\ peer \in [Sockets -> BOOLEAN]
  /\ open \in [Sockets -> BOOLEAN]
  /\ m_bShutdown \in BOOLEAN /\ m_LastError \in BOOLEAN
  /\ pc \in [Callers -> {"none", "connect", "handshake", "startClient", "startServer",
                         "idle", "read", "readError", "send", "check", "done"} \cup InShutdown]
  /\ toRead \in [Sockets -> 0..MaxPackets]
  /\ posted \in Nat
  /\ deletions \in Nat

(* The client has been accepted (or accepting has failed): the service     *)
(* runs ConnectToServer.                                                   *)
Init ==
  /\ sendsFail \in BOOLEAN /\ keepsFreed \in BOOLEAN
  /\ peer = [s \in Sockets |-> TRUE]
  /\ open = [s \in Sockets |-> s = "client"]
  /\ m_bShutdown = FALSE /\ m_LastError = FALSE
  /\ pc = [c \in Callers |-> IF c = "service" THEN "connect" ELSE "none"]
  /\ toRead = [s \in Sockets |-> MaxPackets]
  /\ posted = 0
  /\ deletions = 0

Goto(c, from, to) == pc[c] = from /\ pc' = [pc EXCEPT ![c] = to]

(* What a read of a member yields: once the object is freed, its last      *)
(* value, or whatever the memory is used for now.                          *)
MayRead(value) == IF deletions = 0 \/ keepsFreed THEN {value} ELSE BOOLEAN

-------------------------------------------------------------------------------
(* ConnectToServer and WaitForHandshake: every step writes m_LastError and *)
(* shuts down when it is set.                                              *)
Connect ==
  /\ \/ Goto("service", "connect", "handshake") /\ m_LastError' = FALSE
        /\ open' = [open EXCEPT !["server"] = TRUE]
     \/ Goto("service", "connect", "test") /\ m_LastError' = TRUE
        /\ open' \in {open, [open EXCEPT !["server"] = TRUE]}
  /\ UNCHANGED <<sendsFail, keepsFreed, peer, m_bShutdown, toRead, posted, deletions>>

Handshake ==
  /\ \/ Goto("service", "handshake", "startClient") /\ m_LastError' = FALSE
     \/ Goto("service", "handshake", "test") /\ m_LastError' = TRUE
  /\ UNCHANGED <<sendsFail, keepsFreed, peer, open, m_bShutdown, toRead, posted, deletions>>

(* CLIENT_StartRecv, then SERVER_StartRecv: if the client thread has been  *)
(* quick to shut down, the second one finds its socket closed.             *)
StartRecv(s, from, to) ==
  /\ pc["service"] = from
  /\ \E isOpen \in MayRead(open[s]) :
       pc' = [pc EXCEPT !["service"] = to, ![s] = IF isOpen THEN "read" ELSE "none"]
  /\ UNCHANGED <<sendsFail, keepsFreed, peer, open, m_bShutdown, m_LastError, toRead,
                 posted, deletions>>

StartClientRecv == StartRecv("client", "startClient", "startServer")
StartServerRecv == StartRecv("server", "startServer", "idle")

-------------------------------------------------------------------------------
PeerCloses(s) ==
  /\ peer[s]
  /\ peer' = [peer EXCEPT ![s] = FALSE]
  /\ UNCHANGED <<sendsFail, keepsFreed, open, m_bShutdown, m_LastError, pc, toRead,
                 posted, deletions>>

(* A receive thread gets a whole packet, and its handler lets it through   *)
(* or not.                                                                 *)
Receive(s) ==
  /\ open[s] /\ toRead[s] > 0
  /\ Goto(s, "read", "send") \/ Goto(s, "read", "read")
  /\ toRead' = [toRead EXCEPT ![s] = @ - 1]
  /\ UNCHANGED <<sendsFail, keepsFreed, peer, open, m_bShutdown, m_LastError, posted, deletions>>

(* Its read fails when the peer has gone or the socket has been closed.    *)
ReceiveFails(s) ==
  /\ ~open[s] \/ ~peer[s]
  /\ Goto(s, "read", "readError")
  /\ UNCHANGED <<sendsFail, keepsFreed, peer, open, m_bShutdown, m_LastError, toRead,
                 posted, deletions>>

(* Mutant: the thread only leaves its loop.                                *)
CheckRecvErrorOnly(s) ==
  /\ Goto(s, "readError", "done")
  /\ UNCHANGED <<sendsFail, keepsFreed, peer, open, m_bShutdown, m_LastError, toRead,
                 posted, deletions>>

(* Mutant: the thread shuts down at once instead of posting it.            *)
CheckRecvErrorAtOnce(s) ==
  /\ Goto(s, "readError", "test")
  /\ UNCHANGED <<sendsFail, keepsFreed, peer, open, m_bShutdown, m_LastError, toRead,
                 posted, deletions>>

(* SERVER_CheckRecvError, CLIENT_CheckRecvError: post Shutdown unless      *)
(* somebody is at it, and leave the loop.                                  *)
CheckRecvError(s) ==
  /\ Goto(s, "readError", "done")
  /\ \E down \in MayRead(m_bShutdown) : posted' = IF down THEN posted ELSE posted + 1
  /\ UNCHANGED <<sendsFail, keepsFreed, peer, open, m_bShutdown, m_LastError, toRead, deletions>>

(* A write to a closed socket fails.  One to a peer that has gone may fail *)
(* or vanish in a buffer.                                                  *)
SendErrors(s) ==
  IF ~open[s] THEN {TRUE}
  ELSE IF sendsFail /\ ~peer[s] THEN BOOLEAN ELSE {FALSE}

(* SERVER_SendPacket and CLIENT_SendPacket: write first, ...               *)
Send(s) ==
  /\ Goto(s, "send", "check")
  /\ m_LastError' \in SendErrors(Other(s))
  /\ UNCHANGED <<sendsFail, keepsFreed, peer, open, m_bShutdown, toRead, posted, deletions>>

(* ... then look at m_LastError, which others may have written since.      *)
CheckSend(s) ==
  /\ \E failed \in MayRead(m_LastError) : Goto(s, "check", IF failed THEN "test" ELSE "read")
  /\ UNCHANGED <<sendsFail, keepsFreed, peer, open, m_bShutdown, m_LastError, toRead,
                 posted, deletions>>

-------------------------------------------------------------------------------
(* The service runs a posted Shutdown.                                     *)
RunPosted ==
  /\ posted > 0
  /\ Goto("service", "idle", "test")
  /\ posted' = posted - 1
  /\ UNCHANGED <<sendsFail, keepsFreed, peer, open, m_bShutdown, m_LastError, toRead, deletions>>

(* Where a caller of Shutdown goes on: the sender's thread reads again.    *)
Return(c) == IF c = "service" THEN "idle" ELSE "read"

(* Mutant: the test is dropped.                                            *)
ShutdownTestOmitted(c) ==
  /\ Goto(c, "test", "set")
  /\ UNCHANGED <<sendsFail, keepsFreed, peer, open, m_bShutdown, m_LastError, toRead,
                 posted, deletions>>

ShutdownTest(c) ==
  /\ \E down \in MayRead(m_bShutdown) : Goto(c, "test", IF down THEN Return(c) ELSE "set")
  /\ UNCHANGED <<sendsFail, keepsFreed, peer, open, m_bShutdown, m_LastError, toRead,
                 posted, deletions>>

ShutdownSet(c) ==
  /\ Goto(c, "set", "closeClient")
  /\ m_bShutdown' = TRUE
  /\ UNCHANGED <<sendsFail, keepsFreed, peer, open, m_LastError, toRead, posted, deletions>>

(* Cancelling and closing an open socket reports into m_LastError, where   *)
(* it replaces what a send may have left.                                  *)
Close(c, s, from, to) ==
  /\ Goto(c, from, to)
  /\ open' = [open EXCEPT ![s] = FALSE]
  /\ m_LastError' = (~open[s] /\ m_LastError)
  /\ UNCHANGED <<sendsFail, keepsFreed, peer, m_bShutdown, toRead, posted, deletions>>

(* Mutant: the server socket is left to the destructor of the socket.      *)
CloseServerOmitted(c) ==
  /\ Goto(c, "closeServer", "delete")
  /\ UNCHANGED <<sendsFail, keepsFreed, peer, open, m_bShutdown, m_LastError, toRead,
                 posted, deletions>>

CloseClient(c) == Close(c, "client", "closeClient", "closeServer")
CloseServer(c) == Close(c, "server", "closeServer", "delete")

(* The destructor interrupts the receive threads, which wait in no         *)
(* interruption point, and does not join them: they go on.                 *)
Delete(c) ==
  /\ Goto(c, "delete", Return(c))
  /\ deletions' = deletions + 1
  /\ UNCHANGED <<sendsFail, keepsFreed, peer, open, m_bShutdown, m_LastError, toRead, posted>>

Shutdown(c) ==
  \/ ShutdownTest(c) \/ ShutdownSet(c) \/ CloseClient(c) \/ CloseServer(c) \/ Delete(c)

-------------------------------------------------------------------------------
ServiceStep == Connect \/ Handshake \/ StartClientRecv \/ StartServerRecv
               \/ RunPosted \/ Shutdown("service")

ThreadStep(s) == Receive(s) \/ ReceiveFails(s) \/ CheckRecvError(s)
                 \/ Send(s) \/ CheckSend(s) \/ Shutdown(s)

(* Nothing left to do but to wait for the peers.                           *)
Wait == UNCHANGED vars

Next ==
  \/ ServiceStep
  \/ \E s \in Sockets : ThreadStep(s) \/ PeerCloses(s)
  \/ Wait

(* The threads are scheduled, the service is run (ProxyManager says when   *)
(* it is not), a server that was reached answers or hangs up, and writes   *)
(* end.  Peers close when they like, or never.                             *)
Fairness == WF_vars(ServiceStep) /\ \A s \in Sockets : WF_vars(ThreadStep(s))

Spec == Init /\ [][Next]_vars /\ Fairness

-------------------------------------------------------------------------------
PastTest == {c \in Callers : pc[c] \in {"set"} \cup Closing}

(* As long as failures show up in reads and the object exists, one caller  *)
(* at most is past the test of m_bShutdown, although both threads may post *)
(* Shutdown and a thread whose send fails may call it while the service is *)
(* in it.  So whoever deletes the object again has tested a flag in freed  *)
(* memory, as the Shutdown the other thread has posted does; if freed      *)
(* memory keeps its contents, nobody deletes it again (Shutdown,           *)
(* CheckRecvError).  Writes that fail take all of this away.               *)
ShutDownOnce ==
  ~sendsFail =>
    /\ deletions = 0 => \A c, d \in PastTest : c = d
    /\ keepsFreed => deletions <= 1

(* The two sockets are closed before the object goes, whoever closes them  *)
(* and however the calls of Shutdown overlap, so that no thread is left    *)
(* reading from a peer (Shutdown, ~CProxy).                                *)
ClosedWhenDeleted == deletions > 0 => ~open["client"] /\ ~open["server"]

Running == {s \in Sockets : pc[s] \notin {"none", "done"}}

(* Reads that fail let the proxy be deleted under at most one thread: the  *)
(* other one has left, since only a thread that leaves posts Shutdown.     *)
OneStray == ~sendsFail /\ deletions > 0 => \E s \in Sockets : s \notin Running

(* When a peer goes the proxy is deleted, also when the error of a failing *)
(* send is overwritten in m_LastError before its thread has looked.        *)
EventuallyDeleted == \A s \in Sockets : ~peer[s] ~> deletions > 0

(* No receive thread outlives the proxy for ever: its next read fails.     *)
ThreadsEnd == deletions > 0 ~> Running = {}
===============================================================================
