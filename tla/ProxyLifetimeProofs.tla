-------------------------- MODULE ProxyLifetimeProofs --------------------------
(***************************************************************************)
(* One CProxy and its three threads, for any number of packets: how often  *)
(* the object is deleted, and what is closed and who still runs when it is.*)
(***************************************************************************)
EXTENDS ProxyLifetime, TLAPS

Starting == {"connect", "handshake", "startClient", "startServer"}

(* Type correctness: every handler of CProxy leaves the members, the       *)
(* threads and the posted Shutdowns in range.                              *)
THEOREM TypeCorrect == Spec => []TypeOK
  <1>1. Init => TypeOK
    <2> SUFFICES ASSUME Init PROVE TypeOK
      OBVIOUS
    <2>1. peer \in [Sockets -> BOOLEAN] /\ open \in [Sockets -> BOOLEAN]
      <3>1. \A s \in Sockets : (s = "client") \in BOOLEAN
        OBVIOUS
      <3>2. QED
        BY <3>1, Zenon DEF Init
    <2>2. m_bShutdown \in BOOLEAN /\ m_LastError \in BOOLEAN
      BY DEF Init
    <2>3. toRead \in [Sockets -> 0..MaxPackets]
      BY MaxPacketsAssumption DEF Init
    <2>4. pc \in [Callers -> {"connect", "none"}]
      BY DEF Init
    <2>5. QED
      BY <2>1, <2>2, <2>3, <2>4 DEF Init, TypeOK
  <1>2. TypeOK /\ [Next]_vars => TypeOK'
    <2> SUFFICES ASSUME TypeOK, [Next]_vars PROVE TypeOK'
      OBVIOUS
    <2> USE DEF TypeOK, Goto, Callers, Sockets, InShutdown, Closing
    <2>1. CASE Connect
      BY <2>1 DEF Connect
    <2>2. CASE Handshake
      BY <2>2 DEF Handshake
    <2>3. CASE StartClientRecv
      BY <2>3 DEF StartClientRecv, StartRecv
    <2>4. CASE StartServerRecv
      BY <2>4 DEF StartServerRecv, StartRecv
    <2>5. CASE RunPosted
      BY <2>5 DEF RunPosted
    <2>6. ASSUME NEW c \in Callers, Shutdown(c)
          PROVE  TypeOK'
      <3>1. CASE ShutdownTest(c) \/ ShutdownSet(c)
        BY <3>1 DEF ShutdownTest, ShutdownSet, Return
      <3>2. CASE CloseClient(c) \/ CloseServer(c)
        BY <3>2 DEF CloseClient, CloseServer, Close
      <3>3. CASE Delete(c)
        BY <3>3 DEF Delete, Return
      <3>4. QED
        BY <2>6, <3>1, <3>2, <3>3 DEF Shutdown
    <2>7. ASSUME NEW s \in Sockets, ThreadStep(s)
          PROVE  TypeOK'
      <3>1. CASE Receive(s)
        BY <3>1, MaxPacketsAssumption DEF Receive
      <3>2. CASE ReceiveFails(s)
        BY <3>2 DEF ReceiveFails
      <3>3. CASE CheckRecvError(s)
        BY <3>3 DEF CheckRecvError
      <3>4. CASE Send(s)
        BY <3>4 DEF Send, SendErrors
      <3>5. CASE CheckSend(s)
        BY <3>5 DEF CheckSend
      <3>6. QED
        BY <2>6, <2>7, <3>1, <3>2, <3>3, <3>4, <3>5 DEF ThreadStep
    <2>8. ASSUME NEW s \in Sockets, PeerCloses(s)
          PROVE  TypeOK'
      BY <2>8 DEF PeerCloses
    <2>9. CASE UNCHANGED vars
      BY <2>9 DEF vars
    <2>10. QED
      BY <2>1, <2>2, <2>3, <2>4, <2>5, <2>6, <2>7, <2>8, <2>9
      DEF Next, ServiceStep, Wait
  <1>3. QED
    BY <1>1, <1>2, PTL DEF Spec

-------------------------------------------------------------------------------
(* Whoever is about to delete the object has closed both sockets, and only *)
(* the service opens one, before there are threads.                        *)
ClosingInv ==
  /\ pc["service"] = "connect" => deletions = 0 /\ \A s \in Sockets : pc[s] = "none"
  /\ \A c \in Callers : pc[c] \in {"closeServer", "delete"} => ~open["client"]
  /\ \A c \in Callers : pc[c] = "delete" => ~open["server"]
  /\ ClosedWhenDeleted

(* Both sockets are closed before the object is deleted, whoever deletes   *)
(* it and however the calls of Shutdown overlap, for any number of packets *)
(* and whatever freed memory reads as.                                     *)
THEOREM ClosedCorrect == Spec => []ClosedWhenDeleted
  <1> USE DEF Callers, Sockets, Goto
  <1>1. Init => ClosingInv
    BY DEF Init, ClosingInv, ClosedWhenDeleted
  <1>2. TypeOK /\ ClosingInv /\ [Next]_vars => ClosingInv'
    <2> SUFFICES ASSUME TypeOK, ClosingInv, [Next]_vars PROVE ClosingInv'
      OBVIOUS
    <2> USE DEF TypeOK, ClosingInv, ClosedWhenDeleted
    <2>1. CASE Connect
      BY <2>1 DEF Connect
    <2>2. CASE Handshake
      BY <2>2 DEF Handshake
    <2>3. CASE StartClientRecv
      BY <2>3 DEF StartClientRecv, StartRecv
    <2>4. CASE StartServerRecv
      BY <2>4 DEF StartServerRecv, StartRecv
    <2>5. CASE RunPosted
      BY <2>5 DEF RunPosted
    <2>6. ASSUME NEW c \in Callers, Shutdown(c)
          PROVE  ClosingInv'
      <3>1. CASE ShutdownTest(c) \/ ShutdownSet(c)
        BY <3>1 DEF ShutdownTest, ShutdownSet, Return
      <3>2. CASE CloseClient(c) \/ CloseServer(c)
        BY <3>2 DEF CloseClient, CloseServer, Close
      <3>3. CASE Delete(c)
        BY <3>3 DEF Delete, Return
      <3>4. QED
        BY <2>6, <3>1, <3>2, <3>3 DEF Shutdown
    <2>7. ASSUME NEW s \in Sockets, ThreadStep(s)
          PROVE  ClosingInv'
      <3>1. CASE Receive(s) \/ ReceiveFails(s)
        BY <3>1 DEF Receive, ReceiveFails
      <3>2. CASE CheckRecvError(s)
        BY <3>2 DEF CheckRecvError
      <3>3. CASE Send(s) \/ CheckSend(s)
        BY <3>3 DEF Send, CheckSend
      <3>4. QED
        BY <2>6, <2>7, <3>1, <3>2, <3>3 DEF ThreadStep
    <2>8. ASSUME NEW s \in Sockets, PeerCloses(s)
          PROVE  ClosingInv'
      BY <2>8 DEF PeerCloses
    <2>9. CASE UNCHANGED vars
      BY <2>9 DEF vars
    <2>10. QED
      BY <2>1, <2>2, <2>3, <2>4, <2>5, <2>6, <2>7, <2>8, <2>9
      DEF Next, ServiceStep, Wait
  <1>3. ClosingInv => ClosedWhenDeleted
    BY DEF ClosingInv
  <1>4. QED
    BY <1>1, <1>2, <1>3, TypeCorrect, PTL DEF Spec

-------------------------------------------------------------------------------
(* Failures show up in reads only, and nobody reads freed memory that has  *)
(* changed: what a thread reads of the members is what they are.           *)
Exact == ~sendsFail /\ (deletions = 0 \/ keepsFreed)

(* Before the service has started the threads there is nothing to shut     *)
(* down, and only a thread that leaves posts Shutdown.                     *)
StartInv ==
  /\ pc["service"] \in Starting \ {"startServer"} =>
       /\ \A s \in Sockets : pc[s] = "none"
       /\ open["client"] /\ ~m_bShutdown
       /\ deletions = 0 /\ posted = 0
  /\ pc["service"] = "startServer" => pc["server"] = "none"
  /\ posted > 0 => \E s \in Sockets : pc[s] = "done"

(* The sockets are open, and no send has failed, until Shutdown has begun: *)
(* a thread whose send has failed finds it begun, and so only the service  *)
(* gets past the test, once.                                               *)
ShutdownInv ==
  /\ pc["service"] \in Starting \ {"connect"} \/ (\E s \in Sockets : pc[s] # "none") =>
       m_bShutdown \/ (open["client"] /\ open["server"])
  /\ pc["service"] \in {"startClient", "startServer"} \/ (\E s \in Sockets : pc[s] # "none") =>
       (m_LastError => m_bShutdown)
  /\ \A s \in Sockets : /\ pc[s] = "test" => m_bShutdown
                        /\ pc[s] \notin {"set"} \cup Closing
  /\ pc["service"] = "set" => ~m_bShutdown
  /\ pc["service"] \in Closing => m_bShutdown /\ deletions = 0
  /\ deletions <= 1
  /\ deletions > 0 => m_bShutdown

(* The service shuts down, and the object goes, only when one thread has   *)
(* left or never started.                                                  *)
StrayInv ==
  pc["service"] \in InShutdown \/ deletions > 0 =>
    pc["service"] \notin Starting /\ \E s \in Sockets : s \notin Running

LifeInv == /\ StartInv
           /\ Exact => ShutdownInv
           /\ ~sendsFail => StrayInv

(* LifeInv is inductive.                                                   *)
LEMMA LifeInvInductive == TypeOK /\ LifeInv /\ [Next]_vars => LifeInv'
  <1> SUFFICES ASSUME TypeOK, LifeInv, [Next]_vars PROVE LifeInv'
    OBVIOUS
  <1> USE DEF LifeInv, StartInv, ShutdownInv, StrayInv, Exact, Running, Starting,
              TypeOK, Goto, Callers, Sockets, InShutdown, Closing
  <1>1. CASE Connect
    <2>1. StartInv'
      BY <1>1 DEF Connect
    <2>2. Exact' => ShutdownInv'
      BY <1>1 DEF Connect
    <2>3. StrayInv'
      BY <1>1 DEF Connect
    <2>4. QED
      BY <2>1, <2>2, <2>3
  <1>2. CASE Handshake
    BY <1>2 DEF Handshake
  <1>3. CASE StartClientRecv
    BY <1>3 DEF StartClientRecv, StartRecv, MayRead
  <1>4. CASE StartServerRecv
    <2>1. StartInv'
      BY <1>4 DEF StartServerRecv, StartRecv
    <2>2. Exact' => ShutdownInv'
      BY <1>4 DEF StartServerRecv, StartRecv, MayRead
    <2>3. ~sendsFail' => StrayInv'
      BY <1>4 DEF StartServerRecv, StartRecv
    <2>4. QED
      BY <2>1, <2>2, <2>3
  <1>5. CASE RunPosted
    BY <1>5 DEF RunPosted
  <1>6. ASSUME NEW c \in Callers, Shutdown(c)
        PROVE  LifeInv'
    <2>1. CASE ShutdownTest(c)
      BY <2>1 DEF ShutdownTest, Return, MayRead
    <2>2. CASE ShutdownSet(c)
      BY <2>2 DEF ShutdownSet
    <2>3. CASE CloseClient(c) \/ CloseServer(c)
      <3>1. StartInv'
        BY <2>3 DEF CloseClient, CloseServer, Close
      <3>2. Exact' => ShutdownInv'
        BY <2>3 DEF CloseClient, CloseServer, Close
      <3>3. ~sendsFail' => StrayInv'
        BY <2>3 DEF CloseClient, CloseServer, Close
      <3>4. QED
        BY <3>1, <3>2, <3>3
    <2>4. CASE Delete(c)
      BY <2>4 DEF Delete, Return
    <2>5. QED
      BY <1>6, <2>1, <2>2, <2>3, <2>4 DEF Shutdown
  <1>7. ASSUME NEW s \in Sockets, ThreadStep(s)
        PROVE  LifeInv'
    <2>1. CASE Receive(s)
      BY <2>1 DEF Receive
    <2>2. CASE ReceiveFails(s)
      BY <2>2 DEF ReceiveFails
    <2>3. CASE CheckRecvError(s)
      BY <2>3 DEF CheckRecvError, MayRead
    <2>4. CASE Send(s)
      BY <2>4 DEF Send, SendErrors, Other
    <2>5. CASE CheckSend(s)
      BY <2>5 DEF CheckSend, MayRead
    <2>6. QED
      BY <1>6, <1>7, <2>1, <2>2, <2>3, <2>4, <2>5 DEF ThreadStep
  <1>8. ASSUME NEW s \in Sockets, PeerCloses(s)
        PROVE  LifeInv'
    BY <1>8 DEF PeerCloses
  <1>9. CASE UNCHANGED vars
    BY <1>9 DEF vars
  <1>10. QED
    BY <1>1, <1>2, <1>3, <1>4, <1>5, <1>6, <1>7, <1>8, <1>9
    DEF Next, ServiceStep, Wait

LEMMA LifeCorrect == Spec => []LifeInv
  <1>1. Init => LifeInv
    <2> SUFFICES ASSUME Init PROVE LifeInv
      OBVIOUS
    <2>1. open["client"]
      BY Zenon DEF Init, Sockets
    <2>2. /\ pc["service"] = "connect" /\ \A s \in Sockets : pc[s] = "none"
          /\ deletions = 0 /\ posted = 0
      BY DEF Init, Sockets, Callers
    <2>3. ~m_bShutdown /\ ~m_LastError
      BY DEF Init
    <2>4. QED
      BY <2>1, <2>2, <2>3
      DEF LifeInv, StartInv, ShutdownInv, StrayInv, Starting, Sockets, InShutdown, Closing
  <1>2. QED
    BY <1>1, LifeInvInductive, TypeCorrect, PTL DEF Spec

(* With failures that show up in reads only, for any number of packets:    *)
(* while the object exists the service alone gets past the test of         *)
(* m_bShutdown, although both threads may post Shutdown or call it; and if *)
(* freed memory keeps its contents, the object is deleted once at most.    *)
(* Without that the Shutdown posted second may delete again.               *)
THEOREM ShutDownOnceCorrect == Spec => []ShutDownOnce
  <1>1. TypeOK /\ LifeInv => ShutDownOnce
    <2> SUFFICES ASSUME TypeOK, LifeInv, ~sendsFail PROVE ShutDownOnce
      BY DEF ShutDownOnce
    <2>1. ASSUME deletions = 0 PROVE \A c \in PastTest : c = "service"
      BY <2>1 DEF LifeInv, ShutdownInv, Exact, PastTest, Callers, Closing
    <2>2. keepsFreed => deletions <= 1
      BY DEF LifeInv, ShutdownInv, Exact
    <2>3. QED
      BY <2>1, <2>2 DEF ShutDownOnce
  <1>2. QED
    BY <1>1, LifeCorrect, TypeCorrect, PTL

(* ... and once the object is deleted at most one receive thread is still  *)
(* running, whatever freed memory reads as.                                *)
THEOREM OneStrayCorrect == Spec => []OneStray
  <1>1. LifeInv => OneStray
    BY DEF LifeInv, StrayInv, OneStray
  <1>2. QED
    BY <1>1, LifeCorrect, PTL
===============================================================================
