------------------------------ MODULE ServerList ------------------------------
(***************************************************************************)
(* CServerList (Serverlist.cpp): accepts connections on the service thread *)
(* and serves each from a thread of its own, which sends the list and then *)
(* counts itself out.  Stop deletes the object, or leaves that to the last *)
(* socket thread.  Stop is called where Emulator.h says the object is run  *)
(* from, on the service thread, so that it cannot cut into HandleAccept;   *)
(* the socket threads run against both.                                    *)
(*                                                                         *)
(* The boost::atomic members are one step per access.  m_bDeleteLater is   *)
(* not initialised.  Deleting the object destroys its acceptor, which      *)
(* completes the outstanding accept with an error.                         *)
(***************************************************************************)
EXTENDS Integers, FiniteSets

CONSTANT Sockets    \* the sockets Run allocates (model bound: each once)
ASSUME SocketsAssumption == IsFiniteSet(Sockets)

VARIABLES
  m_bDeleteLater,
  m_ActiveSockets,
  stop,       \* where the call of Stop is
  pc,         \* pc[s]: what is happening to socket s
  deletions,  \* how often the object has been deleted
  setAtStart  \* history: m_bDeleteLater was set in the memory it was made in
vars == <<m_bDeleteLater, m_ActiveSockets, stop, pc, deletions, setAtStart>>

(* "accepting": async_accept is outstanding.  "accepted", "failed": its    *)
(* handler is queued.  From "timeout" to "testActive" the socket's thread  *)
(* runs; "unserved" is the end of a thread whose setsockopt failed.        *)
Uncounted == {"testLater", "testActive"}
Counted == {"timeout", "read", "reply", "close", "countDown"}
Places == {"unused", "accepting", "accepted", "failed", "unserved", "done"}
          \cup Counted \cup Uncounted

TypeOK ==
  /\ m_bDeleteLater \in BOOLEAN
  /\ m_ActiveSockets \in Nat
  /\ stop \in {"not called", "set", "test", "returned"}
  /\ pc \in [Sockets -> Places]
  /\ deletions \in Nat
  /\ setAtStart \in BOOLEAN

At(place) == {s \in Sockets : pc[s] = place}

(* Run has been called once.                                               *)
Init ==
  /\ setAtStart \in BOOLEAN
  /\ m_bDeleteLater = setAtStart
  /\ m_ActiveSockets = 0
  /\ stop = "not called"
  /\ pc \in {[s \in Sockets |-> IF s = first THEN "accepting" ELSE "unused"] : first \in Sockets}
  /\ deletions = 0

(* Every member function that is queued uses the object.                   *)
Alive == deletions = 0

(* A freed m_bDeleteLater reads as anything, a freed counter too.          *)
Later == IF Alive THEN {m_bDeleteLater} ELSE BOOLEAN
NoneActive == IF Alive THEN {m_ActiveSockets = 0} ELSE BOOLEAN

(* HandleAccept and Stop are not run inside one another.                   *)
ServiceFree == stop \notin {"set", "test"}

Goto(s, from, to) == pc[s] = from /\ pc' = [pc EXCEPT ![s] = to]

-------------------------------------------------------------------------------
(* A client comes, or accepting fails, as it does when the acceptor goes.  *)
AcceptCompletes(s) ==
  /\ \/ Alive /\ Goto(s, "accepting", "accepted")
     \/ Goto(s, "accepting", "failed")
  /\ UNCHANGED <<m_bDeleteLater, m_ActiveSockets, stop, deletions, setAtStart>>

(* Run: allocate a socket and accept into it, while the model has any.     *)
Run(after) ==
  IF \E s \in Sockets : after[s] = "unused"
  THEN \E s \in Sockets : after[s] = "unused" /\ pc' = [after EXCEPT ![s] = "accepting"]
  ELSE pc' = after

(* Mutant: it does not go on accepting after an error.                     *)
HandleAcceptStopsOnError(s) ==
  /\ ServiceFree /\ Alive
  /\ pc[s] \in {"accepted", "failed"}
  /\ IF m_bDeleteLater \/ pc[s] = "failed"
     THEN pc' = [pc EXCEPT ![s] = "done"] /\ UNCHANGED m_ActiveSockets
     ELSE /\ m_ActiveSockets' = m_ActiveSockets + 1
          /\ Run([pc EXCEPT ![s] = "timeout"])
  /\ UNCHANGED <<m_bDeleteLater, stop, deletions, setAtStart>>

HandleAccept(s) ==
  /\ ServiceFree /\ Alive
  /\ pc[s] \in {"accepted", "failed"}
  /\ IF m_bDeleteLater THEN pc' = [pc EXCEPT ![s] = "done"] /\ UNCHANGED m_ActiveSockets
     ELSE IF pc[s] = "accepted"
     THEN /\ m_ActiveSockets' = m_ActiveSockets + 1
          /\ Run([pc EXCEPT ![s] = "timeout"])
     ELSE Run([pc EXCEPT ![s] = "done"]) /\ UNCHANGED m_ActiveSockets
  /\ UNCHANGED <<m_bDeleteLater, stop, deletions, setAtStart>>

(* The handler of the accept that the deletion has aborted: it reads the   *)
(* freed m_bDeleteLater and returns.  Should that read FALSE, it goes on   *)
(* to a destroyed acceptor, about which nothing can be said.               *)
HandleAccepted(s) ==
  /\ ServiceFree /\ ~Alive
  /\ pc[s] \in {"accepted", "failed"}
  /\ pc' = [pc EXCEPT ![s] = "done"]
  /\ UNCHANGED <<m_bDeleteLater, m_ActiveSockets, stop, deletions, setAtStart>>

-------------------------------------------------------------------------------
(* The thread of s: setsockopt, ...                                        *)
SetTimeout(s) ==
  /\ Goto(s, "timeout", "read") \/ Goto(s, "timeout", "unserved")
  /\ UNCHANGED <<m_bDeleteLater, m_ActiveSockets, stop, deletions, setAtStart>>

(* ... read, which ends after five seconds: a GET, or something else, ...  *)
Read(s) ==
  /\ Goto(s, "read", "reply") \/ Goto(s, "read", "close")
  /\ UNCHANGED <<m_bDeleteLater, m_ActiveSockets, stop, deletions, setAtStart>>

(* ... send m_ServerList, ...                                              *)
Reply(s) ==
  /\ Goto(s, "reply", "close")
  /\ UNCHANGED <<m_bDeleteLater, m_ActiveSockets, stop, deletions, setAtStart>>

(* ... delete the socket, ...                                              *)
Close(s) ==
  /\ Goto(s, "close", "countDown")
  /\ UNCHANGED <<m_bDeleteLater, m_ActiveSockets, stop, deletions, setAtStart>>

(* Mutant: the counter is reset.                                           *)
CountDownToZero(s) ==
  /\ Goto(s, "countDown", "testLater")
  /\ m_ActiveSockets' = 0
  /\ UNCHANGED <<m_bDeleteLater, stop, deletions, setAtStart>>

(* ... count down, ...                                                     *)
CountDown(s) ==
  /\ Goto(s, "countDown", "testLater")
  /\ m_ActiveSockets' = m_ActiveSockets - 1
  /\ UNCHANGED <<m_bDeleteLater, stop, deletions, setAtStart>>

TestLater(s) ==
  /\ \E later \in Later : Goto(s, "testLater", IF later THEN "testActive" ELSE "done")
  /\ UNCHANGED <<m_bDeleteLater, m_ActiveSockets, stop, deletions, setAtStart>>

(* Mutant: whoever finds the flag set deletes.                             *)
TestActiveOmitted(s) ==
  /\ Goto(s, "testActive", "done")
  /\ deletions' = deletions + 1
  /\ UNCHANGED <<m_bDeleteLater, m_ActiveSockets, stop, setAtStart>>

(* Mutant: only Stop deletes.                                              *)
TestActiveOnly(s) ==
  /\ Goto(s, "testActive", "done")
  /\ UNCHANGED <<m_bDeleteLater, m_ActiveSockets, stop, deletions, setAtStart>>

(* ... and delete the object when nobody is left.  The counter is loaded   *)
(* again: it may not be this thread's decrement that made it zero.         *)
TestActive(s) ==
  /\ Goto(s, "testActive", "done")
  /\ \E none \in NoneActive : deletions' = IF none THEN deletions + 1 ELSE deletions
  /\ UNCHANGED <<m_bDeleteLater, m_ActiveSockets, stop, setAtStart>>

-------------------------------------------------------------------------------
StopCalled ==
  /\ stop = "not called"
  /\ stop' = "set"
  /\ UNCHANGED <<m_bDeleteLater, m_ActiveSockets, pc, deletions, setAtStart>>

StopSets ==
  /\ stop = "set"
  /\ stop' = "test"
  /\ m_bDeleteLater' = TRUE
  /\ UNCHANGED <<m_ActiveSockets, pc, deletions, setAtStart>>

StopTests ==
  /\ stop = "test"
  /\ stop' = "returned"
  /\ \E none \in NoneActive : deletions' = IF none THEN deletions + 1 ELSE deletions
  /\ UNCHANGED <<m_bDeleteLater, m_ActiveSockets, pc, setAtStart>>

Stop == StopSets \/ StopTests

-------------------------------------------------------------------------------
SocketThread(s) == SetTimeout(s) \/ Read(s) \/ Reply(s) \/ Close(s) \/ CountDown(s)
                   \/ TestLater(s) \/ TestActive(s)
Handler(s) == HandleAccept(s) \/ HandleAccepted(s)

(* Nothing to do until a client comes.                                     *)
Wait == UNCHANGED vars

Next ==
  \/ StopCalled \/ Stop \/ Wait
  \/ \E s \in Sockets : AcceptCompletes(s) \/ Handler(s) \/ SocketThread(s)

(* Threads are scheduled; their reads time out, their sends end.           *)
Fairness ==
  /\ WF_vars(Stop)
  /\ \A s \in Sockets : WF_vars(Handler(s)) /\ WF_vars(SocketThread(s))

Spec == Init /\ [][Next]_vars /\ Fairness

-------------------------------------------------------------------------------
Served == {s \in Sockets : pc[s] \in Counted}
Unserved == At("unserved")

(* Emulator.h on m_ActiveSockets: "Currently running threads."  While the  *)
(* object lives the counter is exactly the threads that still use the      *)
(* list, and those that have left without counting down (HandleAccept).    *)
CountsThreads == Alive => m_ActiveSockets = Cardinality(Served \cup Unserved)

(* The object, and with it the list, is there for every thread that may    *)
(* still send it or has yet to count down, however Stop, new connections   *)
(* and the other threads' endings interleave.  It says nothing of a thread *)
(* that has counted down: its two tests may read a freed object (Stop,     *)
(* HandleAccept, Serverlist.cpp:107).                                      *)
AliveWhileServed == Served # {} => Alive

Pending == {s \in Sockets : pc[s] \in {"accepting", "accepted", "failed"}}

(* Emulator.h on Run: "Start accepting sockets".  Until Stop sets the flag *)
(* there is always an accept under way, one, whatever became of the ones   *)
(* before (as long as the model has sockets), if the uninitialised flag    *)
(* happened to be clear.  If it happened to be set, nobody is ever served: *)
(* the first accept is the last (Run, HandleAccept).                       *)
KeepsAccepting ==
  /\ ~setAtStart /\ stop \in {"not called", "set"} =>
       At("unused") = {} \/ Cardinality(Pending) = 1
  /\ setAtStart => Served \cup Unserved = {} /\ Cardinality(Pending) <= 1

(* Once Stop has returned the object is deleted, by it or by a thread,     *)
(* unless a thread has left without counting down (Stop, Emulator.h:150).  *)
StopDeletes == stop = "returned" ~> ~Alive \/ Unserved # {}
===============================================================================
