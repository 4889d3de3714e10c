--------------------------- MODULE ServerListProofs ---------------------------
(***************************************************************************)
(* CServerList for any finite number of connections: its counter, its      *)
(* deletion and its accepting, by one inductive invariant.                 *)
(***************************************************************************)
EXTENDS ServerList, FiniteSetTheorems, TLAPS

(* The threads that the counter counts.                                    *)
Active == Served \cup Unserved

(* Only Stop sets m_bDeleteLater, and nobody deletes the object, or is     *)
(* about to, before it is set.                                             *)
FlagInv == m_bDeleteLater <=> setAtStart \/ stop \in {"test", "returned"}

LaterInv ==
  /\ ~Alive => m_bDeleteLater
  /\ stop = "test" => m_bDeleteLater
  /\ \A s \in Sockets : pc[s] = "testActive" => m_bDeleteLater

AcceptInv == m_bDeleteLater \/ At("unused") = {} \/ \E s \in Sockets : Pending = {s}

(* An object that finds its flag set has its first accept only.            *)
StartInv == setAtStart => Active = {} /\ \A s, t \in Pending : s = t

ListInv == TypeOK /\ CountsThreads /\ AliveWhileServed /\ FlagInv /\ LaterInv
           /\ AcceptInv /\ StartInv

LEMMA Counting ==
  ASSUME NEW n \in Nat
  PROVE  /\ n + 1 \in Nat /\ n + 1 # 0
         /\ n # 0 => n - 1 \in Nat
  OBVIOUS

LEMMA ActiveFinite ==
  /\ IsFiniteSet(Active) /\ Cardinality(Active) \in Nat
  /\ Cardinality(Active) = 0 <=> Active = {}
  <1>1. IsFiniteSet(Active)
    BY SocketsAssumption, FS_Subset DEF Active, Served, Unserved, At
  <1>2. QED
    BY <1>1, FS_CardinalityType, FS_EmptySet

LEMMA InitList == Init => ListInv
  <1> SUFFICES ASSUME Init PROVE ListInv
    OBVIOUS
  <1>1. PICK first \in Sockets :
          pc = [s \in Sockets |-> IF s = first THEN "accepting" ELSE "unused"]
    BY DEF Init
  <1>2. TypeOK
    BY <1>1 DEF Init, TypeOK, Places
  <1>3. Active = {}
    BY <1>1 DEF Active, Served, Unserved, At, Counted
  <1>4. CountsThreads /\ AliveWhileServed
    BY <1>3, ActiveFinite DEF Init, Active, CountsThreads, AliveWhileServed
  <1>5. Pending = {first}
    BY <1>1 DEF Pending
  <1>6. FlagInv /\ LaterInv /\ AcceptInv /\ StartInv
    BY <1>1, <1>3, <1>5 DEF Init, FlagInv, LaterInv, AcceptInv, StartInv, Alive
  <1>7. QED
    BY <1>2, <1>4, <1>6 DEF ListInv

(* A step that neither counts nor deletes, and leaves Active as it is.     *)
LEMMA CountKept ==
  ASSUME ListInv, Active' = Active, Served' \subseteq Served,
         UNCHANGED <<m_ActiveSockets, deletions>>
  PROVE  CountsThreads' /\ AliveWhileServed'
  BY DEF ListInv, CountsThreads, AliveWhileServed, Active, Alive

(* A step that moves no socket into or out of an accept.                   *)
LEMMA AcceptKept ==
  ASSUME ListInv, Pending' = Pending, At("unused")' = At("unused"),
         m_bDeleteLater => m_bDeleteLater'
  PROVE  AcceptInv'
  BY DEF ListInv, AcceptInv

(* A step that leaves the flag and Stop alone.                             *)
LEMMA FlagKept ==
  ASSUME ListInv, UNCHANGED <<m_bDeleteLater, stop, setAtStart>>
  PROVE  FlagInv'
  BY Zenon DEF ListInv, FlagInv

(* A step that starts no accept and no thread.                             *)
LEMMA StartKept ==
  ASSUME ListInv, Pending' \subseteq Pending, Active' \subseteq Active, UNCHANGED setAtStart
  PROVE  StartInv'
  BY Zenon DEF ListInv, StartInv

(* Deleting when the counter reads zero, with everybody counted.           *)
LEMMA CountAfterDeletion ==
  ASSUME ListInv, Active' = Active, Served' = Served, UNCHANGED m_ActiveSockets,
         \E none \in NoneActive : deletions' = IF none THEN deletions + 1 ELSE deletions
  PROVE  CountsThreads' /\ AliveWhileServed'
  <1> USE DEF ListInv, TypeOK, CountsThreads, AliveWhileServed, Alive
  <1>1. CASE Alive /\ m_ActiveSockets = 0
    <2>1. Active = {}
      BY <1>1, ActiveFinite DEF Active
    <2>2. QED
      BY <1>1, <2>1 DEF NoneActive, Active
  <1>2. CASE Alive /\ m_ActiveSockets # 0
    BY <1>2 DEF NoneActive, Active
  <1>3. CASE ~Alive
    <2>1. deletions' = deletions \/ deletions' = deletions + 1
      BY Zenon
    <2>2. Served' = {} /\ deletions' # 0
      BY <1>3, <2>1, Counting, Zenon
    <2>3. QED
      BY <2>2
  <1>4. QED
    BY <1>1, <1>2, <1>3

LEMMA HandleAcceptKeeps ==
  ASSUME ListInv, NEW s \in Sockets, HandleAccept(s)
  PROVE  ListInv'
  <1> USE DEF ListInv, TypeOK, Places, Counted, Uncounted, Alive
  <1>1. CASE m_bDeleteLater
    <2>1. /\ pc' = [pc EXCEPT ![s] = "done"]
          /\ UNCHANGED <<m_bDeleteLater, m_ActiveSockets, stop, deletions, setAtStart>>
      BY <1>1 DEF HandleAccept
    <2>2. pc[s] \in {"accepted", "failed"}
      BY DEF HandleAccept
    <2>3. Active' = Active /\ Served' = Served
      BY <2>1, <2>2 DEF Active, Served, Unserved, At
    <2>4. TypeOK'
      BY <2>1
    <2>5. LaterInv' /\ AcceptInv'
      BY <1>1, <2>1 DEF LaterInv, AcceptInv
    <2>6. Pending' \subseteq Pending
      BY <2>1, <2>2 DEF Pending
    <2>7. QED
      BY <2>1, <2>3, <2>4, <2>5, <2>6, CountKept, FlagKept, StartKept
  <1>2. CASE ~m_bDeleteLater
    <2> DEFINE next == IF pc[s] = "accepted" THEN "timeout" ELSE "done"
               after == [pc EXCEPT ![s] = next]
    <2>0. pc[s] \in {"accepted", "failed"} /\ Run(after)
      BY <1>2 DEF HandleAccept
    <2>1. /\ pc[s] \in {"accepted", "failed"} /\ deletions = 0
          /\ m_ActiveSockets' = IF pc[s] = "accepted" THEN m_ActiveSockets + 1 ELSE m_ActiveSockets
          /\ UNCHANGED <<m_bDeleteLater, stop, deletions, setAtStart>>
      BY <1>2 DEF HandleAccept
    <2> HIDE DEF next
    <2>2. next \in {"timeout", "done"} /\ (next = "timeout" <=> pc[s] = "accepted")
      BY DEF next
    <2>3. \/ /\ \A t \in Sockets : after[t] # "unused"
             /\ pc' = after
          \/ \E t \in Sockets : after[t] = "unused" /\ pc' = [after EXCEPT ![t] = "accepting"]
      BY <2>0 DEF Run
    <2>4. TypeOK'
      <3>1. after \in [Sockets -> Places]
        BY <2>2
      <3>2. \A t \in Sockets : [after EXCEPT ![t] = "accepting"] \in [Sockets -> Places]
        BY <3>1
      <3>3. pc' \in [Sockets -> Places]
        BY <2>3, <3>1, <3>2
      <3>4. m_ActiveSockets' \in Nat
        BY <2>1, Counting, Zenon
      <3>5. QED
        BY <2>1, <3>3, <3>4, Zenon
    <2>5. AcceptInv'
      <3>1. Pending \subseteq {s} \/ At("unused") = {}
        BY <1>2, <2>1 DEF AcceptInv, Pending
      <3>2. CASE \A t \in Sockets : after[t] # "unused" /\ pc' = after
        BY <3>2 DEF AcceptInv, At
      <3>3. ASSUME NEW t \in Sockets, after[t] = "unused", pc' = [after EXCEPT ![t] = "accepting"]
            PROVE  AcceptInv'
        <4>1. t # s /\ pc[t] = "unused"
          BY <2>2, <3>3
        <4>2. Pending \subseteq {s}
          BY <3>1, <4>1 DEF At
        <4>3. \A x \in Sockets :
                pc'[x] = IF x = t THEN "accepting" ELSE IF x = s THEN next ELSE pc[x]
          BY <3>3, <4>1
        <4>4. \A x \in Sockets : pc'[x] \in {"accepting", "accepted", "failed"} <=> x = t
          BY <2>2, <4>2, <4>3 DEF Pending
        <4>5. Pending' = {t}
          BY <4>4 DEF Pending
        <4>6. QED
          BY <4>5 DEF AcceptInv
      <3>4. QED
        BY <2>3, <3>2, <3>3
    <2>6. Active' = IF pc[s] = "accepted" THEN Active \cup {s} ELSE Active
      BY <2>1, <2>2, <2>3 DEF Active, Served, Unserved, At
    <2>7. s \notin Active
      BY <2>1 DEF Active, Served, Unserved, At
    <2>8. CountsThreads' /\ AliveWhileServed'
      <3>1. Cardinality(Active \cup {s}) = Cardinality(Active) + 1
        BY <2>7, ActiveFinite, FS_AddElement
      <3>2. QED
        BY <2>1, <2>6, <3>1 DEF CountsThreads, AliveWhileServed, Active
    <2>9. LaterInv'
      BY <2>1, <2>2, <2>3 DEF LaterInv
    <2>10. StartInv'
      BY <1>2, <2>1 DEF FlagInv, StartInv
    <2>11. QED
      BY <2>1, <2>4, <2>5, <2>8, <2>9, <2>10, FlagKept
  <1>3. QED
    BY <1>1, <1>2

LEMMA SocketThreadKeeps ==
  ASSUME ListInv, NEW s \in Sockets, SocketThread(s)
  PROVE  ListInv'
  <1> USE DEF ListInv, TypeOK, Places, Counted, Uncounted, Alive, Goto
  <1>1. ASSUME \/ SetTimeout(s) \/ Read(s) \/ Reply(s) \/ Close(s)
        PROVE  ListInv'
    <2> USE <1>1 DEF SetTimeout, Read, Reply, Close
    <2>1. TypeOK'
      OBVIOUS
    <2>2. Active' = Active /\ Served' \subseteq Served
      BY DEF Active, Served, Unserved, At
    <2>3. Pending' = Pending /\ At("unused")' = At("unused")
      BY DEF Pending, At
    <2>4. LaterInv'
      BY DEF LaterInv
    <2>5. UNCHANGED <<m_bDeleteLater, m_ActiveSockets, deletions, setAtStart>>
      OBVIOUS
    <2>6. QED
      BY <2>1, <2>2, <2>3, <2>4, <2>5, CountKept, AcceptKept, FlagKept, StartKept
  <1>2. CASE CountDown(s)
    <2> USE <1>2 DEF CountDown
    <2>1. s \in Served /\ deletions = 0
      BY DEF Served, AliveWhileServed
    <2>2. Active' = Active \ {s} /\ s \in Active
      BY DEF Active, Served, Unserved, At
    <2>3. Cardinality(Active') = Cardinality(Active) - 1
      BY <2>2, ActiveFinite, FS_RemoveElement
    <2>4. m_ActiveSockets = Cardinality(Active) /\ m_ActiveSockets # 0
      <3>1. m_ActiveSockets = Cardinality(Active)
        BY <2>1, Zenon DEF CountsThreads, Active
      <3>2. Cardinality(Active) # 0
        BY <2>2, ActiveFinite, Zenon
      <3>3. QED
        BY <3>1, <3>2, Zenon
    <2>5. TypeOK'
      <3>1. m_ActiveSockets - 1 \in Nat
        BY <2>4, Counting, Zenon
      <3>2. pc' \in [Sockets -> Places]
        OBVIOUS
      <3>3. QED
        BY <3>1, <3>2
    <2>6. CountsThreads' /\ AliveWhileServed'
      BY <2>1, <2>3, <2>4 DEF CountsThreads, AliveWhileServed, Active
    <2>7. Pending' = Pending /\ At("unused")' = At("unused")
      BY DEF Pending, At
    <2>8. AcceptInv'
      BY <2>7, AcceptKept
    <2>9. LaterInv'
      BY DEF LaterInv
    <2>10. QED
      BY <2>2, <2>5, <2>6, <2>7, <2>8, <2>9, FlagKept, StartKept
  <1>3. CASE TestLater(s)
    <2> USE <1>3 DEF TestLater
    <2>1. TypeOK'
      OBVIOUS
    <2>2. Active' = Active /\ Served' = Served
      BY DEF Active, Served, Unserved, At
    <2>3. Pending' = Pending /\ At("unused")' = At("unused")
      BY DEF Pending, At
    <2>4. LaterInv'
      <3>1. PICK later \in Later :
              pc' = [pc EXCEPT ![s] = IF later THEN "testActive" ELSE "done"]
        BY Zenon
      <3>2. later => m_bDeleteLater
        BY Zenon DEF LaterInv, Later
      <3>3. pc'[s] = "testActive" => later
        BY <3>1
      <3>4. QED
        BY <3>1, <3>2, <3>3 DEF LaterInv
    <2>5. QED
      BY <2>1, <2>2, <2>3, <2>4, CountKept, AcceptKept, FlagKept, StartKept
  <1>4. CASE TestActive(s)
    <2> USE <1>4 DEF TestActive
    <2>1. TypeOK'
      <3>1. pc' \in [Sockets -> Places]
        OBVIOUS
      <3>2. deletions' \in Nat
        BY Counting, Zenon
      <3>3. QED
        BY <3>1, <3>2, Zenon
    <2>2. Active' = Active /\ Served' = Served
      BY DEF Active, Served, Unserved, At
    <2>3. Pending' = Pending /\ At("unused")' = At("unused")
      BY DEF Pending, At
    <2>4. LaterInv'
      BY DEF LaterInv
    <2>5. QED
      BY <2>1, <2>2, <2>3, <2>4, CountAfterDeletion, AcceptKept, FlagKept, StartKept
  <1>5. QED
    BY <1>1, <1>2, <1>3, <1>4 DEF SocketThread

LEMMA StopKeeps ==
  ASSUME ListInv, StopCalled \/ Stop
  PROVE  ListInv'
  <1> USE DEF ListInv, TypeOK, Alive
  <1>1. Active' = Active /\ Served' = Served /\ Pending' = Pending
        /\ At("unused")' = At("unused")
    BY DEF StopCalled, Stop, StopSets, StopTests, Active, Served, Unserved, At, Pending
  <1>2. CASE StopCalled \/ StopSets
    <2>1. TypeOK' /\ LaterInv'
      BY <1>2 DEF StopCalled, StopSets, LaterInv
    <2>2. FlagInv'
      <3>1. CASE StopCalled
        BY <3>1 DEF StopCalled, FlagInv
      <3>2. CASE StopSets
        BY <3>2, Zenon DEF StopSets, FlagInv
      <3>3. QED
        BY <1>2, <3>1, <3>2
    <2>3. (m_bDeleteLater => m_bDeleteLater')
          /\ UNCHANGED <<m_ActiveSockets, deletions, setAtStart>>
      BY <1>2 DEF StopCalled, StopSets
    <2>4. QED
      BY <1>1, <2>1, <2>2, <2>3, CountKept, AcceptKept, StartKept
  <1>3. CASE StopTests
    <2>1. TypeOK' /\ LaterInv' /\ FlagInv'
      BY <1>3 DEF StopTests, LaterInv, FlagInv
    <2>2. QED
      BY <1>1, <1>3, <2>1, CountAfterDeletion, AcceptKept, StartKept DEF StopTests
  <1>4. QED
    BY <1>2, <1>3 DEF Stop

(* ListInv is inductive.                                                   *)
LEMMA ListInvInductive == ListInv /\ [Next]_vars => ListInv'
  <1> SUFFICES ASSUME ListInv, [Next]_vars PROVE ListInv'
    OBVIOUS
  <1> USE DEF ListInv, TypeOK, Places, Counted, Uncounted, Alive
  <1>1. ASSUME NEW s \in Sockets, AcceptCompletes(s)
        PROVE  ListInv'
    <2> USE <1>1 DEF AcceptCompletes, Goto
    <2>1. TypeOK' /\ LaterInv'
      BY DEF LaterInv
    <2>2. Active' = Active /\ Served' = Served /\ Pending' = Pending
          /\ At("unused")' = At("unused")
      BY DEF Active, Served, Unserved, At, Pending
    <2>3. QED
      BY <2>1, <2>2, CountKept, AcceptKept, FlagKept, StartKept
  <1>2. ASSUME NEW s \in Sockets, HandleAccepted(s)
        PROVE  ListInv'
    <2> USE <1>2 DEF HandleAccepted
    <2>1. TypeOK' /\ LaterInv'
      BY DEF LaterInv
    <2>2. Active' = Active /\ Served' = Served
      BY DEF Active, Served, Unserved, At
    <2>3. AcceptInv'
      BY DEF LaterInv, AcceptInv
    <2>4. Pending' \subseteq Pending
      BY DEF Pending
    <2>5. QED
      BY <2>1, <2>2, <2>3, <2>4, CountKept, FlagKept, StartKept
  <1>3. CASE UNCHANGED vars
    <2>1. TypeOK' /\ LaterInv'
      BY <1>3 DEF vars, LaterInv
    <2>2. Active' = Active /\ Served' = Served /\ Pending' = Pending
          /\ At("unused")' = At("unused")
      BY <1>3 DEF vars, Active, Served, Unserved, At, Pending
    <2>3. QED
      BY <1>3, <2>1, <2>2, CountKept, AcceptKept, FlagKept, StartKept DEF vars
  <1>4. QED
    BY <1>1, <1>2, <1>3, HandleAcceptKeeps, SocketThreadKeeps, StopKeeps
    DEF Next, Handler, Wait

LEMMA ListCorrect == Spec => []ListInv
  BY InitList, ListInvInductive, PTL DEF Spec

(* Type correctness; in particular the counter never goes below zero.      *)
THEOREM TypeCorrect == Spec => []TypeOK
  <1>1. ListInv => TypeOK
    BY DEF ListInv
  <1>2. QED
    BY <1>1, ListCorrect, PTL

(* While the object lives m_ActiveSockets is exactly the number of threads *)
(* that may still use the list, and of those that left without counting.   *)
THEOREM CountCorrect == Spec => []CountsThreads
  <1>1. ListInv => CountsThreads
    BY DEF ListInv
  <1>2. QED
    BY <1>1, ListCorrect, PTL

(* No thread sends the list of an object that has been deleted, or counts  *)
(* down in it, for any number of connections and whenever Stop comes.  The *)
(* tests that follow the countdown may read a freed object; the theorem    *)
(* does not speak of the threads that are there (Serverlist.cpp:105-107).  *)
THEOREM AliveCorrect == Spec => []AliveWhileServed
  <1>1. ListInv => AliveWhileServed
    BY DEF ListInv
  <1>2. QED
    BY <1>1, ListCorrect, PTL

(* With the flag clear at the start there is one accept under way until    *)
(* Stop sets it, or no socket is left to accept into, whatever the others  *)
(* came to; with the flag set nobody is served and only the first accept   *)
(* is ever made (Run, HandleAccept).                                       *)
THEOREM AcceptsCorrect == Spec => []KeepsAccepting
  <1>1. ListInv => KeepsAccepting
    <2> SUFFICES ASSUME ListInv PROVE KeepsAccepting
      OBVIOUS
    <2>1. ASSUME ~setAtStart, stop \in {"not called", "set"}
          PROVE  At("unused") = {} \/ Cardinality(Pending) = 1
      <3>1. ~m_bDeleteLater
        BY <2>1 DEF ListInv, FlagInv
      <3>2. QED
        BY <3>1, FS_Singleton DEF ListInv, AcceptInv
    <2>2. ASSUME setAtStart PROVE Cardinality(Pending) <= 1
      <3>1. Pending = {} \/ \E s \in Pending : Pending = {s}
        BY <2>2 DEF ListInv, StartInv
      <3>2. Cardinality(Pending) = 0 \/ Cardinality(Pending) = 1
        BY <3>1, FS_Singleton, FS_EmptySet
      <3>3. QED
        BY <3>2
    <2>3. QED
      BY <2>1, <2>2 DEF ListInv, StartInv, KeepsAccepting, Active
  <1>2. QED
    BY <1>1, ListCorrect, PTL
===============================================================================
