-------------------------- MODULE ProxyManagerProofs --------------------------
(***************************************************************************)
(* CProxyManager never has two proxies waiting for a client, for any set   *)
(* of proxies: the right to accept is a token that is a posted AcceptImpl  *)
(* or a thread that will post one.                                         *)
(***************************************************************************)
EXTENDS ProxyManager, FiniteSetTheorems, SequenceTheorems, TLAPS

HandlerRecords == [op : Ops, proxy : Proxies \cup {Nobody}]

(* All of TypeOK but the list, which no handler here depends on.           *)
ServiceTypes ==
  /\ handlers \in Seq(HandlerRecords)
  /\ life \in [Proxies -> {"unused", "listening", "accepted", "relaying", "ended", "deleted"}]
  /\ promise \in [Proxies -> {"unset", "set", "deleted"}]
  /\ waiter \in [Proxies -> {"none", "started", "waiting", "done"}]

WillAccept(p) == waiter[p] \in {"started", "waiting"}
AcceptAt(i) == i \in DOMAIN handlers /\ handlers[i].op = "accept"

(* The token: one posted AcceptImpl, or one thread that has not posted it. *)
TokenInv ==
  /\ \A i, j \in DOMAIN handlers : AcceptAt(i) /\ AcceptAt(j) => i = j
  /\ \A p, q \in Proxies : WillAccept(p) /\ WillAccept(q) => p = q
  /\ \A p \in Proxies, i \in DOMAIN handlers : ~(WillAccept(p) /\ AcceptAt(i))

(* A proxy that listens has not kept its promise, so its thread waits, and *)
(* nothing that would end its listening is posted.                         *)
PromiseInv ==
  /\ \A p \in Proxies : /\ life[p] = "listening" => promise[p] = "unset" /\ WillAccept(p)
                        /\ life[p] = "unused" <=> waiter[p] = "none"
                        /\ life[p] = "unused" => promise[p] = "unset"
  /\ \A i \in DOMAIN handlers : handlers[i].op \in {"connect", "shutdown"} =>
       handlers[i].proxy \in Proxies /\ life[handlers[i].proxy] \notin {"unused", "listening"}
  /\ \A p \in connecting : p \in Proxies /\ life[p] \notin {"unused", "listening"}

AcceptorInv == ServiceTypes /\ TokenInv /\ PromiseInv

(* What is in the queue after a handler has been run or one been posted.   *)
LEMMA QueueAfterRun ==
  ASSUME ServiceTypes, NEW op \in Ops, NEW p \in Proxies \cup {Nobody},
         NEW posts \in Seq(HandlerRecords), Runs(op, p, posts)
  PROVE  /\ 1 \in DOMAIN handlers /\ handlers[1] = Handler(op, p)
         /\ handlers' \in Seq(HandlerRecords)
         /\ Len(handlers') = Len(handlers) - 1 + Len(posts)
         /\ \A j \in DOMAIN handlers' :
              \/ j + 1 \in DOMAIN handlers /\ handlers'[j] = handlers[j + 1]
              \/ /\ j - (Len(handlers) - 1) \in DOMAIN posts /\ j > Len(handlers) - 1
                 /\ handlers'[j] = posts[j - (Len(handlers) - 1)]
  <1>1. /\ handlers \in Seq(HandlerRecords) /\ handlers # <<>>
        /\ Head(handlers) = Handler(op, p) /\ handlers' = Tail(handlers) \o posts
    BY DEF ServiceTypes, Runs
  <1>2. /\ Tail(handlers) \in Seq(HandlerRecords)
        /\ Len(handlers) \in Nat /\ Len(handlers) >= 1
        /\ Len(Tail(handlers)) = Len(handlers) - 1
        /\ \A j \in 1 .. Len(handlers) - 1 : Tail(handlers)[j] = handlers[j + 1]
    BY <1>1
  <1>3. 1 \in DOMAIN handlers /\ handlers[1] = Handler(op, p)
    BY <1>1
  <1>4. /\ handlers' \in Seq(HandlerRecords)
        /\ Len(handlers') = Len(handlers) - 1 + Len(posts)
    BY <1>1, <1>2
  <1>5. ASSUME NEW j \in DOMAIN handlers'
        PROVE  \/ j + 1 \in DOMAIN handlers /\ handlers'[j] = handlers[j + 1]
               \/ /\ j - (Len(handlers) - 1) \in DOMAIN posts /\ j > Len(handlers) - 1
                  /\ handlers'[j] = posts[j - (Len(handlers) - 1)]
    <2>1. j \in 1 .. Len(handlers) - 1 + Len(posts) /\ Len(posts) \in Nat
      BY <1>4
    <2>2. CASE j <= Len(handlers) - 1
      BY <1>1, <1>2, <2>1, <2>2
    <2>3. CASE j > Len(handlers) - 1
      BY <1>1, <1>2, <2>1, <2>3
    <2>4. QED
      BY <1>2, <2>1, <2>2, <2>3
  <1>6. QED
    BY <1>3, <1>4, <1>5

Moved(j) == j + 1 \in DOMAIN handlers /\ handlers'[j] = handlers[j + 1]
Orders == {"accept", "connect", "shutdown"}

LEMMA HandlerTyped ==
  ASSUME NEW op \in Ops, NEW p \in Proxies \cup {Nobody}
  PROVE  Handler(op, p) \in HandlerRecords
  BY DEF Handler, HandlerRecords

(* No handler that is run on the service posts one that the token or the   *)
(* promises depend on: those that are left only move up.                   *)
LEMMA RunMovesUp ==
  ASSUME ServiceTypes, NEW op \in Ops, NEW p \in Proxies \cup {Nobody}, NEW q \in Proxies,
         NEW posts \in {<<>>, <<Handler("add", q)>>, <<Handler("remove", q)>>},
         Runs(op, p, posts)
  PROVE  /\ 1 \in DOMAIN handlers /\ handlers[1] = Handler(op, p)
         /\ handlers' \in Seq(HandlerRecords)
         /\ \A j \in DOMAIN handlers' : j \in Nat \ {0} /\ (handlers'[j].op \in Orders => Moved(j))
  <1>1. /\ posts \in Seq(HandlerRecords)
        /\ \A i \in DOMAIN posts : posts[i].op \notin Orders
    <2>1. CASE posts = <<>>
      BY <2>1
    <2>2. ASSUME NEW h \in {Handler("add", q), Handler("remove", q)}, posts = <<h>>
          PROVE  posts \in Seq(HandlerRecords) /\ \A i \in DOMAIN posts : posts[i].op \notin Orders
      <3>1. h \in HandlerRecords /\ h.op \notin Orders
        BY HandlerTyped DEF Ops, Handler, Orders
      <3>2. QED
        BY <2>2, <3>1
    <2>3. QED
      BY <2>1, <2>2
  <1>2. /\ 1 \in DOMAIN handlers /\ handlers[1] = Handler(op, p)
        /\ handlers' \in Seq(HandlerRecords)
        /\ \A j \in DOMAIN handlers' :
             \/ j + 1 \in DOMAIN handlers /\ handlers'[j] = handlers[j + 1]
             \/ \E i \in DOMAIN posts : handlers'[j] = posts[i]
    BY <1>1, QueueAfterRun, Zenon
  <1>3. \A j \in DOMAIN handlers' : j \in Nat \ {0}
    BY <1>2
  <1>4. \A j \in DOMAIN handlers' : handlers'[j].op \in Orders => Moved(j)
    BY <1>1, <1>2, Zenon DEF Moved
  <1>5. QED
    BY <1>2, <1>3, <1>4

(* What one of the other handlers, or a thread, puts at the end.           *)
LEMMA PostAtEnd ==
  ASSUME ServiceTypes, NEW h \in HandlerRecords, handlers' = Append(handlers, h)
  PROVE  /\ handlers' \in Seq(HandlerRecords)
         /\ \A j \in DOMAIN handlers' :
              \/ j \in DOMAIN handlers /\ handlers'[j] = handlers[j]
              \/ j = Len(handlers) + 1 /\ handlers'[j] = h
  BY DEF ServiceTypes

LEMMA AcceptKeeps ==
  ASSUME AcceptorInv, NEW p \in Proxies, AcceptImpl(p)
  PROVE  AcceptorInv'
  <1>1. /\ Runs("accept", Nobody, <<Handler("add", p)>>) /\ life[p] = "unused"
        /\ life' = [life EXCEPT ![p] = "listening"]
        /\ waiter' = [waiter EXCEPT ![p] = "started"]
        /\ UNCHANGED <<connecting, promise>>
    BY DEF AcceptImpl
  <1>2. /\ 1 \in DOMAIN handlers /\ handlers[1] = Handler("accept", Nobody)
        /\ handlers' \in Seq(HandlerRecords)
        /\ \A j \in DOMAIN handlers' : j \in Nat \ {0} /\ (handlers'[j].op \in Orders => Moved(j))
    BY <1>1, RunMovesUp DEF AcceptorInv, Ops
  <1>3. ServiceTypes'
    BY <1>1, <1>2 DEF AcceptorInv, ServiceTypes
  <1>4. AcceptAt(1) /\ \A q \in Proxies : ~WillAccept(q)
    BY <1>2 DEF AcceptorInv, TokenInv, AcceptAt, Handler
  <1>5. \A j \in DOMAIN handlers' : handlers'[j].op # "accept"
    BY <1>2, <1>4 DEF AcceptorInv, TokenInv, AcceptAt, Moved, Orders
  <1>6. TokenInv'
    BY <1>1, <1>4, <1>5 DEF AcceptorInv, ServiceTypes, TokenInv, AcceptAt, WillAccept
  <1>7. PromiseInv'
    BY <1>1, <1>2 DEF AcceptorInv, ServiceTypes, PromiseInv, Moved, Orders, WillAccept
  <1>8. QED
    BY <1>3, <1>6, <1>7 DEF AcceptorInv

(* The other handlers of the service.                                      *)
LEMMA RunKeeps ==
  ASSUME AcceptorInv, NEW p \in Proxies,
         AddProxy(p) \/ RemoveProxy(p) \/ ConnectToServer(p) \/ Shutdown(p)
  PROVE  AcceptorInv'
  <1>1. /\ \A j \in DOMAIN handlers' : j \in Nat \ {0} /\ (handlers'[j].op \in Orders => Moved(j))
        /\ handlers' \in Seq(HandlerRecords) /\ 1 \in DOMAIN handlers
        /\ ConnectToServer(p) => handlers[1] = Handler("connect", p)
        /\ Shutdown(p) => handlers[1] = Handler("shutdown", p)
    <2>1. CASE AddProxy(p)
      BY <2>1, RunMovesUp DEF AddProxy, AcceptorInv, Ops, ConnectToServer, Shutdown, Runs, Handler
    <2>2. CASE RemoveProxy(p)
      BY <2>2, RunMovesUp DEF RemoveProxy, AcceptorInv, Ops, ConnectToServer, Shutdown, Runs, Handler
    <2>3. CASE ConnectToServer(p)
      BY <2>3, RunMovesUp DEF AcceptorInv, Ops, ConnectToServer, Shutdown, Runs, Handler
    <2>4. CASE Shutdown(p)
      BY <2>4, RunMovesUp DEF AcceptorInv, Ops, ConnectToServer, Shutdown, Runs, Handler
    <2>5. QED
      BY <2>1, <2>2, <2>3, <2>4
  <1>2. UNCHANGED waiter
    BY DEF AddProxy, RemoveProxy, ConnectToServer, Shutdown
  <1>3. ConnectToServer(p) \/ Shutdown(p) => life[p] \notin {"unused", "listening"}
    BY <1>1 DEF AcceptorInv, PromiseInv, Handler
  <1>4. TokenInv'
    BY <1>1, <1>2 DEF AcceptorInv, TokenInv, AcceptAt, WillAccept, Moved, Orders
  <1>5. CASE AddProxy(p) \/ RemoveProxy(p)
    <2>1. UNCHANGED <<life, promise, connecting>>
      BY <1>5 DEF AddProxy, RemoveProxy
    <2>2. ServiceTypes' /\ PromiseInv'
      BY <1>1, <1>2, <2>1 DEF AcceptorInv, ServiceTypes, PromiseInv, WillAccept, Moved, Orders
    <2>3. QED
      BY <1>4, <2>2 DEF AcceptorInv
  <1>6. CASE ConnectToServer(p)
    <2>1. /\ promise' = [promise EXCEPT ![p] = "set"] /\ connecting' = {p}
          /\ UNCHANGED life
      BY <1>6 DEF ConnectToServer
    <2>2. ServiceTypes' /\ PromiseInv'
      BY <1>1, <1>2, <1>3, <1>6, <2>1
      DEF AcceptorInv, ServiceTypes, PromiseInv, WillAccept, Moved, Orders
    <2>3. QED
      BY <1>4, <2>2 DEF AcceptorInv
  <1>7. CASE Shutdown(p)
    <2>1. /\ promise' = [promise EXCEPT ![p] = "deleted"]
          /\ life' = [life EXCEPT ![p] = "deleted"]
          /\ UNCHANGED connecting
      BY <1>7 DEF Shutdown, Delete
    <2>2. ServiceTypes' /\ PromiseInv'
      BY <1>1, <1>2, <1>3, <1>7, <2>1
      DEF AcceptorInv, ServiceTypes, PromiseInv, WillAccept, Moved, Orders
    <2>3. QED
      BY <1>4, <2>2 DEF AcceptorInv
  <1>8. QED
    BY <1>5, <1>6, <1>7

(* A proxy moves on without its thread: it is not unused, nor will it      *)
(* listen again.                                                           *)
LEMMA LifeMovesOn ==
  ASSUME AcceptorInv, NEW p \in Proxies, life[p] # "unused",
         NEW l \in {"accepted", "relaying", "ended", "deleted"},
         life' = [life EXCEPT ![p] = l],
         promise' = promise \/ promise' = [promise EXCEPT ![p] = "deleted"],
         connecting' \subseteq connecting, UNCHANGED waiter,
         handlers' = handlers
           \/ \E op \in {"connect", "remove", "shutdown"} :
                handlers' = Append(handlers, Handler(op, p))
  PROVE  AcceptorInv'
  <1> DEFINE Queued ==
        /\ handlers' \in Seq(HandlerRecords)
        /\ \A j \in DOMAIN handlers' :
             \/ j \in DOMAIN handlers /\ handlers'[j] = handlers[j]
             \/ handlers'[j].op # "accept" /\ handlers'[j].proxy = p
  <1>1. Queued
    <2>1. CASE handlers' = handlers
      BY <2>1 DEF AcceptorInv, ServiceTypes
    <2>2. ASSUME NEW op \in {"connect", "remove", "shutdown"},
                 handlers' = Append(handlers, Handler(op, p))
          PROVE  Queued
      BY <2>2, HandlerTyped, PostAtEnd DEF AcceptorInv, Ops, Handler
    <2>3. QED
      BY <2>1, <2>2
  <1>2. ServiceTypes'
    BY <1>1 DEF AcceptorInv, ServiceTypes
  <1>3. TokenInv'
    BY <1>1 DEF AcceptorInv, TokenInv, AcceptAt, WillAccept
  <1>4. PromiseInv'
    BY <1>1 DEF AcceptorInv, ServiceTypes, PromiseInv, WillAccept
  <1>5. QED
    BY <1>2, <1>3, <1>4 DEF AcceptorInv

LEMMA LifeKeeps ==
  ASSUME AcceptorInv, NEW p \in Proxies,
         \/ HandshakeDone(p) \/ HandshakeFails(p) \/ ClientConnects(p) \/ ConnectionEnds(p)
  PROVE  AcceptorInv'
  <1>1. CASE HandshakeDone(p)
    BY <1>1, LifeMovesOn DEF HandshakeDone, AcceptorInv, PromiseInv
  <1>2. CASE HandshakeFails(p)
    BY <1>2, LifeMovesOn DEF HandshakeFails, Delete, AcceptorInv, PromiseInv
  <1>3. CASE ClientConnects(p)
    BY <1>3, LifeMovesOn DEF ClientConnects
  <1>4. CASE ConnectionEnds(p)
    BY <1>4, LifeMovesOn DEF ConnectionEnds
  <1>5. QED
    BY <1>1, <1>2, <1>3, <1>4

LEMMA WaiterKeeps ==
  ASSUME AcceptorInv, NEW p \in Proxies, WaiterStep(p)
  PROVE  AcceptorInv'
  <1>1. CASE GetFuture(p)
    <2>1. PICK w \in {"waiting", "done"} :
            /\ waiter' = [waiter EXCEPT ![p] = w]
            /\ w = "done" => promise[p] = "deleted"
      BY <1>1 DEF GetFuture
    <2>2. waiter[p] = "started" /\ UNCHANGED <<handlers, connecting, life, promise>>
      BY <1>1 DEF GetFuture
    <2>3. ServiceTypes'
      BY <2>1, <2>2 DEF AcceptorInv, ServiceTypes
    <2>4. TokenInv'
      BY <2>1, <2>2 DEF AcceptorInv, ServiceTypes, TokenInv, AcceptAt, WillAccept
    <2>5. PromiseInv'
      BY <2>1, <2>2 DEF AcceptorInv, ServiceTypes, PromiseInv, WillAccept
    <2>6. QED
      BY <2>3, <2>4, <2>5 DEF AcceptorInv
  <1>2. CASE AcceptNext(p)
    <2>1. /\ waiter[p] = "waiting" /\ promise[p] # "unset"
          /\ waiter' = [waiter EXCEPT ![p] = "done"]
          /\ UNCHANGED <<connecting, life, promise>>
      BY <1>2 DEF AcceptNext, PromiseKept
    <2>2. /\ handlers' \in Seq(HandlerRecords)
          /\ \A j \in DOMAIN handlers' :
               \/ j \in DOMAIN handlers /\ handlers'[j] = handlers[j]
               \/ j = Len(handlers) + 1 /\ handlers'[j] = Handler("accept", Nobody)
      <3>1. CASE handlers' = handlers
        BY <3>1 DEF AcceptorInv, ServiceTypes
      <3>2. CASE handlers' = Append(handlers, Handler("accept", Nobody))
        BY <3>2, HandlerTyped, PostAtEnd DEF AcceptorInv, Ops
      <3>3. QED
        BY <1>2, <3>1, <3>2 DEF AcceptNext
    <2>3. /\ \A q \in Proxies : q # p => ~WillAccept(q)
          /\ \A i \in DOMAIN handlers : ~AcceptAt(i)
      BY <2>1 DEF AcceptorInv, TokenInv, WillAccept
    <2>4. \A q \in Proxies : ~WillAccept(q)'
      BY <2>1, <2>3 DEF AcceptorInv, ServiceTypes, WillAccept
    <2>5. ServiceTypes'
      BY <2>1, <2>2 DEF AcceptorInv, ServiceTypes
    <2>6. TokenInv'
      BY <2>2, <2>3, <2>4 DEF TokenInv, AcceptAt
    <2>7. PromiseInv'
      BY <2>1, <2>2 DEF AcceptorInv, ServiceTypes, PromiseInv, WillAccept, Handler
    <2>8. QED
      BY <2>5, <2>6, <2>7 DEF AcceptorInv
  <1>3. QED
    BY <1>1, <1>2 DEF WaiterStep

(* AcceptorInv is inductive.                                               *)
LEMMA AcceptorInductive == AcceptorInv /\ [Next]_vars => AcceptorInv'
  <1> SUFFICES ASSUME AcceptorInv, [Next]_vars PROVE AcceptorInv'
    OBVIOUS
  <1>1. CASE ServiceStops \/ StopAccept \/ UNCHANGED vars
    <2>1. UNCHANGED <<handlers, connecting, life, promise, waiter>>
      BY <1>1 DEF ServiceStops, StopAccept, vars
    <2>2. QED
      BY <2>1 DEF AcceptorInv, ServiceTypes, TokenInv, PromiseInv, AcceptAt, WillAccept
  <1>2. QED
    BY <1>1, AcceptKeeps, RunKeeps, LifeKeeps, WaiterKeeps DEF Next, ServiceStep, MainWaits

LEMMA AcceptorInit == Init => AcceptorInv
  <1> SUFFICES ASSUME Init PROVE AcceptorInv
    OBVIOUS
  <1>1. handlers \in Seq(HandlerRecords) /\ DOMAIN handlers = {1}
        /\ handlers[1].op = "accept"
    BY HandlerTyped DEF Init, Ops, Handler
  <1>2. QED
    BY <1>1 DEF Init, AcceptorInv, ServiceTypes, TokenInv, PromiseInv, AcceptAt, WillAccept

(* At no time are two proxies waiting for a client, or asked for, for any  *)
(* set of proxies (AcceptImpl, the promise, ConnectToServer).              *)
THEOREM OneAcceptorCorrect == Spec => []OneAcceptor
  <1>1. Init => AcceptorInv
    BY AcceptorInit
  <1>2. AcceptorInv => OneAcceptor
    <2> SUFFICES ASSUME AcceptorInv PROVE OneAcceptor
      OBVIOUS
    <2>1. \A S : (\A x, y \in S : x = y) => Cardinality(S) = 0 \/ Cardinality(S) = 1
      <3> SUFFICES ASSUME NEW S, \A x, y \in S : x = y
                   PROVE  Cardinality(S) = 0 \/ Cardinality(S) = 1
        OBVIOUS
      <3>1. S = {} \/ \E x : S = {x}
        OBVIOUS
      <3>2. QED
        BY <3>1, FS_EmptySet, FS_Singleton
    <2>2. /\ \A p, q \in Listening : p = q
          /\ \A i, j \in Posted("accept") : i = j
          /\ Listening = {} \/ Posted("accept") = {}
      BY DEF AcceptorInv, TokenInv, PromiseInv, Listening, Posted, AcceptAt
    <2>3. /\ Cardinality(Listening) = 0 \/ Cardinality(Listening) = 1
          /\ Cardinality(Posted("accept")) = 0 \/ Cardinality(Posted("accept")) = 1
          /\ Cardinality(Listening) = 0 \/ Cardinality(Posted("accept")) = 0
      BY <2>1, <2>2, FS_EmptySet
    <2>4. QED
      BY <2>3 DEF OneAcceptor
  <1>3. QED
    BY <1>1, <1>2, AcceptorInductive, PTL DEF Spec

-------------------------------------------------------------------------------
(* What AtIndices returns: the elements at the indices, and no others.     *)
LEMMA AtIndicesFacts ==
  ASSUME NEW S, NEW s \in Seq(S), NEW I \in SUBSET DOMAIN s
  PROVE  /\ AtIndices(s, I) \in Seq(S) 
         /\ Cardinality(I) \in 0 .. Len(s) /\ Len(AtIndices(s, I)) = Cardinality(I)
         /\ \A i \in I : \E k \in DOMAIN AtIndices(s, I) : AtIndices(s, I)[k] = s[i]
         /\ \A k \in DOMAIN AtIndices(s, I) : \E i \in I : AtIndices(s, I)[k] = s[i]
  <1> DEFINE n    == Cardinality(I)
             f    == [i \in I |-> Rank(I, i)]
             At(k) == CHOOSE i \in I : Rank(I, i) = k
  <1>1. IsFiniteSet(I) /\ n \in Nat /\ n <= Len(s) /\ I \subseteq Nat
    <2>1. Len(s) \in Nat /\ DOMAIN s = 1 .. Len(s)
      OBVIOUS
    <2>2. IsFiniteSet(1 .. Len(s)) /\ Cardinality(1 .. Len(s)) = Len(s)
      <3>1. \A m \in Nat : IsFiniteSet(1 .. m) /\ Cardinality(1 .. m) = m
        BY FS_Interval
      <3>2. QED
        BY <2>1, <3>1
    <2>3. QED
      BY <2>1, <2>2, FS_Subset, FS_CardinalityType
  <1>2. \A i \in I : Rank(I, i) \in 1 .. n
    <2> TAKE i \in I
    <2> DEFINE upto == {j \in I : j <= i}
    <2>1. IsFiniteSet(upto) /\ Cardinality(upto) <= n /\ Cardinality(upto) \in Nat
      BY <1>1, FS_Subset, FS_CardinalityType
    <2>2. i \in upto
      BY <1>1
    <2>3. Cardinality(upto) # 0
      BY <2>1, <2>2, FS_EmptySet
    <2>4. QED
      BY <1>1, <2>1, <2>3 DEF Rank
  <1>3. \A i, j \in I : i < j => Rank(I, i) # Rank(I, j)
    <2> TAKE i, j \in I
    <2> HAVE i < j
    <2> DEFINE low == {k \in I : k <= i}
               high == {k \in I : k <= j}
    <2>1. low \subseteq high /\ j \in high /\ j \notin low
      BY <1>1
    <2>2. IsFiniteSet(high)
      BY <1>1, FS_Subset
    <2>3. Cardinality(high) # Cardinality(low)
      BY <2>1, <2>2, FS_Subset
    <2>4. QED
      BY <2>3 DEF Rank
  <1>4. \A i, j \in I : Rank(I, i) = Rank(I, j) => i = j
    BY <1>1, <1>3
  <1>5. \A k \in 1 .. n : \E i \in I : Rank(I, i) = k
    <2>1. f \in Injection(I, 1 .. n)
      BY <1>2, <1>4 DEF Injection, IsInjective
    <2>2. IsFiniteSet(1 .. n) /\ Cardinality(1 .. n) = n
      BY <1>1, FS_Interval
    <2>3. f \in Surjection(I, 1 .. n)
      BY <2>1, <2>2, FS_Injection
    <2>4. QED
      BY <2>3 DEF Surjection
  <1>6. \A k \in 1 .. n : At(k) \in I /\ Rank(I, At(k)) = k
    BY <1>5
  <1>7. AtIndices(s, I) = [k \in 1 .. n |-> s[At(k)]]
    BY DEF AtIndices
  <1> HIDE DEF At, n, f
  <1>8. \A i \in I : At(Rank(I, i)) = i
    BY <1>2, <1>4, <1>6
  <1>9. /\ AtIndices(s, I) \in Seq(S) /\ Len(AtIndices(s, I)) = n
        /\ DOMAIN AtIndices(s, I) = 1 .. n
    BY <1>1, <1>6, <1>7
  <1>10. n = Cardinality(I)
    BY DEF n
  <1>11. QED
    BY <1>1, <1>2, <1>6, <1>7, <1>8, <1>9, <1>10

(* remove_if keeps the length, and what is to be kept.                     *)
LEMMA MovedForwardFacts ==
  ASSUME NEW S, NEW s \in Seq(S), NEW I \in SUBSET DOMAIN s
  PROVE  /\ MovedForward(s, I) \in Seq(S) /\ Len(MovedForward(s, I)) = Len(s)
         /\ \A i \in I : \E k \in DOMAIN MovedForward(s, I) : MovedForward(s, I)[k] = s[i]
  <1> DEFINE kept == AtIndices(s, I)
             rest == SubSeq(s, Cardinality(I) + 1, Len(s))
             t    == MovedForward(s, I)
  <1>1. /\ kept \in Seq(S) /\ Cardinality(I) \in 0 .. Len(s) /\ Len(kept) = Cardinality(I)
        /\ \A i \in I : \E k \in DOMAIN kept : kept[k] = s[i]
    BY AtIndicesFacts
  <1>2. rest \in Seq(S) /\ Len(rest) = Len(s) - Cardinality(I)
    BY <1>1
  <1>3. t = kept \o rest
    BY DEF MovedForward
  <1> HIDE DEF kept, rest, t
  <1>4. /\ t \in Seq(S) /\ Len(t) = Len(s)
        /\ \A k \in DOMAIN kept : k \in DOMAIN t /\ t[k] = kept[k]
    BY <1>1, <1>2, <1>3
  <1>5. \A i \in I : \E k \in DOMAIN t : t[k] = s[i]
    BY <1>1, <1>4
  <1>6. QED
    BY <1>4, <1>5 DEF t

-------------------------------------------------------------------------------
(* The list of the manager.                                                *)
Live(p) == life[p] \notin {"unused", "deleted"}
Listed(p) == \E i \in DOMAIN list : list[i] = p
Queued(h) == \E i \in DOMAIN handlers : handlers[i] = h

(* Only a proxy whose client has been accepted is connected, and only once;*)
(* one that is to be removed is deleted, and stays so.                     *)
PhaseInv ==
  /\ \A i \in DOMAIN handlers :
       LET p == handlers[i].proxy
       IN  /\ handlers[i].op = "connect" => life[p] = "accepted" /\ p \notin connecting
           /\ handlers[i].op = "shutdown" => life[p] \in {"ended", "deleted"}
           /\ handlers[i].op = "remove" => p \in Proxies /\ life[p] = "deleted"
  /\ \A i, j \in DOMAIN handlers :
       handlers[i].op = "connect" /\ handlers[i] = handlers[j] => i = j
  /\ \A p \in connecting : life[p] = "accepted"

ListInv == list \in Seq(Proxies) /\ \A p \in Proxies : Live(p) => Listed(p) \/ Queued(Handler("add", p))

ManagerInv ==
  /\ AcceptorInv /\ PhaseInv /\ ListInv
  /\ service \in {"running", "stopped"} /\ m_bAcceptProxy \in BOOLEAN

(* What a handler that is run leaves in the queue.                         *)
Ran(op, p, posts) ==
  /\ 1 \in DOMAIN handlers /\ handlers[1] = Handler(op, p)
  /\ \A j \in DOMAIN handlers' :
       j \in Nat \ {0} /\ (Moved(j) \/ posts = <<handlers'[j]>>)
  /\ \A h : Queued(h) => h = Handler(op, p) \/ Queued(h)'
  /\ \A h : posts = <<h>> => Queued(h)'

LEMMA RunQueue ==
  ASSUME ServiceTypes, NEW op \in Ops, NEW p \in Proxies \cup {Nobody}, NEW q \in Proxies,
         NEW posts \in {<<>>, <<Handler("add", q)>>, <<Handler("remove", q)>>},
         Runs(op, p, posts)
  PROVE  Ran(op, p, posts)
  <1>1. posts \in Seq(HandlerRecords)
    <2>1. "add" \in Ops /\ "remove" \in Ops /\ q \in Proxies \cup {Nobody}
      BY DEF Ops
    <2>2. Handler("add", q) \in HandlerRecords /\ Handler("remove", q) \in HandlerRecords
      BY <2>1, HandlerTyped, Zenon
    <2>3. <<>> \in Seq(HandlerRecords) /\ \A h \in HandlerRecords : <<h>> \in Seq(HandlerRecords)
      OBVIOUS
    <2>4. QED
      BY <2>2, <2>3, Zenon
  <1>2. /\ handlers \in Seq(HandlerRecords) /\ handlers # <<>>
        /\ Head(handlers) = Handler(op, p) /\ handlers' = Tail(handlers) \o posts
    BY DEF ServiceTypes, Runs
  <1>3. /\ 1 \in DOMAIN handlers /\ handlers[1] = Handler(op, p)
        /\ Len(handlers') = Len(handlers) - 1 + Len(posts)
        /\ handlers' \in Seq(HandlerRecords)
        /\ \A j \in DOMAIN handlers' :
             \/ j + 1 \in DOMAIN handlers /\ handlers'[j] = handlers[j + 1]
             \/ \E i \in DOMAIN posts : handlers'[j] = posts[i]
    BY <1>1, QueueAfterRun, Zenon
  <1>4. /\ \A i \in DOMAIN posts : posts = <<posts[i]>>
        /\ \A h : posts = <<h>> => 1 \in DOMAIN posts /\ posts[1] = h /\ Len(posts) = 1
    <2>1. \A h : DOMAIN <<h>> = {1} /\ <<h>>[1] = h /\ Len(<<h>>) = 1
      OBVIOUS
    <2>2. posts = <<>> \/ \E h : posts = <<h>>
      OBVIOUS
    <2>3. QED
      BY <2>1, <2>2
  <1>5. \A j \in DOMAIN handlers' : j \in Nat \ {0} /\ (Moved(j) \/ posts = <<handlers'[j]>>)
    <2>1. \A j \in DOMAIN handlers' : j \in Nat \ {0}
      BY <1>3
    <2>2. QED
      BY <1>3, <1>4, <2>1, Zenon DEF Moved
  <1>6. \A h : Queued(h) => h = Handler(op, p) \/ Queued(h)'
    <2> SUFFICES ASSUME NEW h, NEW i \in DOMAIN handlers, handlers[i] = h
                 PROVE  h = Handler(op, p) \/ Queued(h)'
      BY DEF Queued
    <2>1. CASE i = 1
      BY <1>3, <2>1
    <2>2. CASE i # 1
      <3>1. /\ Tail(handlers) \in Seq(HandlerRecords) /\ i - 1 \in DOMAIN Tail(handlers)
            /\ Tail(handlers)[i - 1] = h
        BY <1>2, <2>2
      <3>2. i - 1 \in DOMAIN handlers' /\ handlers'[i - 1] = h
        BY <1>1, <1>2, <3>1
      <3>3. QED
        BY <3>2 DEF Queued
    <2>3. QED
      BY <2>1, <2>2
  <1>7. \A h : posts = <<h>> => Queued(h)'
    <2> SUFFICES ASSUME NEW h, posts = <<h>> PROVE Queued(h)'
      OBVIOUS
    <2>1. 1 \in DOMAIN posts /\ posts[1] = h /\ Len(posts) = 1
      BY <1>4
    <2>2. Len(handlers) \in DOMAIN handlers' /\ handlers'[Len(handlers)] = h
      BY <1>1, <1>2, <1>3, <2>1
    <2>3. QED
      BY <2>2 DEF Queued
  <1>8. QED
    BY <1>3, <1>5, <1>6, <1>7, Zenon DEF Ran

LEMMA PostQueue ==
  ASSUME ServiceTypes, NEW h \in HandlerRecords, handlers' = Append(handlers, h)
  PROVE  /\ \A g : Queued(g) => Queued(g)'
         /\ Queued(h)'
         /\ \A j \in DOMAIN handlers' :
              \/ j \in DOMAIN handlers /\ handlers'[j] = handlers[j]
              \/ j = Len(handlers) + 1 /\ handlers'[j] = h
  <1>1. /\ handlers \in Seq(HandlerRecords) /\ Len(handlers) \in Nat
        /\ DOMAIN handlers = 1 .. Len(handlers) /\ DOMAIN handlers' = 1 .. Len(handlers) + 1
        /\ handlers'[Len(handlers) + 1] = h
        /\ \A i \in DOMAIN handlers : handlers'[i] = handlers[i]
    BY DEF ServiceTypes
  <1>2. QED
    BY <1>1 DEF Queued

(* The list and the posted additions are as they were, for the proxies     *)
(* that live on.                                                           *)
LEMMA ListKept ==
  ASSUME ListInv, list' \in Seq(Proxies),
         \A p \in Proxies : Live(p)' =>
           \/ Queued(Handler("add", p))' \/ Listed(p)'
           \/ /\ Live(p) /\ (Listed(p) => Listed(p)')
              /\ (Queued(Handler("add", p)) => Queued(Handler("add", p))')
  PROVE  ListInv'
  BY Zenon DEF ListInv

(* The phases, when a handler has been run.                                *)
PhasesKept ==
  \A r \in Proxies :
    /\ life[r] = "accepted" => life'[r] = "accepted"
    /\ life[r] \in {"ended", "deleted"} => life'[r] \in {"ended", "deleted"}
    /\ life[r] = "deleted" => life'[r] = "deleted"

LEMMA PhaseAfterRun ==
  ASSUME AcceptorInv, AcceptorInv', PhaseInv, NEW op \in Ops, NEW p \in Proxies \cup {Nobody},
         NEW q \in Proxies, NEW posts \in {<<>>, <<Handler("add", q)>>, <<Handler("remove", q)>>},
         Ran(op, p, posts),
         posts = <<Handler("remove", q)>> => life'[q] = "deleted",
         PhasesKept,
         \/ connecting' = connecting
         \/ op = "connect" /\ connecting' = {p} /\ life[p] = "accepted"
  PROVE  PhaseInv'
  <1>1. \A j \in DOMAIN handlers' :
          \/ j + 1 \in DOMAIN handlers /\ handlers'[j] = handlers[j + 1]
          \/ /\ handlers'[j].op \notin Orders
             /\ handlers'[j].op = "remove" => handlers'[j].proxy = q /\ life'[q] = "deleted"
    <2> SUFFICES ASSUME NEW j \in DOMAIN handlers', posts = <<handlers'[j]>>
                 PROVE  /\ handlers'[j].op \notin Orders
                        /\ handlers'[j].op = "remove" => handlers'[j].proxy = q /\ life'[q] = "deleted"
      BY Zenon DEF Ran, Moved
    <2>1. posts # <<>>
      OBVIOUS
    <2>2. CASE posts = <<Handler("add", q)>>
      <3>1. handlers'[j] = Handler("add", q)
        BY <2>2
      <3>2. QED
        BY <3>1 DEF Handler, Orders
    <2>3. CASE posts = <<Handler("remove", q)>>
      <3>1. handlers'[j] = Handler("remove", q)
        BY <2>3
      <3>2. QED
        BY <2>3, <3>1 DEF Handler, Orders
    <2>4. QED
      BY <2>1, <2>2, <2>3
  <1>2. \A i \in DOMAIN handlers : /\ handlers[i].op \in {"connect", "shutdown", "remove"}
                                        => handlers[i].proxy \in Proxies
                                   /\ handlers[i] = Handler(handlers[i].op, handlers[i].proxy)
    <2> TAKE i \in DOMAIN handlers
    <2>1. handlers[i] \in HandlerRecords
      BY DEF AcceptorInv, ServiceTypes
    <2>2. handlers[i] = Handler(handlers[i].op, handlers[i].proxy)
      BY <2>1 DEF HandlerRecords, Handler
    <2>3. handlers[i].op \in {"connect", "shutdown"} => handlers[i].proxy \in Proxies
      BY DEF AcceptorInv, PromiseInv
    <2>4. handlers[i].op = "remove" => handlers[i].proxy \in Proxies
      BY Zenon DEF PhaseInv
    <2>5. QED
      BY <2>2, <2>3, <2>4
  <1>3. \A i \in DOMAIN handlers : i # 1 /\ handlers[i].op = "connect" =>
          life'[handlers[i].proxy] = "accepted" /\ handlers[i].proxy \notin connecting'
    <2> SUFFICES ASSUME NEW i \in DOMAIN handlers, i # 1, handlers[i].op = "connect"
                 PROVE  life'[handlers[i].proxy] = "accepted" /\ handlers[i].proxy \notin connecting'
      OBVIOUS
    <2>1. /\ life[handlers[i].proxy] = "accepted" /\ handlers[i].proxy \notin connecting
          /\ handlers[i].proxy \in Proxies /\ handlers[i] = Handler("connect", handlers[i].proxy)
      BY <1>2, Zenon DEF PhaseInv
    <2>2. handlers[i] # handlers[1]
      BY Zenon DEF PhaseInv, Ran
    <2>3. op = "connect" => handlers[i].proxy # p
      BY <2>1, <2>2, Zenon DEF Ran
    <2>4. QED
      BY <2>1, <2>3 DEF PhasesKept
  <1>4. \A i, j \in DOMAIN handlers' :
          handlers'[i].op = "connect" /\ handlers'[i] = handlers'[j] => i = j
    <2>1. \A j \in DOMAIN handlers' : j \in Nat /\ j # 0
      BY DEF Ran
    <2>2. QED
      BY <1>1, <2>1 DEF PhaseInv, Orders
  <1>5. ASSUME NEW j \in DOMAIN handlers'
        PROVE  LET r == handlers'[j].proxy
               IN  /\ handlers'[j].op = "connect" => life'[r] = "accepted" /\ r \notin connecting'
                   /\ handlers'[j].op = "shutdown" => life'[r] \in {"ended", "deleted"}
                   /\ handlers'[j].op = "remove" => r \in Proxies /\ life'[r] = "deleted"
    <2>1. CASE j + 1 \in DOMAIN handlers /\ handlers'[j] = handlers[j + 1]
      <3>1. j + 1 # 1
        BY DEF Ran
      <3>2. /\ handlers[j + 1].op = "shutdown" => life[handlers[j + 1].proxy] \in {"ended", "deleted"}
            /\ handlers[j + 1].op = "remove" => life[handlers[j + 1].proxy] = "deleted"
        BY <2>1, Zenon DEF PhaseInv
      <3>3. QED
        BY <1>2, <1>3, <2>1, <3>1, <3>2 DEF PhasesKept
    <2>2. CASE /\ handlers'[j].op \notin Orders
               /\ handlers'[j].op = "remove" => handlers'[j].proxy = q /\ life'[q] = "deleted"
      BY <2>2 DEF Orders
    <2>3. QED
      BY <1>1, <2>1, <2>2
  <1>6. \A r \in connecting' : life'[r] = "accepted"
    BY DEF PhaseInv, AcceptorInv, PromiseInv, PhasesKept
  <1>7. QED
    BY <1>4, <1>5, <1>6, Zenon DEF PhaseInv

(* The phases, when one handler has been posted or none: it is of a proxy  *)
(* that was in an earlier phase.                                           *)
LEMMA PhaseMovesOn ==
  ASSUME AcceptorInv, PhaseInv, NEW p \in Proxies, NEW l \in {"accepted", "relaying", "ended", "deleted"},
         life' = [life EXCEPT ![p] = l],
         \/ life[p] = "listening" /\ l = "accepted"
         \/ life[p] = "accepted" /\ p \in connecting /\ l \in {"relaying", "deleted"}
         \/ life[p] = "relaying" /\ l = "ended",
         connecting' = IF p \in connecting THEN {} ELSE connecting,
         handlers' = handlers
           \/ \E h \in {Handler("connect", p), Handler("remove", p), Handler("shutdown", p)} :
                /\ handlers' = Append(handlers, h)
                /\ h.op = "connect" => l = "accepted"
                /\ h.op = "shutdown" => l = "ended"
                /\ h.op = "remove" => l = "deleted"
  PROVE  PhaseInv'
  <1>1. \A j \in DOMAIN handlers' :
          \/ j \in DOMAIN handlers /\ handlers'[j] = handlers[j]
          \/ /\ j = Len(handlers) + 1 /\ handlers'[j].proxy = p
             /\ handlers'[j].op = "connect" => l = "accepted"
             /\ handlers'[j].op = "shutdown" => l = "ended"
             /\ handlers'[j].op = "remove" => l = "deleted"
    <2>1. CASE handlers' = handlers
      BY <2>1
    <2>2. ASSUME NEW h \in {Handler("connect", p), Handler("remove", p), Handler("shutdown", p)},
                 handlers' = Append(handlers, h)
          PROVE  \A j \in DOMAIN handlers' :
                   \/ j \in DOMAIN handlers /\ handlers'[j] = handlers[j]
                   \/ j = Len(handlers) + 1 /\ handlers'[j] = h /\ h.proxy = p
      <3>1. h \in HandlerRecords /\ h.proxy = p
        BY HandlerTyped DEF Ops, Handler
      <3>2. QED
        BY <2>2, <3>1, PostQueue DEF AcceptorInv
    <2>3. QED
      BY <2>1, <2>2
  <1>2. \A i \in DOMAIN handlers : handlers[i].op \in {"connect", "shutdown", "remove"} =>
          handlers[i].proxy \in Proxies
    BY DEF AcceptorInv, PromiseInv, PhaseInv
  <1>3. life'[p] = l /\ \A r \in Proxies : r # p => life'[r] = life[r]
    BY DEF AcceptorInv, ServiceTypes
  <1>4. ASSUME NEW i \in DOMAIN handlers
        PROVE  LET r == handlers[i].proxy
               IN  /\ handlers[i].op = "connect" => life'[r] = "accepted" /\ r \notin connecting' /\ r # p
                   /\ handlers[i].op = "shutdown" => life'[r] \in {"ended", "deleted"}
                   /\ handlers[i].op = "remove" => r \in Proxies /\ life'[r] = "deleted"
    <2>1. LET r == handlers[i].proxy
          IN  /\ handlers[i].op = "connect" => life[r] = "accepted" /\ r \notin connecting
              /\ handlers[i].op = "shutdown" => life[r] \in {"ended", "deleted"}
              /\ handlers[i].op = "remove" => r \in Proxies /\ life[r] = "deleted"
      BY Zenon DEF PhaseInv
    <2>2. QED
      BY <1>2, <1>3, <2>1
  <1>5. \A j \in DOMAIN handlers' :
          LET r == handlers'[j].proxy
          IN  /\ handlers'[j].op = "connect" => life'[r] = "accepted" /\ r \notin connecting'
              /\ handlers'[j].op = "shutdown" => life'[r] \in {"ended", "deleted"}
              /\ handlers'[j].op = "remove" => r \in Proxies /\ life'[r] = "deleted"
    BY <1>1, <1>3, <1>4
  <1>6. \A i, j \in DOMAIN handlers' :
          handlers'[i].op = "connect" /\ handlers'[i] = handlers'[j] => i = j
    <2>1. \A i, j \in DOMAIN handlers :
            handlers[i].op = "connect" /\ handlers[i] = handlers[j] => i = j
      BY Zenon DEF PhaseInv
    <2>2. QED
      BY <1>1, <1>4, <2>1
  <1>7. \A r \in connecting' : life'[r] = "accepted"
    BY <1>3 DEF PhaseInv, AcceptorInv, PromiseInv
  <1>8. QED
    BY <1>5, <1>6, <1>7, Zenon DEF PhaseInv

LEMMA AcceptLists ==
  ASSUME ManagerInv, AcceptorInv', NEW p \in Proxies, AcceptImpl(p)
  PROVE  PhaseInv' /\ ListInv'
  <1> DEFINE posts == <<Handler("add", p)>>
  <1>1. /\ Runs("accept", Nobody, posts) /\ life[p] = "unused"
        /\ life' = [life EXCEPT ![p] = "listening"]
        /\ UNCHANGED <<connecting, list>>
    BY DEF AcceptImpl
  <1>2. "accept" \in Ops /\ Nobody \in Proxies \cup {Nobody}
    BY DEF Ops
  <1>3. Ran("accept", Nobody, posts)
    BY <1>1, <1>2, RunQueue DEF ManagerInv, AcceptorInv
  <1>4. /\ life'[p] = "listening" /\ \A r \in Proxies : r # p => life'[r] = life[r]
    BY <1>1 DEF ManagerInv, AcceptorInv, ServiceTypes
  <1>5. posts # <<Handler("remove", p)>>
    BY DEF Handler
  <1>6. PhaseInv'
    <2>1. PhasesKept
      BY <1>1, <1>4 DEF PhasesKept
    <2>2. AcceptorInv /\ PhaseInv /\ connecting' = connecting
      BY <1>1 DEF ManagerInv
    <2>3. posts \in {<<>>, <<Handler("add", p)>>, <<Handler("remove", p)>>}
      OBVIOUS
    <2>4. QED
      BY <1>2, <1>3, <1>5, <2>1, <2>2, <2>3, PhaseAfterRun, Zenon
  <1>7. Queued(Handler("add", p))'
    BY <1>3, Zenon DEF Ran
  <1>8. \A r \in Proxies : Queued(Handler("add", r)) => Queued(Handler("add", r))'
    <2>1. \A r : Handler("add", r) # Handler("accept", Nobody)
      BY DEF Handler
    <2>2. QED
      BY <1>3, <2>1, Zenon DEF Ran
  <1>9. \A r \in Proxies : Live(r)' => r = p \/ Live(r)
    BY <1>4 DEF Live
  <1>10. ListInv' 
    BY <1>1, <1>7, <1>8, <1>9, Zenon DEF ManagerInv, ListInv, Listed
  <1>11. QED
    BY <1>6, <1>10

LEMMA AddLists ==
  ASSUME ManagerInv, AcceptorInv', NEW p \in Proxies, AddProxy(p)
  PROVE  PhaseInv' /\ ListInv'
  <1>1. /\ Runs("add", p, <<>>) /\ list' = Append(list, p)
        /\ UNCHANGED <<connecting, life>>
    BY DEF AddProxy
  <1>2. "add" \in Ops /\ p \in Proxies \cup {Nobody} /\ <<>> # <<Handler("remove", p)>>
    BY DEF Ops
  <1>3. Ran("add", p, <<>>)
    BY <1>1, <1>2, RunQueue DEF ManagerInv, AcceptorInv
  <1>4. PhaseInv'
    <2>1. PhasesKept
      BY <1>1 DEF PhasesKept
    <2>2. AcceptorInv /\ PhaseInv /\ connecting' = connecting
      BY <1>1 DEF ManagerInv
    <2>3. <<>> \in {<<>>, <<Handler("add", p)>>, <<Handler("remove", p)>>}
      OBVIOUS
    <2>4. QED
      BY <1>2, <1>3, <2>1, <2>2, <2>3, PhaseAfterRun, Zenon
  <1>5. list' \in Seq(Proxies) /\ Listed(p)' /\ \A r \in Proxies : Listed(r) => Listed(r)'
    BY <1>1 DEF ManagerInv, ListInv, Listed
  <1>6. \A r \in Proxies : Queued(Handler("add", r)) => r = p \/ Queued(Handler("add", r))'
    <2>1. \A r : Handler("add", r) = Handler("add", p) => r = p
      BY DEF Handler
    <2>2. QED
      BY <1>3, <2>1, Zenon DEF Ran
  <1>7. \A r \in Proxies : Live(r)' => Live(r)
    BY <1>1 DEF Live
  <1>8. ListInv'
    BY <1>5, <1>6, <1>7, Zenon DEF ManagerInv, ListInv
  <1>9. QED
    BY <1>4, <1>8

(* Others stay in the list, although remove_if leaves it as long as it was.*)
LEMMA RemoveLists ==
  ASSUME ManagerInv, AcceptorInv', NEW p \in Proxies, RemoveProxy(p)
  PROVE  PhaseInv' /\ ListInv'
  <1>1. /\ Runs("remove", p, <<>>) /\ list' = RemovedFromList(list, p)
        /\ UNCHANGED <<connecting, life>>
    BY DEF RemoveProxy
  <1>2. "remove" \in Ops /\ p \in Proxies \cup {Nobody} /\ <<>> # <<Handler("remove", p)>>
    BY DEF Ops
  <1>3. Ran("remove", p, <<>>)
    BY <1>1, <1>2, RunQueue DEF ManagerInv, AcceptorInv
  <1>4. PhaseInv'
    <2>1. PhasesKept
      BY <1>1 DEF PhasesKept
    <2>2. AcceptorInv /\ PhaseInv /\ connecting' = connecting
      BY <1>1 DEF ManagerInv
    <2>3. <<>> \in {<<>>, <<Handler("add", p)>>, <<Handler("remove", p)>>}
      OBVIOUS
    <2>4. QED
      BY <1>2, <1>3, <2>1, <2>2, <2>3, PhaseAfterRun, Zenon
  <1>5. life[p] = "deleted"
    <2>1. 1 \in DOMAIN handlers /\ handlers[1].op = "remove" /\ handlers[1].proxy = p
      BY <1>3 DEF Ran, Handler
    <2>2. QED
      BY <2>1, Zenon DEF ManagerInv, PhaseInv
  <1>6. list' \in Seq(Proxies) /\ \A r \in Proxies : r # p => (Listed(r) => Listed(r)')
    <2> DEFINE kept == {i \in DOMAIN list : ~(list[i] = p)}
    <2>1. list' = MovedForward(list, kept) /\ list \in Seq(Proxies)
      BY <1>1 DEF RemovedFromList, RemoveIf, ManagerInv, ListInv
    <2>2. kept \in SUBSET DOMAIN list
      OBVIOUS
    <2>3. /\ list' \in Seq(Proxies)
          /\ \A i \in kept : \E k \in DOMAIN list' : list'[k] = list[i]
      BY <2>1, <2>2, MovedForwardFacts, Zenon
    <2>4. QED
      BY <2>3, Zenon DEF Listed
  <1>7. \A r \in Proxies : Queued(Handler("add", r)) => Queued(Handler("add", r))'
    <2>1. \A r : Handler("add", r) # Handler("remove", p)
      BY DEF Handler
    <2>2. QED
      BY <1>3, <2>1, Zenon DEF Ran
  <1>8. \A r \in Proxies : Live(r)' => Live(r) /\ r # p
    BY <1>1, <1>5 DEF Live
  <1>9. ListInv'
    BY <1>6, <1>7, <1>8, Zenon DEF ManagerInv, ListInv
  <1>10. QED
    BY <1>4, <1>9

LEMMA ConnectLists ==
  ASSUME ManagerInv, AcceptorInv', NEW p \in Proxies, ConnectToServer(p)
  PROVE  PhaseInv' /\ ListInv'
  <1>1. /\ Runs("connect", p, <<>>) /\ connecting' = {p}
        /\ UNCHANGED <<list, life>>
    BY DEF ConnectToServer
  <1>2. "connect" \in Ops /\ p \in Proxies \cup {Nobody} /\ <<>> # <<Handler("remove", p)>>
    BY DEF Ops
  <1>3. Ran("connect", p, <<>>)
    BY <1>1, <1>2, RunQueue DEF ManagerInv, AcceptorInv
  <1>4. life[p] = "accepted"
    <2>1. 1 \in DOMAIN handlers /\ handlers[1].op = "connect" /\ handlers[1].proxy = p
      BY <1>3 DEF Ran, Handler
    <2>2. QED
      BY <2>1, Zenon DEF ManagerInv, PhaseInv
  <1>5. PhaseInv'
    <2>1. PhasesKept
      BY <1>1 DEF PhasesKept
    <2>2. AcceptorInv /\ PhaseInv
      BY DEF ManagerInv
    <2>3. <<>> \in {<<>>, <<Handler("add", p)>>, <<Handler("remove", p)>>}
      OBVIOUS
    <2>4. QED
      BY <1>1, <1>2, <1>3, <1>4, <2>1, <2>2, <2>3, PhaseAfterRun, Zenon
  <1>6. \A r \in Proxies : Queued(Handler("add", r)) => Queued(Handler("add", r))'
    <2>1. \A r : Handler("add", r) # Handler("connect", p)
      BY DEF Handler
    <2>2. QED
      BY <1>3, <2>1, Zenon DEF Ran
  <1>7. ListInv'
    BY <1>1, <1>6, Zenon DEF ManagerInv, ListInv, Listed, Live
  <1>8. QED
    BY <1>5, <1>7

LEMMA ShutdownLists ==
  ASSUME ManagerInv, AcceptorInv', NEW p \in Proxies, Shutdown(p)
  PROVE  PhaseInv' /\ ListInv'
  <1> DEFINE posts == <<Handler("remove", p)>>
  <1>1. /\ Runs("shutdown", p, posts) /\ life' = [life EXCEPT ![p] = "deleted"]
        /\ UNCHANGED <<list, connecting>>
    BY DEF Shutdown, Delete
  <1>2. "shutdown" \in Ops /\ p \in Proxies \cup {Nobody}
    BY DEF Ops
  <1>3. Ran("shutdown", p, posts)
    BY <1>1, <1>2, RunQueue DEF ManagerInv, AcceptorInv
  <1>4. life[p] \in {"ended", "deleted"}
    <2>1. 1 \in DOMAIN handlers /\ handlers[1].op = "shutdown" /\ handlers[1].proxy = p
      BY <1>3 DEF Ran, Handler
    <2>2. QED
      BY <2>1, Zenon DEF ManagerInv, PhaseInv
  <1>5. life'[p] = "deleted" /\ \A r \in Proxies : r # p => life'[r] = life[r]
    BY <1>1 DEF ManagerInv, AcceptorInv, ServiceTypes
  <1>6. PhaseInv'
    <2>1. PhasesKept
      BY <1>4, <1>5 DEF PhasesKept
    <2>2. AcceptorInv /\ PhaseInv /\ connecting' = connecting
      BY <1>1 DEF ManagerInv
    <2>3. posts \in {<<>>, <<Handler("add", p)>>, <<Handler("remove", p)>>}
      OBVIOUS
    <2>4. QED
      BY <1>2, <1>3, <1>5, <2>1, <2>2, <2>3, PhaseAfterRun, Zenon
  <1>7. \A r \in Proxies : Queued(Handler("add", r)) => Queued(Handler("add", r))'
    <2>1. \A r : Handler("add", r) # Handler("shutdown", p)
      BY DEF Handler
    <2>2. QED
      BY <1>3, <2>1, Zenon DEF Ran
  <1>8. \A r \in Proxies : Live(r)' => Live(r)
    BY <1>5 DEF Live
  <1>9. ListInv'
    BY <1>1, <1>7, <1>8, Zenon DEF ManagerInv, ListInv, Listed
  <1>10. QED
    BY <1>6, <1>9

(* A proxy that moves on stays in the list; one that ends need not be.     *)
LEMMA MovesOnLists ==
  ASSUME ManagerInv, AcceptorInv', NEW p \in Proxies,
         \/ HandshakeDone(p) \/ HandshakeFails(p) \/ ClientConnects(p) \/ ConnectionEnds(p)
  PROVE  PhaseInv' /\ ListInv'
  <1>1. /\ AcceptorInv /\ PhaseInv /\ ListInv /\ UNCHANGED list
        /\ p \in connecting => life[p] = "accepted"
    BY DEF ManagerInv, PhaseInv, HandshakeDone, HandshakeFails, ClientConnects, ConnectionEnds
  <1>2. /\ "connect" \in Ops /\ "remove" \in Ops /\ "shutdown" \in Ops
        /\ \A op \in Ops : Handler(op, p) \in HandlerRecords /\ Handler(op, p).op = op
    BY HandlerTyped DEF Ops, Handler
  <1> DEFINE Kept == /\ \A h : Queued(h) => Queued(h)'
                     /\ \A r \in Proxies : Live(r)' => Live(r)
  <1>3. Kept => ListInv'
    BY <1>1, Zenon DEF ListInv, Listed
  <1>4. \A op \in Ops : handlers' = Append(handlers, Handler(op, p)) =>
          \A h : Queued(h) => Queued(h)'
    BY <1>1, <1>2, PostQueue, Zenon DEF AcceptorInv
  <1>5. \A l \in {"accepted", "relaying", "ended", "deleted"} :
          life' = [life EXCEPT ![p] = l] /\ Live(p) => \A r \in Proxies : Live(r)' => Live(r)
    BY <1>1 DEF Live, AcceptorInv, ServiceTypes
  <1>6. CASE HandshakeDone(p)
    <2>1. /\ p \in connecting /\ connecting' = {} /\ UNCHANGED handlers
          /\ life' = [life EXCEPT ![p] = "relaying"]
      BY <1>6 DEF HandshakeDone
    <2>2. PhaseInv'
      BY <1>1, <2>1, PhaseMovesOn
    <2>3. Kept
      BY <1>1, <1>5, <2>1 DEF Queued, Live
    <2>4. QED
      BY <1>3, <2>2, <2>3
  <1>7. CASE HandshakeFails(p)
    <2>1. /\ p \in connecting /\ connecting' = {} 
          /\ handlers' = Append(handlers, Handler("remove", p))
          /\ life' = [life EXCEPT ![p] = "deleted"]
      BY <1>7 DEF HandshakeFails, Delete
    <2>2. PhaseInv'
      BY <1>1, <1>2, <2>1, PhaseMovesOn
    <2>3. Kept
      BY <1>1, <1>2, <1>4, <1>5, <2>1 DEF Live
    <2>4. QED
      BY <1>3, <2>2, <2>3
  <1>8. CASE ClientConnects(p)
    <2>1. /\ life[p] = "listening" /\ UNCHANGED connecting
          /\ handlers' = Append(handlers, Handler("connect", p))
          /\ life' = [life EXCEPT ![p] = "accepted"]
      BY <1>8 DEF ClientConnects
    <2>2. p \notin connecting
      BY <1>1, <2>1
    <2>3. PhaseInv'
      BY <1>1, <1>2, <2>1, <2>2, PhaseMovesOn
    <2>4. Kept
      BY <1>1, <1>2, <1>4, <1>5, <2>1 DEF Live
    <2>5. QED
      BY <1>3, <2>3, <2>4
  <1>9. CASE ConnectionEnds(p)
    <2>1. /\ life[p] = "relaying" /\ UNCHANGED connecting
          /\ handlers' = Append(handlers, Handler("shutdown", p))
          /\ life' = [life EXCEPT ![p] = "ended"]
      BY <1>9 DEF ConnectionEnds
    <2>2. p \notin connecting
      BY <1>1, <2>1
    <2>3. PhaseInv'
      BY <1>1, <1>2, <2>1, <2>2, PhaseMovesOn
    <2>4. Kept
      BY <1>1, <1>2, <1>4, <1>5, <2>1 DEF Live
    <2>5. QED
      BY <1>3, <2>3, <2>4
  <1>10. QED
    BY <1>6, <1>7, <1>8, <1>9

(* The steps that touch neither the queue nor a life.                      *)
LEMMA OthersLists ==
  ASSUME ManagerInv, UNCHANGED <<connecting, life, list>>,
         \/ UNCHANGED handlers
         \/ handlers' = Append(handlers, Handler("accept", Nobody))
  PROVE  PhaseInv' /\ ListInv'
  <1>1. AcceptorInv /\ PhaseInv /\ ListInv
    BY DEF ManagerInv
  <1>2. /\ \A h : Queued(h) => Queued(h)'
        /\ \A j \in DOMAIN handlers' :
             \/ j \in DOMAIN handlers /\ handlers'[j] = handlers[j]
             \/ handlers'[j].op = "accept"
    <2>1. CASE UNCHANGED handlers
      BY <2>1 DEF Queued
    <2>2. CASE handlers' = Append(handlers, Handler("accept", Nobody))
      <3>1. /\ Handler("accept", Nobody) \in HandlerRecords
            /\ Handler("accept", Nobody).op = "accept"
        BY HandlerTyped DEF Ops, Handler
      <3>2. QED
        BY <1>1, <2>2, <3>1, PostQueue, Zenon DEF AcceptorInv
    <2>3. QED
      BY <2>1, <2>2
  <1>3. ListInv'
    BY <1>1, <1>2, Zenon DEF ListInv, Listed, Live
  <1>4. PhaseInv'
    BY <1>1, <1>2 DEF PhaseInv
  <1>5. QED
    BY <1>3, <1>4

LEMMA ManagerInductive == ManagerInv /\ [Next]_vars => ManagerInv'
  <1> SUFFICES ASSUME ManagerInv, [Next]_vars PROVE ManagerInv'
    OBVIOUS
  <1>1. AcceptorInv'
    BY AcceptorInductive DEF ManagerInv
  <1>2. service' \in {"running", "stopped"} /\ m_bAcceptProxy' \in BOOLEAN
    BY DEF ManagerInv, Next, ServiceStep, WaiterStep, vars, AcceptImpl, AddProxy, RemoveProxy,
       ConnectToServer, HandshakeDone, HandshakeFails, Shutdown, ServiceStops, GetFuture,
       AcceptNext, ClientConnects, ConnectionEnds, StopAccept, MainWaits
  <1>3. PhaseInv' /\ ListInv'
    <2>1. CASE ServiceStops \/ StopAccept \/ MainWaits \/ UNCHANGED vars
      BY <2>1, OthersLists DEF ServiceStops, StopAccept, MainWaits, vars
    <2>2. ASSUME NEW p \in Proxies, WaiterStep(p) PROVE PhaseInv' /\ ListInv'
      BY <2>2, OthersLists DEF WaiterStep, GetFuture, AcceptNext
    <2>3. QED
      BY <1>1, <2>1, <2>2, AcceptLists, AddLists, RemoveLists, ConnectLists, ShutdownLists,
         MovesOnLists DEF Next, ServiceStep
  <1>4. QED
    BY <1>1, <1>2, <1>3 DEF ManagerInv

LEMMA ManagerCorrect == Spec => []ManagerInv
  <1>1. Init => ManagerInv
    <2> SUFFICES ASSUME Init PROVE ManagerInv
      OBVIOUS
    <2>1. AcceptorInv
      BY AcceptorInit
    <2>2. DOMAIN handlers = {1} /\ handlers[1].op = "accept"
      BY DEF Init, Handler
    <2>3. PhaseInv /\ ListInv
      BY <2>2 DEF Init, PhaseInv, ListInv, Live
    <2>4. QED
      BY <2>1, <2>3 DEF Init, ManagerInv
  <1>2. QED
    BY <1>1, ManagerInductive, PTL DEF Spec

(* The io_service, the threads and the list keep their types: in           *)
(* particular a handler is never run for a proxy that does not exist.      *)
THEOREM TypeCorrect == Spec => []TypeOK
  <1>1. ManagerInv => TypeOK
    <2> SUFFICES ASSUME ManagerInv PROVE TypeOK
      OBVIOUS
    <2>1. connecting \in SUBSET Proxies
      BY DEF ManagerInv, AcceptorInv, PromiseInv
    <2>2. QED
      BY <2>1 DEF ManagerInv, AcceptorInv, ServiceTypes, ListInv, TypeOK, HandlerRecords
  <1>2. QED
    BY <1>1, ManagerCorrect, PTL

(* No live proxy is ever lost from the list or the queue of additions,     *)
(* however many have been removed with remove_if, for any set of proxies   *)
(* (AddProxy, RemoveProxy, the destructor of CProxy).                      *)
THEOREM LiveListedCorrect == Spec => []LiveProxiesListed
  <1>1. ManagerInv => LiveProxiesListed
    BY Zenon DEF ManagerInv, ListInv, LiveProxiesListed, Live, Listed, Queued
  <1>2. QED
    BY <1>1, ManagerCorrect, PTL
===============================================================================
