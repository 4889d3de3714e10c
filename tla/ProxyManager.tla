----------------------------- MODULE ProxyManager -----------------------------
(***************************************************************************)
(* CProxyManager (ProxyManager.cpp), the io_service main() runs it on, and *)
(* the life of a CProxy as far as the manager sees it: listening for one   *)
(* client, connecting to the server, relaying, deleted.  Every proxy comes *)
(* with a thread (boost::async) that waits for its promise, which is set   *)
(* when its client has been accepted, and then posts the next AcceptImpl.  *)
(*                                                                         *)
(* The io_service is external: it runs posted handlers one at a time, in   *)
(* order, while there is a handler or an asynchronous operation; then      *)
(* run() returns, and since main() never resets the service, every later   *)
(* run() returns at once.                                                  *)
(***************************************************************************)
EXTENDS Algorithm

CONSTANT Proxies    \* addresses of CProxy objects (model bound: each once)

VARIABLES
  service,    \* "running" or "stopped"
  handlers,   \* posted handlers, oldest first: [op, proxy]
  connecting, \* the proxies whose ConnectToServer is being run (at most one)
  life,       \* life[p]: of the CProxy at p
  promise,    \* promise[p]: of the promise<void> p owns
  waiter,     \* waiter[p]: the async thread of p
  list,       \* m_vProxyList
  m_bAcceptProxy
vars == <<service, handlers, connecting, life, promise, waiter, list, m_bAcceptProxy>>

Ops == {"accept", "add", "remove", "connect", "shutdown"}
Nobody == "nobody"
Handler(op, p) == [op |-> op, proxy |-> p]

TypeOK ==
  /\ service \in {"running", "stopped"}
  /\ handlers \in Seq([op : Ops, proxy : Proxies \cup {Nobody}])
  /\ connecting \in SUBSET Proxies
  /\ life \in [Proxies -> {"unused", "listening", "accepted", "relaying", "ended", "deleted"}]
  /\ promise \in [Proxies -> {"unset", "set", "deleted"}]
  /\ waiter \in [Proxies -> {"none", "started", "waiting", "done"}]
  /\ list \in Seq(Proxies)
  /\ m_bAcceptProxy \in BOOLEAN

(* StartAccept calls AcceptImpl before main() enters run(): the same as a  *)
(* first handler.                                                          *)
Init ==
  /\ service = "running"
  /\ handlers = <<Handler("accept", Nobody)>>
  /\ connecting = {}
  /\ life = [p \in Proxies |-> "unused"]
  /\ promise = [p \in Proxies |-> "unset"]
  /\ waiter = [p \in Proxies |-> "none"]
  /\ list = <<>>
  /\ m_bAcceptProxy = TRUE

-------------------------------------------------------------------------------
(* The service runs the oldest handler unless it is busy in one; the       *)
(* handler may post others.                                                *)
Runs(op, p, posts) ==
  /\ service = "running" /\ connecting = {}
  /\ handlers # <<>> /\ Head(handlers) = Handler(op, p)
  /\ handlers' = Tail(handlers) \o posts

AcceptImpl(p) ==
  /\ Runs("accept", Nobody, <<Handler("add", p)>>)
  /\ life[p] = "unused"
  /\ life' = [life EXCEPT ![p] = "listening"]
  /\ waiter' = [waiter EXCEPT ![p] = "started"]
  /\ UNCHANGED <<service, connecting, promise, list, m_bAcceptProxy>>

AddProxy(p) ==
  /\ Runs("add", p, <<>>)
  /\ list' = Append(list, p)
  /\ UNCHANGED <<service, connecting, life, promise, waiter, m_bAcceptProxy>>

(* Mutant: the latest entry is removed.                                    *)
RemovedLast(s, p) == SubSeq(s, 1, Len(s) - 1)

(* std::remove_if alone leaves the vector as long as it was.               *)
RemovedFromList(s, p) == RemoveIf(s, LAMBDA q : q = p)

RemoveProxy(p) ==
  /\ Runs("remove", p, <<>>)
  /\ list' = RemovedFromList(list, p)
  /\ UNCHANGED <<service, connecting, life, promise, waiter, m_bAcceptProxy>>

(* A client connects, or accepting fails: the completion is queued.        *)
ClientConnects(p) ==
  /\ life[p] = "listening"
  /\ life' = [life EXCEPT ![p] = "accepted"]
  /\ handlers' = Append(handlers, Handler("connect", p))
  /\ UNCHANGED <<service, connecting, promise, waiter, list, m_bAcceptProxy>>

(* Mutant of ConnectToServer: the waiter is never told.                    *)
ConnectToServerUntold(p) ==
  /\ Runs("connect", p, <<>>)
  /\ connecting' = {p}
  /\ UNCHANGED <<service, life, promise, waiter, list, m_bAcceptProxy>>

(* ConnectToServer tells the waiter first, and then occupies the service   *)
(* thread until the server has been reached and has sent its handshake.    *)
ConnectToServer(p) ==
  /\ Runs("connect", p, <<>>)
  /\ promise' = [promise EXCEPT ![p] = "set"]
  /\ connecting' = {p}
  /\ UNCHANGED <<service, life, waiter, list, m_bAcceptProxy>>

HandshakeDone(p) ==
  /\ p \in connecting
  /\ connecting' = {}
  /\ life' = [life EXCEPT ![p] = "relaying"]
  /\ UNCHANGED <<service, handlers, promise, waiter, list, m_bAcceptProxy>>

(* Shutdown and the destructor of CProxy, which asks the manager to forget *)
(* the proxy and deletes the promise.                                      *)
Delete(p) ==
  /\ life' = [life EXCEPT ![p] = "deleted"]
  /\ promise' = [promise EXCEPT ![p] = "deleted"]

HandshakeFails(p) ==
  /\ p \in connecting
  /\ connecting' = {}
  /\ Delete(p)
  /\ handlers' = Append(handlers, Handler("remove", p))
  /\ UNCHANGED <<service, waiter, list, m_bAcceptProxy>>

(* The first receive thread that finds its connection closed posts         *)
(* Shutdown.  The other one posts its own when it notices: that second      *)
(* call belongs to the life of the proxy object and is not modelled here.   *)
ConnectionEnds(p) ==
  /\ life[p] = "relaying"
  /\ life' = [life EXCEPT ![p] = "ended"]
  /\ handlers' = Append(handlers, Handler("shutdown", p))
  /\ UNCHANGED <<service, connecting, promise, waiter, list, m_bAcceptProxy>>

Shutdown(p) ==
  /\ Runs("shutdown", p, <<Handler("remove", p)>>)
  /\ Delete(p)
  /\ UNCHANGED <<service, connecting, waiter, list, m_bAcceptProxy>>

(* The async thread asks the promise for its future; if the proxy is gone  *)
(* already this reads a deleted object, and the thread may get no further. *)
GetFuture(p) ==
  /\ waiter[p] = "started"
  /\ waiter' \in {[waiter EXCEPT ![p] = w] :
       w \in IF promise[p] = "deleted" THEN {"waiting", "done"} ELSE {"waiting"}}
  /\ UNCHANGED <<service, handlers, connecting, life, promise, list, m_bAcceptProxy>>

(* Mutant of PromiseKept: the thread does not wait for the promise.        *)
PromiseIgnored(p) == p \in Proxies

PromiseKept(p) == promise[p] # "unset"

AcceptNext(p) ==
  /\ waiter[p] = "waiting"
  /\ PromiseKept(p)
  /\ waiter' = [waiter EXCEPT ![p] = "done"]
  /\ handlers' = IF m_bAcceptProxy THEN Append(handlers, Handler("accept", Nobody))
                 ELSE handlers
  /\ UNCHANGED <<service, connecting, life, promise, list, m_bAcceptProxy>>

StopAccept ==
  /\ m_bAcceptProxy' = FALSE
  /\ UNCHANGED <<service, handlers, connecting, life, promise, waiter, list>>

(* run() returns when there is nothing left to do, and it stays that way.  *)
OutOfWork ==
  /\ connecting = {} /\ handlers = <<>>
  /\ \A p \in Proxies : life[p] # "listening"

ServiceStops ==
  /\ service = "running" /\ OutOfWork
  /\ service' = "stopped"
  /\ UNCHANGED <<handlers, connecting, life, promise, waiter, list, m_bAcceptProxy>>

(* while (true) service.run(), on a stopped service or with nothing to do  *)
(* until a client comes or a connection ends.                              *)
MainWaits == UNCHANGED vars

-------------------------------------------------------------------------------
ServiceStep ==
  \/ \E p \in Proxies :
       \/ AcceptImpl(p) \/ AddProxy(p) \/ RemoveProxy(p) \/ ConnectToServer(p)
       \/ HandshakeDone(p) \/ HandshakeFails(p) \/ Shutdown(p)
  \/ ServiceStops

WaiterStep(p) == GetFuture(p) \/ AcceptNext(p)

Next ==
  \/ ServiceStep
  \/ \E p \in Proxies : WaiterStep(p) \/ ClientConnects(p) \/ ConnectionEnds(p)
  \/ StopAccept
  \/ MainWaits

(* The service thread and the async threads are scheduled, and a server    *)
(* that is connected to answers or hangs up.  Clients come as they like.   *)
Fairness == WF_vars(ServiceStep) /\ \A p \in Proxies : WF_vars(WaiterStep(p))

Spec == Init /\ [][Next]_vars /\ Fairness

-------------------------------------------------------------------------------
Listening == {p \in Proxies : life[p] = "listening"}
Posted(op) == {i \in DOMAIN handlers : handlers[i].op = op}

(* There is never a second proxy waiting for a client, posted or started:  *)
(* the next one is asked for once, and only when the last one has its      *)
(* client (AcceptImpl, the promise, ConnectToServer).                      *)
OneAcceptor == Cardinality(Listening) + Cardinality(Posted("accept")) <= 1

(* A proxy that is alive is in the list, or about to be put there, so that *)
(* Clear reaches it; removing others never loses it.                       *)
LiveProxiesListed ==
  \A p \in Proxies : life[p] \notin {"unused", "deleted"} =>
    \/ \E i \in DOMAIN list : list[i] = p
    \/ \E i \in DOMAIN handlers : handlers[i] = Handler("add", p)

(* While accepting is not stopped, an accepted client is followed by a     *)
(* proxy that listens for the next one, or at least by the request for it, *)
(* unless the async thread comes too late to find the promise.             *)
ListensAgain ==
  \A p \in Proxies :
    life[p] = "accepted" ~> \/ Listening # {} \/ Posted("accept") # {}
                            \/ ~m_bAcceptProxy
                            \/ waiter[p] = "started" /\ promise[p] = "deleted"

AddressesLeft == \E p \in Proxies : life[p] = "unused"

(* ProxyManager.h on StartAccept: "Wait for clients."  There is always     *)
(* again a proxy that listens, as long as nobody calls StopAccept.         *)
WaitsForClients ==
  []<>(Listening # {} \/ ~m_bAcceptProxy \/ ~AddressesLeft)
===============================================================================
