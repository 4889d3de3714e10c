------------------------------- MODULE Emulator -------------------------------
(***************************************************************************)
(* CEmulator (Emulator.cpp): one launcher at a time is connected to the    *)
(* server list, and what either side sends is passed on to the other.      *)
(* Everything runs in the handlers of asynchronous operations on one       *)
(* service thread, and the same two socket objects serve one session after *)
(* another, so the question is what a late completion does to a session    *)
(* that is not its own.                                                    *)
(*                                                                         *)
(* boost::asio is external: an operation completes once, and its handler   *)
(* is queued and run in that order.  cancel and close complete what is     *)
(* outstanding with an error, at once; a read from a socket that is not    *)
(* open, and an accept into one that is, fail at once as well.             *)
(***************************************************************************)
EXTENDS Integers, Sequences, FiniteSets, SequencesExt

CONSTANTS MaxSessions,  \* launchers that connect at most (model bound)
          MaxReads      \* successful reads in all (model bound)
ASSUME MaxAssumption == MaxSessions \in Nat /\ MaxReads \in Nat

Sides == {"client", "server"}
Other(side) == IF side = "client" THEN "server" ELSE "client"
Ops == Sides \cup {"accept"}

VARIABLES
  outstanding,  \* outstanding[op]: accepts, or reads on that side's socket
  queue,        \* completions whose handlers are to be run: [op, ok, session]
  open,         \* open[side]: m_Socket ("client") and m_Server ("server")
  session,      \* session[side]: the session that socket was opened for
  sessions,     \* sessions accepted so far
  reads,        \* successful reads so far
  passed,       \* what has been passed on: [from, to, no]
  unreachable   \* ConnectToSL has failed
vars == <<outstanding, queue, open, session, sessions, reads, passed, unreachable>>

Completion == [op : Ops, ok : BOOLEAN, session : Nat, no : Nat]
Done(op, ok, s, no) == [op |-> op, ok |-> ok, session |-> s, no |-> no]
Failed(op) == Done(op, FALSE, 0, 0)

(* At most one accept and one read per socket, and so per buffer, at once. *)
TypeOK ==
  /\ outstanding \in [Ops -> 0..1]
  /\ queue \in Seq(Completion)
  /\ open \in [Sides -> BOOLEAN]
  /\ session \in [Sides -> 0..MaxSessions]
  /\ sessions \in 0..MaxSessions /\ reads \in 0..MaxReads
  /\ passed \in Seq([from : 0..MaxSessions, to : 0..MaxSessions, no : 1..MaxReads])
  /\ unreachable \in BOOLEAN

(* RunEmulator has called Listen.                                          *)
Init ==
  /\ outstanding = [op \in Ops |-> IF op = "accept" THEN 1 ELSE 0]
  /\ queue = <<>>
  /\ open = [side \in Sides |-> FALSE]
  /\ session = [side \in Sides |-> 0]
  /\ sessions = 0 /\ reads = 0
  /\ passed = <<>>
  /\ unreachable = FALSE

-------------------------------------------------------------------------------
(* The asynchronous operations and their cancellation, on the outstanding  *)
(* ones and the queue, as a pair.                                          *)
State(o, q) == [outstanding |-> o, queue |-> q]

(* Cancelled: every operation of the given sides completes with an error,  *)
(* the server's first, as CLIENT_OnClose cancels.                          *)
Aborted(state, side) ==
  State([state.outstanding EXCEPT ![side] = 0],
        state.queue \o [i \in 1..state.outstanding[side] |-> Failed(side)])

CLIENT_OnClose(state) == Aborted(Aborted(state, "server"), "client")

Listen(state, isOpen) ==
  IF isOpen["client"] THEN State(state.outstanding, Append(state.queue, Failed("accept")))
  ELSE State([state.outstanding EXCEPT !["accept"] = @ + 1], state.queue)

(* CL_Read and SL_Read.                                                    *)
StartRead(state, side, isOpen) ==
  IF isOpen[side] THEN State([state.outstanding EXCEPT ![side] = @ + 1], state.queue)
  ELSE State(state.outstanding, Append(state.queue, Failed(side)))

Becomes(state) == outstanding' = state.outstanding /\ queue' = state.queue

(* The oldest completion, and what remains when its handler is called.     *)
Handling(op, ok) == queue # <<>> /\ Head(queue).op = op /\ Head(queue).ok = ok
Taken == State(outstanding, Tail(queue))

-------------------------------------------------------------------------------
(* Completions the world brings about.                                     *)
Completes(op, completion) ==
  /\ outstanding[op] > 0
  /\ outstanding' = [outstanding EXCEPT ![op] = @ - 1]
  /\ queue' = Append(queue, completion)

AcceptCompletes ==
  \E ok \in BOOLEAN :
    /\ sessions < MaxSessions
    /\ sessions' = sessions + 1
    /\ Completes("accept", Done("accept", ok, sessions + 1, 0))
    /\ UNCHANGED <<open, session, reads, passed, unreachable>>

PeerSends(side) ==
  /\ reads < MaxReads
  /\ reads' = reads + 1
  /\ Completes(side, Done(side, TRUE, session[side], reads + 1))
  /\ UNCHANGED <<open, session, sessions, passed, unreachable>>

PeerCloses(side) ==
  /\ Completes(side, Failed(side))
  /\ UNCHANGED <<open, session, sessions, reads, passed, unreachable>>

-------------------------------------------------------------------------------
(* HandleAccept of a launcher whose server list can be reached: m_Socket   *)
(* is the launcher's, m_Server is closed and opened again, and both are    *)
(* read from.                                                              *)
HandleAccept ==
  /\ Handling("accept", TRUE)
  /\ open' = [side \in Sides |-> TRUE]
  /\ session' = [side \in Sides |-> Head(queue).session]
  /\ LET closed == IF open["server"] THEN Aborted(Taken, "server") ELSE Taken IN
       Becomes(StartRead(StartRead(closed, "server", open'), "client", open'))
  /\ UNCHANGED <<sessions, reads, passed, unreachable>>

(* The server list cannot be reached: everything is cancelled and nothing  *)
(* read, nor is the listener started again.                                *)
HandleAcceptUnreachable ==
  /\ Handling("accept", TRUE)
  /\ \E isOpen \in BOOLEAN : open' = [open EXCEPT !["client"] = TRUE, !["server"] = isOpen]
  /\ session' = [side \in Sides |-> Head(queue).session]
  /\ Becomes(CLIENT_OnClose(Taken))
  /\ unreachable' = TRUE
  /\ UNCHANGED <<sessions, reads, passed>>

HandleAcceptError ==
  /\ Handling("accept", FALSE)
  /\ open' = [open EXCEPT !["client"] = FALSE]
  /\ Becomes(Listen(CLIENT_OnClose(Taken), open'))
  /\ UNCHANGED <<session, sessions, reads, passed, unreachable>>

Passed(side) ==
  IF open[Other(side)]
  THEN Append(passed, [from |-> Head(queue).session, to |-> session[Other(side)],
                       no |-> Head(queue).no])
  ELSE passed

(* HandleRead and SL_HandleRead of data: pass it on, read again.           *)
HandleRead(side) ==
  /\ Handling(side, TRUE)
  /\ passed' = Passed(side)
  /\ Becomes(StartRead(Taken, side, open))
  /\ UNCHANGED <<open, session, sessions, reads, unreachable>>

(* Mutant: the listener is started here too.                               *)
HandleReadErrorListens ==
  /\ Handling("client", FALSE)
  /\ open' = [open EXCEPT !["server"] = FALSE]
  /\ Becomes(Listen(CLIENT_OnClose(Taken), [open EXCEPT !["client"] = FALSE]))
  /\ UNCHANGED <<session, sessions, reads, passed, unreachable>>

(* Mutant: it listens, and leaves the way to the server list alone.        *)
HandleReadErrorLeaves ==
  /\ Handling("client", FALSE)
  /\ open' = [open EXCEPT !["client"] = FALSE]
  /\ Becomes(Listen(Taken, open'))
  /\ UNCHANGED <<session, sessions, reads, passed, unreachable>>

(* Mutant: only its own socket is closed and nothing cancelled.            *)
HandleReadErrorQuiet ==
  /\ Handling("client", FALSE)
  /\ open' = [open EXCEPT !["client"] = FALSE]
  /\ Becomes(Taken)
  /\ UNCHANGED <<session, sessions, reads, passed, unreachable>>

(* HandleRead of an error closes the way to the server list, ...           *)
HandleReadError ==
  /\ Handling("client", FALSE)
  /\ open' = [open EXCEPT !["server"] = FALSE]
  /\ Becomes(CLIENT_OnClose(Taken))
  /\ UNCHANGED <<session, sessions, reads, passed, unreachable>>

(* ... and SL_HandleRead of one the way to the launcher, and listens.      *)
SL_HandleReadError ==
  /\ Handling("server", FALSE)
  /\ open' = [open EXCEPT !["client"] = FALSE]
  /\ Becomes(Listen(CLIENT_OnClose(Taken), open'))
  /\ UNCHANGED <<session, sessions, reads, passed, unreachable>>

-------------------------------------------------------------------------------
ServiceStep ==
  \/ HandleAccept \/ HandleAcceptUnreachable \/ HandleAcceptError
  \/ \E side \in Sides : HandleRead(side)
  \/ HandleReadError \/ SL_HandleReadError

(* Nothing to do until a launcher or the server list does something.       *)
Wait == UNCHANGED vars

Next ==
  \/ ServiceStep \/ Wait \/ AcceptCompletes
  \/ \E side \in Sides : PeerSends(side) \/ PeerCloses(side)

(* The service is run; launchers and the server list do as they like.      *)
Spec == Init /\ [][Next]_vars /\ WF_vars(ServiceStep)

-------------------------------------------------------------------------------
Queued(op) == Cardinality({i \in DOMAIN queue : queue[i].op = op})
Chain(op) == outstanding[op] + Queued(op)

(* There is one token: the outstanding accept, or the reading from the     *)
(* server list, whose end starts the next accept.  It is never doubled, so *)
(* two launchers are never served by the same sockets, and it is lost only *)
(* when the server list is unreachable (Listen, SL_HandleRead, OnConnect). *)
OneToken == Chain("accept") + Chain("server") = IF unreachable THEN 0 ELSE 1

(* What is passed on goes to the session it came from, although sockets    *)
(* and buffers are reused and completions come late (HandleRead,           *)
(* SL_HandleRead).                                                         *)
NoCrossing == \A i \in DOMAIN passed : passed[i].from = passed[i].to

(* An accept is outstanding, or has completed with the next launcher.      *)
Listening == Chain("accept") > 0

(* A session that ends on either side ends on both, and the emulator       *)
(* listens again, also when a late completion of the session before is     *)
(* what ends it, unless the server list has been unreachable.              *)
ListensAgain ==
  (\E i \in DOMAIN queue : ~queue[i].ok) ~> Listening \/ unreachable
===============================================================================
