----------------------------- MODULE PacketFilter -----------------------------
(***************************************************************************)
(* What one direction of the proxy promises the peer it writes to: the     *)
(* packets of the other peer, in the order they were sent, each repeated   *)
(* as often as its packet handler decided (PacketHandler.h: "Returns       *)
(* amount of times to send packet"), and nothing the peer cannot decrypt.  *)
(* Packets are named by their number in the incoming stream; Own stands    *)
(* for a packet the proxy makes up itself.                                 *)
(***************************************************************************)
EXTENDS Integers, Sequences

CONSTANTS Counts,   \* copies a packet handler may ask for (integers)
          Injects,  \* TRUE if the proxy writes packets of its own as well
          Own

VARIABLES accepted,   \* packets whose number of copies is decided
          copies,     \* copies of packet number `accepted' still to deliver
          delivered   \* what the peer has been sent and can read
vars == <<accepted, copies, delivered>>

Init == accepted = 0 /\ copies = 0 /\ delivered = <<>>

Repeated(p, n) == [i \in 1 .. n |-> p]

(* A handler that answers 0 or less asks for no copy at all.               *)
Accept ==
  /\ copies = 0
  /\ accepted' = accepted + 1
  /\ copies' \in {IF c < 1 THEN 0 ELSE c : c \in Counts}
  /\ UNCHANGED delivered

Deliver ==
  \E n \in 1 .. copies :
    /\ delivered' = delivered \o Repeated(accepted, n)
    /\ copies' = copies - n
    /\ UNCHANGED accepted

Inject ==
  /\ Injects
  /\ delivered' = Append(delivered, Own)
  /\ UNCHANGED <<accepted, copies>>

Next == Accept \/ Deliver \/ Inject

Spec == Init /\ [][Next]_vars
===============================================================================
