--------------------------- MODULE PacketContainer ---------------------------
(***************************************************************************)
(* CPacketData (Container.h): a vector of bytes made of pieces, with the   *)
(* end of every piece in a second vector.  What the bytes are is left to   *)
(* whoever fills them; how many there are, and where a piece starts, is    *)
(* here.  Operators only: the members that the program calls.              *)
(***************************************************************************)
EXTENDS Integers, Sequences

(* m_vSizes; m_vAllocations.size() and .capacity().                        *)
Container == [sizes : Seq(Nat), length : Nat, capacity : Nat]

(* CPacketData(size, reserved): one piece, and room for reserved bytes.    *)
NewContainer(size, reserved) ==
  [sizes |-> <<size>>, length |-> size, capacity |-> IF reserved = 0 THEN size ELSE reserved]

(* What Insert asserts before it appends a piece of n bytes.               *)
HasRoom(c, n) == c.capacity > c.length + n

(* Without the room, the vector moves to a bigger allocation: capacity is  *)
(* then at least the new length.                                           *)
Moves(c, n) == c.length + n > c.capacity

Insert(c, n) ==
  [sizes    |-> Append(c.sizes, IF c.sizes = <<>> THEN n ELSE c.sizes[Len(c.sizes)] + n),
   length   |-> c.length + n,
   capacity |-> IF Moves(c, n) THEN c.length + n ELSE c.capacity]

(* Where piece i starts (from 0), and how long it is.                      *)
GetOffset(c, i) == IF Len(c.sizes) < i \/ i = 0 THEN 0 ELSE c.sizes[i]
GetSizeAt(c, i) ==
  IF Len(c.sizes) < i THEN 0
  ELSE IF i = 0 THEN c.sizes[1] ELSE c.sizes[i + 1] - c.sizes[i]
===============================================================================
