------------------------------ MODULE OpcodeTable ------------------------------
(***************************************************************************)
(* GetHeaderByKey (OpcodeStrings.h), which names the header of a packet    *)
(* for the log of a debug build.  Its search starts where the last one     *)
(* ended, since its variables are static; both receive threads call it.    *)
(* A call is one step: calls that overlap race on the static variables.    *)
(*                                                                         *)
(* The table is sorted by key, and starts with key zero; its keys, and the *)
(* opcodes of EPackets, which they are, are a constant.                    *)
(***************************************************************************)
EXTENDS Integers, Sequences

CONSTANTS Opcodes,       \* the keys of Opcodes[]: 16-bit numbers
          HeaderKeys     \* the headers that packets have
ASSUME OpcodeAssumption ==
  /\ Opcodes \in Seq(Nat) /\ Opcodes # <<>> /\ Opcodes[1] = 0
  /\ \A i, j \in DOMAIN Opcodes : i < j => Opcodes[i] < Opcodes[j]
ASSUME HeaderAssumption == HeaderKeys \subseteq Nat

OpcodeKeys == {Opcodes[i] : i \in DOMAIN Opcodes}
OpcodeCount == Len(Opcodes)
Key(i) == Opcodes[i + 1]     \* Opcodes[i].key, i from 0

VARIABLES middle, outofrange
tableVars == <<middle, outofrange>>

TableInit == middle = OpcodeCount \div 2 /\ outofrange = OpcodeCount \div 2

(* The two loops, from indices [middle, outofrange] on.                    *)
At(m, o) == [middle |-> m, outofrange |-> o]

(* Mutant: the range keeps its old end.                                    *)
NarrowDown(key) ==
  LET Down[m \in 0..OpcodeCount - 1] ==
        IF key < Key(m) THEN Down[m \div 2] ELSE At(m, outofrange)
  IN  Down[middle]

Lower(key) ==
  LET Down[m \in 0..OpcodeCount - 1] ==
        IF key < Key(m \div 2) THEN Down[m \div 2] ELSE At(m \div 2, m)
  IN  Down[middle]

Upper(key) ==
  LET Up[m \in 0..OpcodeCount - 1] ==
        LET up == m + (OpcodeCount - m) \div 2
        IN  IF key > Key(up) THEN Up[up] ELSE At(up, m)
  IN  IF key > Key(middle) THEN Up[middle] ELSE At(middle, outofrange)

(* Where the indices are after a call, and whether it has found the key.   *)
Search(key) ==
  IF key < Key(middle) THEN Lower(key)
  ELSE IF key > Key(OpcodeCount - 1) THEN At(middle, outofrange)
  ELSE Upper(key)

Scanned(key) ==
  LET to == Search(key)
  IN  IF key < Key(middle) THEN to.middle..to.outofrange
      ELSE IF key > Key(OpcodeCount - 1) THEN {}
      ELSE to.outofrange..to.middle

Found(key) == \E i \in Scanned(key) : Key(i) = key

GetHeaderByKey(key) ==
  /\ middle' = Search(key).middle
  /\ outofrange' = Search(key).outofrange

Log == \E key \in HeaderKeys : GetHeaderByKey(key)

TableSpec == TableInit /\ [][Log]_tableVars

-------------------------------------------------------------------------------
(* From wherever the last call has left the indices, a known header is     *)
(* found, unless it is the very one they point at after a search downwards *)
(* (then the range to scan is upside down and the log says UNKNOWN_OPCODE) *)
(* and no index is ever outside the table.                                 *)
OnlyPivotLost ==
  /\ middle \in 0..OpcodeCount - 1 /\ outofrange \in 0..OpcodeCount - 1
  /\ \A key \in OpcodeKeys :
       Found(key) \/ (key = Key(middle) /\ middle < outofrange)
===============================================================================
