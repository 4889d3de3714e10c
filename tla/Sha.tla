---------------------------------- MODULE Sha ----------------------------------
(***************************************************************************)
(* CSha (Crypt.h): cutting a message into blocks and padding the last one. *)
(* What a block does to the digest is left alone: the digest is the        *)
(* sequence of the blocks it was made of.  The members of the object are a *)
(* record, and each member function an operator on it; the machine is one  *)
(* object that is given a message in pieces and asked for the result.      *)
(***************************************************************************)
EXTENDS Integers, Sequences

CONSTANTS LengthRange,  \* of LengthLow and of LengthHigh: 2^32
          Message,      \* what is hashed
          Pieces        \* lengths of the pieces it comes in
ASSUME ShaAssumption ==
  /\ LengthRange \in Nat \ {0} /\ LengthRange % 8 = 0
  /\ Message \in Seq(0..255) /\ Pieces \subseteq Nat

VARIABLES sha,     \* the object
          hashed   \* bytes it has been given (history)
shaVars == <<sha, hashed>>

Bytes == 0..63    \* MessageBlock, one byte in each of its words

CShaInit == [Computed |-> FALSE, Corrupted |-> FALSE, LengthLow |-> 0, LengthHigh |-> 0,
             MsgIndex |-> 0, MessageBlock |-> [i \in Bytes |-> 0], MessageDigest |-> <<>>]

ProcessMessageBlock(s) ==
  [s EXCEPT !.MessageDigest = Append(@, s.MessageBlock), !.MsgIndex = 0]

(* The length in bits, in two words; the object gives up when both wrap.   *)
CountBits(s) ==
  LET low  == (s.LengthLow + 8) % LengthRange
      high == IF low = 0 THEN (s.LengthHigh + 1) % LengthRange ELSE s.LengthHigh
  IN  [s EXCEPT !.LengthLow = low, !.LengthHigh = high,
                !.Corrupted = low = 0 /\ high = 0]

InputByte(s, byte) ==
  IF s.Corrupted THEN s
  ELSE LET counted == CountBits([s EXCEPT !.MessageBlock[s.MsgIndex] = byte, !.MsgIndex = @ + 1])
       IN  IF counted.MsgIndex = 64 THEN ProcessMessageBlock(counted) ELSE counted

Input(s, message) ==
  IF message = <<>> THEN s
  ELSE IF s.Computed \/ s.Corrupted THEN [s EXCEPT !.Corrupted = TRUE]
  ELSE LET Given[i \in 0..Len(message)] ==
             IF i = 0 THEN s ELSE InputByte(Given[i - 1], message[i])
       IN  Given[Len(message)]

(* A single one bit, and zeros up to an index.                             *)
OneBit(s) == [s EXCEPT !.MessageBlock[s.MsgIndex] = 128, !.MsgIndex = @ + 1]
Zeros(s, end) ==
  [s EXCEPT !.MessageBlock = [i \in Bytes |-> IF s.MsgIndex <= i /\ i < end THEN 0 ELSE @[i]],
            !.MsgIndex = end]

FourBytes(n) ==
  <<(n \div 16777216) % 256, (n \div 65536) % 256, (n \div 256) % 256, n % 256>>

WithLength(s) ==
  LET length == FourBytes(s.LengthHigh) \o FourBytes(s.LengthLow)
  IN  [s EXCEPT !.MessageBlock = [i \in Bytes |-> IF i < 56 THEN @[i] ELSE length[i - 55]]]

(* Mutant: the length is put over the end of the message.                  *)
PadMessageTooLate(s) ==
  ProcessMessageBlock(WithLength(
    IF s.MsgIndex > 56 THEN Zeros(ProcessMessageBlock(Zeros(OneBit(s), 64)), 56)
    ELSE Zeros(OneBit(s), 56)))

(* If the length does not fit behind the message, it gets its own block.   *)
PadMessage(s) ==
  ProcessMessageBlock(WithLength(
    IF s.MsgIndex > 55 THEN Zeros(ProcessMessageBlock(Zeros(OneBit(s), 64)), 56)
    ELSE Zeros(OneBit(s), 56)))

Result(s) ==
  IF s.Corrupted \/ s.Computed THEN s ELSE [PadMessage(s) EXCEPT !.Computed = TRUE]

-------------------------------------------------------------------------------
ShaInit == sha = CShaInit /\ hashed = 0

(* Digest: input, ...                                                      *)
GiveInput(n) ==
  /\ hashed + n <= Len(Message)
  /\ sha' = Input(sha, SubSeq(Message, hashed + 1, hashed + n))
  /\ hashed' = hashed + n

(* ... result.                                                             *)
AskResult == sha' = Result(sha) /\ UNCHANGED hashed

ShaNext == AskResult \/ \E n \in Pieces : GiveInput(n)

ShaSpec == ShaInit /\ [][ShaNext]_shaVars

-------------------------------------------------------------------------------
(* The standard's padding, of a whole message at once: the bit, the fewest *)
(* zeros that leave eight bytes to the end of a block, and the length.     *)
PaddedLength(n) == CHOOSE l \in n + 9..n + 72 : l % 64 = 0
Padded(message) ==
  LET n == Len(message)
  IN  message \o <<128>> \o [i \in 1..PaddedLength(n) - n - 9 |-> 0]
        \o FourBytes((8 * n) \div LengthRange) \o FourBytes((8 * n) % LengthRange)
Blocks(bytes) ==
  [b \in 1..Len(bytes) \div 64 |-> [i \in Bytes |-> bytes[64 * (b - 1) + i + 1]]]

(* A message of any length is hashed block by block as the standard says,  *)
(* in whatever pieces it comes, with the carry from the low to the high    *)
(* word of its length; when both wrap, or when there is more to hash after *)
(* the result, the object says that it is corrupted (Input, PadMessage).   *)
ShaPads ==
  sha.Computed /\ ~sha.Corrupted =>
    /\ 8 * hashed < LengthRange * LengthRange
    /\ sha.MessageDigest = Blocks(Padded(SubSeq(Message, 1, hashed)))
===============================================================================
