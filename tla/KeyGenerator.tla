----------------------------- MODULE KeyGenerator -----------------------------
(***************************************************************************)
(* From the four exchanged keys to the three registers of a cipher         *)
(* (Crypt.h): ApplyData mixes keys with ShiftKey and XorKey, and           *)
(* GenerateKey hashes the mixed key over and over into 680 bytes, which it *)
(* deals out to the registers: the machine is one call of GenerateKey, for *)
(* either cipher.  A byte is the set of the bytes that were XORed to make  *)
(* it.  The hash tells any two of its inputs apart and nothing else: byte  *)
(* b of the digest of the n-th different input is <<"digest", n, b>>.      *)
(***************************************************************************)
EXTENDS Integers, FiniteSets, Sequences

VARIABLES generating, \* the cipher the call is for: "Decrypt", "Encrypt", or none yet
          round,      \* digests made so far
          result,     \* the 680 bytes
          inputs,     \* what has been hashed, one input after the other
          registers   \* m_KEY[0], m_KEY[1], m_KEY[2], or none yet
keyVars == <<generating, round, result, inputs, registers>>

KeyIndex == 0..127
KeyBytesOf(name) == [i \in KeyIndex |-> {<<name, i>>}]

(* Bytes move n places up, or down if dir is FALSE, round the end.         *)
ShiftKey(key, n, dir) ==
  [i \in KeyIndex |-> IF dir THEN key[(i - n) % 128] ELSE key[(i + n) % 128]]

(* Equal bytes cancel.                                                     *)
XorKey(a, b) == [i \in KeyIndex |-> (a[i] \cup b[i]) \ (a[i] \cap b[i])]

(* The first half of ApplyData.                                            *)
DECRYPT_KEY ==
  XorKey(ShiftKey(KeyBytesOf("CL_KEY_2"), 17, FALSE),
         XorKey(ShiftKey(KeyBytesOf("SV_KEY_1"), 31, TRUE), KeyBytesOf("CL_KEY_1")))

(* The second half: the key goes through the Decrypt cipher, which draws   *)
(* its first 128 bytes.                                                    *)
ENCRYPT_KEY == XorKey(ShiftKey(KeyBytesOf("SV_KEY_2"), 79, TRUE), KeyBytesOf("keystream"))

(* What GenerateKey is called with, and what that has been made of.        *)
MixedKey(cipher) == IF cipher = "Decrypt" THEN DECRYPT_KEY ELSE ENCRYPT_KEY
Parts(cipher) ==
  IF cipher = "Decrypt" THEN {"SV_KEY_1", "CL_KEY_1", "CL_KEY_2"} ELSE {"SV_KEY_2", "keystream"}

ResultBytes == 0..679

(* Mutant: the last byte of the key is never reached.                      *)
FillKeyShort(key) == [i \in ResultBytes |-> IF i = 0 THEN {<<"128", 0>>} ELSE key[i % 127]]

(* The key, repeated; the very first byte is a constant.                   *)
FillKey(key) == [i \in ResultBytes |-> IF i = 0 THEN {<<"128", 0>>} ELSE key[i % 128]]

GenerateInit ==
  /\ generating = "none"
  /\ round = 0
  /\ result = <<>>
  /\ inputs = <<>>
  /\ registers = <<>>

Fill ==
  /\ generating = "none"
  /\ generating' \in {"Decrypt", "Encrypt"}
  /\ result' = FillKey(MixedKey(generating'))
  /\ UNCHANGED <<round, inputs, registers>>

(* The digest of a buffer: that of the equal input before, or a new one.   *)
NumberOf(buffer) ==
  IF \E n \in DOMAIN inputs : inputs[n] = buffer
  THEN CHOOSE n \in DOMAIN inputs : inputs[n] = buffer
  ELSE Len(inputs) + 1
DigestByte(n, b) == {<<"digest", n, b>>}

(* The digest of all 680 bytes replaces bytes 20r .. 20r + 19.             *)
HashInto(r) ==
  LET n == NumberOf(result)
  IN  [i \in ResultBytes |-> IF i \div 20 = r THEN DigestByte(n, i % 20) ELSE result[i]]

HashRound ==
  /\ generating # "none" /\ 20 * round < 680
  /\ result' = HashInto(round)
  /\ inputs' = Append(inputs, result)
  /\ round' = round + 1
  /\ UNCHANGED <<generating, registers>>

(* The words of the registers: 55, 57 and 58 of them, each four bytes.     *)
Word4(at) == [b \in 0..3 |-> result[at + b]]

DealOut ==
  /\ 20 * round = 680 /\ registers = <<>>
  /\ registers' = << [i \in 0..54 |-> Word4(4 * i)],
                     [i \in 0..56 |-> Word4(220 + 4 * i)],
                     [i \in 0..57 |-> Word4(448 + 4 * i)] >>
  /\ UNCHANGED <<generating, round, result, inputs>>

GenerateKey == Fill \/ HashRound \/ DealOut

GenerateSpec == GenerateInit /\ [][GenerateKey]_keyVars

-------------------------------------------------------------------------------
(* Word w of all registers together, as it is meant: word w % 5 of digest  *)
(* w \div 5, counted from the first.                                       *)
DigestWord(w) == [b \in 0..3 |-> DigestByte(w \div 5 + 1, 4 * (w % 5) + b)]

(* The first input: every byte but the constant is made of one byte of     *)
(* each part, and no byte of a part is missing.                            *)
TakesTheKeys(input) ==
  /\ \A i \in ResultBytes \ {0} :
       /\ {byte[1] : byte \in input[i]} = Parts(generating)
       /\ \A name \in Parts(generating) :
            Cardinality({byte \in input[i] : byte[1] = name}) = 1
  /\ \A name \in Parts(generating), j \in KeyIndex :
       \E i \in ResultBytes : <<name, j>> \in input[i]

(* No byte of a key is lost on the way into a cipher: the first thing      *)
(* hashed holds every byte of every key the cipher is made of, none of     *)
(* them cancelled, each thing hashed later holds all of the digest before  *)
(* it, no two are the same, and the registers hold the words of the 34     *)
(* digests, each once and in order, with nothing left of the unhashed key  *)
(* (ApplyData, FillKey, GenerateKey).                                      *)
KeysUsedUp ==
  registers # <<>> =>
    /\ 5 * Len(inputs) = 55 + 57 + 58
    /\ TakesTheKeys(inputs[1])
    /\ \A r \in 1..Len(inputs) - 1, b \in 0..19 :
         \E i \in ResultBytes : inputs[r + 1][i] = DigestByte(r, b)
    /\ \A i \in 0..54 : registers[1][i] = DigestWord(i)
    /\ \A i \in 0..56 : registers[2][i] = DigestWord(55 + i)
    /\ \A i \in 0..57 : registers[3][i] = DigestWord(55 + 57 + i)
===============================================================================
