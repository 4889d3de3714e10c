----------------------------- MODULE CryptProofs -----------------------------
(***************************************************************************)
(* Crypt.h from the keys to the keystream: CCrypt implements StreamCipher  *)
(* for every set of buffer lengths of at least three bytes and without a   *)
(* bound on the keystream drawn; GenerateKey uses up the keys it is given; *)
(* the exchange keys the ciphers in time in every interleaving; CSha pads  *)
(* a message of any length, in whatever pieces it comes.                   *)
(***************************************************************************)
EXTENDS CCrypt, MCCryptManager, FiniteSetTheorems, SequenceTheorems,
        WellFoundedInduction, TLAPS

CipherInv == CCryptTypeOK /\ LeftOverIsLastWord

Split(n) ==
  /\ Pre(n) \in Nat /\ FullWords(n) \in Nat /\ Remain(n) \in 0 .. 3
  /\ n = Pre(n) + 4 * FullWords(n) + Remain(n)
  /\ Pre(n) <= m_ChangeLen
  /\ Pre(n) # m_ChangeLen => Pre(n) = n /\ FullWords(n) = 0 /\ Remain(n) = 0

(* A buffer splits into the bytes served from the left-over word, whole    *)
(* words, and a tail shorter than a word; only a buffer that exhausts the  *)
(* left-over bytes reaches the words and the tail.                         *)
LEMMA BufferSplit ==
  ASSUME CCryptTypeOK, NEW n \in Nat
  PROVE  Split(n)
  <1>1. m_ChangeLen \in 0 .. 3
    BY DEF CCryptTypeOK
  <1>2. /\ Pre(n) \in Nat /\ Pre(n) <= m_ChangeLen /\ n - Pre(n) \in Nat
        /\ Pre(n) # m_ChangeLen => Pre(n) = n
    BY <1>1 DEF Pre
  <1>3. ASSUME NEW m \in Nat
        PROVE  m \div 4 \in Nat /\ m % 4 \in 0 .. 3 /\ m = 4 * (m \div 4) + (m % 4)
    OBVIOUS
  <1>4. QED
    BY <1>2, <1>3 DEF FullWords, Remain, Split

(* ApplyCryptor XORs byte i of the buffer with keystream byte pos + i,     *)
(* where pos counts the bytes of all words drawn less the left-over ones.  *)
LEMMA KeyBytesAreConsecutive ==
  ASSUME CipherInv, NEW n \in Nat
  PROVE  KeyBytes(n) = Abstract!Span(4 * words - m_ChangeLen, n)
  <1> DEFINE pos == 4 * words - m_ChangeLen
  <1>0. Split(n) /\ words \in Nat /\ m_ChangeLen \in 0 .. 3
    BY BufferSplit DEF CipherInv, CCryptTypeOK
  <1>1. SUFFICES ASSUME NEW i \in 0 .. n - 1
                 PROVE  KeyBytes(n)[i] = pos + i
    BY DEF KeyBytes, Abstract!Span
  <1>2. CASE i < Pre(n)
    <2>1. m_ChangeLen > 0 /\ m_ChangeData = words - 1
      BY <1>0, <1>2 DEF Split, CipherInv, LeftOverIsLastWord
    <2>2. KeyBytes(n)[i] = 4 * (words - 1) + (4 - m_ChangeLen + i)
      BY <1>2, <2>1 DEF KeyBytes, LeftOverByte, KeyByte
    <2>3. QED
      BY <1>0, <2>2
  <1>3. CASE ~(i < Pre(n)) /\ i < n - Remain(n)
    <2>1. Pre(n) = m_ChangeLen
      BY <1>0, <1>3 DEF Split
    <2>2. KeyBytes(n)[i] = 4 * (words + (i - Pre(n)) \div 4) + ((i - Pre(n)) % 4)
      BY <1>3 DEF KeyBytes, WordByte, KeyByte
    <2>3. i - Pre(n) \in Nat
      BY <1>0, <1>3 DEF Split
    <2>4. /\ (i - Pre(n)) \div 4 \in Nat /\ (i - Pre(n)) % 4 \in Nat
          /\ i - Pre(n) = 4 * ((i - Pre(n)) \div 4) + ((i - Pre(n)) % 4)
      BY <2>3
    <2>5. QED
      BY <1>0, <2>1, <2>2, <2>4
  <1>4. CASE ~(i < Pre(n)) /\ ~(i < n - Remain(n))
    <2>1. Pre(n) = m_ChangeLen
      BY <1>0, <1>4 DEF Split
    <2>2. KeyBytes(n)[i] = 4 * (words + FullWords(n)) + (i - (n - Remain(n)))
      BY <1>4 DEF KeyBytes, TailByte, KeyByte
    <2>3. QED
      BY <1>0, <2>1, <2>2 DEF Split
  <1>5. QED
    BY <1>2, <1>3, <1>4

LEMMA CipherInvInit == CCryptInit => CipherInv
  BY DEF CCryptInit, CipherInv, CCryptTypeOK, LeftOverIsLastWord

(* One word drawn too many, or left-over bytes kept from the wrong word,   *)
(* would break the link that the next call relies on.                      *)
LEMMA CipherInvNext == CipherInv /\ [CCryptNext]_ccryptVars => CipherInv'
  <1>1. SUFFICES ASSUME CipherInv, [CCryptNext]_ccryptVars PROVE CipherInv'
    OBVIOUS
  <1>2. CASE UNCHANGED ccryptVars
    BY <1>1, <1>2 DEF CipherInv, CCryptTypeOK, LeftOverIsLastWord, ccryptVars, current, last
  <1>3. CASE RestoreData
    BY <1>1, <1>3 DEF RestoreData, CipherInv, CCryptTypeOK, LeftOverIsLastWord, last
  <1>4. ASSUME NEW n \in Sizes, NEW save \in BOOLEAN, ApplyCryptor(n, save)
        PROVE  CipherInv'
    <2>1. n \in Nat /\ Split(n)
      BY <1>1, SizesAssumption, BufferSplit DEF CipherInv
    <2>2. /\ words' \in Nat /\ m_ChangeLen' \in 0 .. 3 /\ m_ChangeData' \in Nat
          /\ m_ChangeLen' > 0 => m_ChangeData' = words' - 1
      <3>1. CASE Remain(n) = 0
        BY <1>1, <1>4, <2>1, <3>1
           DEF Split, ApplyCryptor, DrawWords, CipherInv, CCryptTypeOK, LeftOverIsLastWord
      <3>2. CASE Remain(n) # 0
        BY <1>1, <1>4, <2>1, <3>2
           DEF Split, ApplyCryptor, DrawWords, CipherInv, CCryptTypeOK
      <3>3. QED
        BY <3>1, <3>2
    <2>3. /\ lastWords' \in Nat /\ m_LastChangeLen' \in 0 .. 3 
          /\ m_LastChangeData' \in Nat
          /\ m_LastChangeLen' > 0 => m_LastChangeData' = lastWords' - 1
      BY <1>1, <1>4 
         DEF ApplyCryptor, SaveData, CipherInv, CCryptTypeOK, LeftOverIsLastWord, last
    <2>4. QED
      BY <2>2, <2>3 DEF CipherInv, CCryptTypeOK, LeftOverIsLastWord
  <1>5. QED
    BY <1>1, <1>2, <1>3, <1>4 DEF CCryptNext

(* The variables of CCrypt keep their ranges: never more than three        *)
(* left-over bytes (ApplyCryptor, SaveData, RestoreData).                  *)
THEOREM CCryptTypeCorrect == CCryptSpec => []CCryptTypeOK
  BY CipherInvInit, CipherInvNext, PTL DEF CCryptSpec, CipherInv

(* The left-over bytes always belong to the word drawn last, in the live   *)
(* and in the saved state (ApplyCryptor, SaveData, RestoreData).           *)
THEOREM LeftOverCorrect == CCryptSpec => []LeftOverIsLastWord
  BY CipherInvInit, CipherInvNext, PTL DEF CCryptSpec, CipherInv

LEMMA InitRefines == CCryptInit => Abstract!Init
  BY DEF CCryptInit, Abstract!Init, Abstract!CipherAt

LEMMA NextRefines == CipherInv /\ [CCryptNext]_ccryptVars => [Abstract!Next]_(Abstract!vars)
  <1>1. SUFFICES ASSUME CipherInv, [CCryptNext]_ccryptVars PROVE [Abstract!Next]_(Abstract!vars)
    OBVIOUS
  <1> DEFINE pos  == 4 * words - m_ChangeLen
             mark == 4 * lastWords - m_LastChangeLen
             c    == [pos |-> pos, mark |-> mark]
  <1>2. CASE UNCHANGED ccryptVars
    BY <1>2 DEF ccryptVars, current, last, Abstract!vars
  <1>3. CASE RestoreData
    <2>1. Abstract!Restore
      BY <1>3 DEF RestoreData, last, Abstract!Restore, Abstract!Restored
    <2>2. QED
      BY <2>1 DEF Abstract!Next
  <1>4. ASSUME NEW n \in Sizes, NEW save \in BOOLEAN, ApplyCryptor(n, save)
        PROVE  Abstract!Next
    <2>1. n \in Nat /\ Split(n)
      BY <1>1, SizesAssumption, BufferSplit DEF CipherInv
    <2>2. used' = Abstract!Span(pos, n)
      BY <1>1, <1>4, <2>1, KeyBytesAreConsecutive DEF ApplyCryptor
    <2>3. pos' = pos + n
      <3>1. CASE Remain(n) = 0
        BY <1>1, <1>4, <2>1, <3>1
           DEF Split, ApplyCryptor, DrawWords, CipherInv, CCryptTypeOK
      <3>2. CASE Remain(n) # 0
        BY <1>1, <1>4, <2>1, <3>2
           DEF Split, ApplyCryptor, DrawWords, CipherInv, CCryptTypeOK
      <3>3. QED
        BY <3>1, <3>2
    <2>4. mark' = IF save THEN pos ELSE mark
      BY <1>4 DEF ApplyCryptor, SaveData, last
    <2>5. c' = Abstract!Encrypted(IF save THEN Abstract!Saved(c) ELSE c, n)
      <3>1. c' = [pos |-> pos + n, mark |-> IF save THEN pos ELSE mark]
        BY <2>3, <2>4
      <3> HIDE DEF pos, mark
      <3>2. QED
        BY <3>1 DEF Abstract!Encrypted, Abstract!Saved
    <2>6. Abstract!Apply(n, save)
      BY <2>2, <2>5 DEF Abstract!Apply
    <2>7. QED
      BY <2>6 DEF Abstract!Next
  <1>5. QED
    BY <1>1, <1>2, <1>3, <1>4 DEF CCryptNext

(* CCrypt is a stream cipher (ChunkingIsInvisible): byte k of the stream   *)
(* is XORed with keystream byte k however ApplyCryptor's calls cut it, and *)
(* RestoreData returns to the position of the last saving call.            *)
THEOREM CCryptRefines == CCryptSpec => ChunkingIsInvisible
  <1>1. CCryptInit => Abstract!Init
    BY InitRefines
  <1>2. CipherInv /\ [CCryptNext]_ccryptVars => [Abstract!Next]_(Abstract!vars)
    BY NextRefines
  <1>3. QED
    BY <1>1, <1>2, CipherInvInit, CipherInvNext, PTL
       DEF CCryptSpec, ChunkingIsInvisible, Abstract!Spec

-------------------------------------------------------------------------------
(* GenerateKey and the keys it is given *)

(* The byte of key name that is mixed into byte j, and by how much         *)
(* ShiftKey has moved it.                                                  *)
Moved(name) ==
  IF name = "CL_KEY_2" THEN 17
  ELSE IF name = "SV_KEY_1" THEN -31
  ELSE IF name = "SV_KEY_2" THEN -79 ELSE 0
Part(name, j) == <<name, (j + Moved(name)) % 128>>

LEMMA MovedInside ==
  ASSUME NEW name, NEW j \in KeyIndex
  PROVE  /\ Moved(name) \in {17, -31, -79, 0}
         /\ (j + Moved(name)) % 128 \in KeyIndex /\ (j - Moved(name)) % 128 \in KeyIndex
         /\ (((j - Moved(name)) % 128) + Moved(name)) % 128 = j
  <1> DEFINE n == Moved(name)
  <1>1. n \in {17, -31, -79, 0}
    BY DEF Moved
  <1> HIDE DEF n
  <1>2. /\ (j + n) % 128 \in KeyIndex /\ (j - n) % 128 \in KeyIndex
        /\ (((j - n) % 128) + n) % 128 = j
    BY <1>1 DEF KeyIndex
  <1>3. QED
    BY <1>1, <1>2 DEF n

CipherNames == {"Decrypt", "Encrypt"}

(* What ShiftKey and XorKey make of the keys: no two bytes are equal, so   *)
(* that none cancels.                                                      *)
LEMMA DecryptBytes ==
  ASSUME NEW j \in KeyIndex
  PROVE  DECRYPT_KEY[j] = {Part("CL_KEY_2", j), Part("SV_KEY_1", j), Part("CL_KEY_1", j)}
  <1> DEFINE a == ShiftKey(KeyBytesOf("CL_KEY_2"), 17, FALSE)
             b == ShiftKey(KeyBytesOf("SV_KEY_1"), 31, TRUE)
             c == KeyBytesOf("CL_KEY_1")
  <1>1. /\ j \in Int /\ j % 128 = j /\ (j + 17) % 128 \in KeyIndex
        /\ (j - 31) % 128 \in KeyIndex /\ j + 0 = j /\ j + (-31) = j - 31
    BY DEF KeyIndex
  <1>2. a[j] = {Part("CL_KEY_2", j)}
    BY <1>1 DEF ShiftKey, KeyBytesOf, Part, Moved
  <1>3. b[j] = {Part("SV_KEY_1", j)}
    BY <1>1 DEF ShiftKey, KeyBytesOf, Part, Moved
  <1>4. c[j] = {Part("CL_KEY_1", j)}
    BY <1>1 DEF KeyBytesOf, Part, Moved
  <1>5. /\ Part("CL_KEY_2", j) # Part("SV_KEY_1", j)
        /\ Part("CL_KEY_2", j) # Part("CL_KEY_1", j)
        /\ Part("SV_KEY_1", j) # Part("CL_KEY_1", j)
    BY DEF Part
  <1> HIDE DEF a, b, c
  <1>6. XorKey(b, c)[j] = {Part("SV_KEY_1", j), Part("CL_KEY_1", j)}
    BY <1>3, <1>4, <1>5 DEF XorKey
  <1>7. XorKey(a, XorKey(b, c))[j] = (a[j] \cup XorKey(b, c)[j]) \ (a[j] \cap XorKey(b, c)[j])
    BY DEF XorKey
  <1>8. XorKey(a, XorKey(b, c))[j] = DECRYPT_KEY[j]
    BY DEF a, b, c, DECRYPT_KEY
  <1>9. QED
    BY <1>2, <1>5, <1>6, <1>7, <1>8

LEMMA EncryptBytes ==
  ASSUME NEW j \in KeyIndex
  PROVE  ENCRYPT_KEY[j] = {Part("SV_KEY_2", j), Part("keystream", j)}
  <1> DEFINE a == ShiftKey(KeyBytesOf("SV_KEY_2"), 79, TRUE)
             b == KeyBytesOf("keystream")
  <1>1. j \in Int /\ j % 128 = j /\ (j - 79) % 128 \in KeyIndex /\ j + 0 = j /\ j + (-79) = j - 79
    BY DEF KeyIndex
  <1>2. a[j] = {Part("SV_KEY_2", j)}
    BY <1>1 DEF ShiftKey, KeyBytesOf, Part, Moved
  <1>3. b[j] = {Part("keystream", j)}
    BY <1>1 DEF KeyBytesOf, Part, Moved
  <1>4. Part("SV_KEY_2", j) # Part("keystream", j)
    BY DEF Part
  <1> HIDE DEF a, b
  <1>5. XorKey(a, b)[j] = (a[j] \cup b[j]) \ (a[j] \cap b[j])
    BY DEF XorKey
  <1>6. XorKey(a, b)[j] = ENCRYPT_KEY[j]
    BY DEF a, b, ENCRYPT_KEY
  <1>7. QED
    BY <1>2, <1>3, <1>4, <1>5, <1>6

LEMMA MixedBytes ==
  ASSUME NEW c \in CipherNames, NEW j \in KeyIndex
  PROVE  MixedKey(c)[j] = {Part(name, j) : name \in Parts(c)}
  <1>1. CASE c = "Decrypt"
    <2>1. {Part(name, j) : name \in Parts(c)}
            = {Part("CL_KEY_2", j), Part("SV_KEY_1", j), Part("CL_KEY_1", j)}
      BY <1>1 DEF Parts
    <2>2. QED
      BY <1>1, <2>1, DecryptBytes DEF MixedKey
  <1>2. CASE c = "Encrypt"
    <2>1. {Part(name, j) : name \in Parts(c)} = {Part("SV_KEY_2", j), Part("keystream", j)}
      BY <1>2 DEF Parts
    <2>2. QED
      BY <1>2, <2>1, EncryptBytes DEF MixedKey
  <1>3. QED
    BY <1>1, <1>2 DEF CipherNames

(* So one byte of each part is in every byte of the mixed key, ...         *)
LEMMA OneOfEach ==
  ASSUME NEW c \in CipherNames, NEW j \in KeyIndex
  PROVE  /\ {byte[1] : byte \in MixedKey(c)[j]} = Parts(c)
         /\ \A name \in Parts(c) : Cardinality({byte \in MixedKey(c)[j] : byte[1] = name}) = 1
  <1>1. \A name \in Parts(c) : Part(name, j)[1] = name
    BY DEF Part
  <1>2. ASSUME NEW name \in Parts(c)
        PROVE  Cardinality({byte \in MixedKey(c)[j] : byte[1] = name}) = 1
    <2>1. {byte \in MixedKey(c)[j] : byte[1] = name} = {Part(name, j)}
      BY <1>1, MixedBytes
    <2>2. QED
      BY <2>1, FS_Singleton
  <1>3. {byte[1] : byte \in MixedKey(c)[j]} = Parts(c)
    BY <1>1, MixedBytes
  <1>4. QED
    BY <1>2, <1>3

(* ... and every byte of each part in some byte of it.                     *)
LEMMA EveryByteMixed ==
  ASSUME NEW c \in CipherNames, NEW name \in Parts(c), NEW k \in KeyIndex
  PROVE  \E j \in KeyIndex : <<name, k>> \in MixedKey(c)[j]
  <1> DEFINE j == (k - Moved(name)) % 128
  <1>1. j \in KeyIndex /\ (j + Moved(name)) % 128 = k
    BY MovedInside
  <1> HIDE DEF j
  <1>2. Part(name, j) = <<name, k>>
    BY <1>1 DEF Part
  <1>3. Part(name, j) \in MixedKey(c)[j]
    BY <1>1, MixedBytes
  <1>4. QED
    BY <1>1, <1>2, <1>3

(* The 680 bytes after r digests.                                          *)
Unhashed(c) == FillKey(MixedKey(c))
Stage(c, r) ==
  [i \in ResultBytes |->
    IF i \div 20 < r THEN DigestByte(i \div 20 + 1, i % 20) ELSE Unhashed(c)[i]]
Stages == {Stage(c, r) : c \in CipherNames, r \in 0..34}

LEMMA FilledBytes ==
  ASSUME NEW c \in CipherNames, NEW i \in ResultBytes
  PROVE  /\ i # 0 => i % 128 \in KeyIndex /\ Unhashed(c)[i] = MixedKey(c)[i % 128]
         /\ \A n, b : Unhashed(c)[i] # DigestByte(n, b)
  <1>1. i # 0 => i % 128 \in KeyIndex /\ Unhashed(c)[i] = MixedKey(c)[i % 128]
    BY DEF Unhashed, FillKey, ResultBytes, KeyIndex
  <1>2. \A n, b, byte : byte \in DigestByte(n, b) => byte[1] = "digest"
    BY DEF DigestByte
  <1>3. \A n, b : DigestByte(n, b) # {}
    BY DEF DigestByte
  <1>4. \A byte \in Unhashed(c)[i] : byte[1] # "digest"
    <2>1. CASE i = 0
      <3>1. Unhashed(c)[i] = {<<"128", 0>>}
        BY <2>1 DEF Unhashed, FillKey
      <3>2. QED
        BY <3>1
    <2>2. CASE i # 0
      <3>1. "digest" \notin Parts(c)
        BY DEF Parts
      <3>2. QED
        BY <1>1, <2>2, <3>1, MixedBytes DEF Part
    <2>3. QED
      BY <2>1, <2>2
  <1>5. ASSUME NEW n, NEW b PROVE Unhashed(c)[i] # DigestByte(n, b)
    <2>1. PICK byte : byte \in DigestByte(n, b)
      BY <1>3
    <2>2. QED
      BY <1>2, <1>4, <2>1
  <1>6. QED
    BY <1>1, <1>5

(* Nothing is hashed twice.                                                *)
LEMMA StagesDiffer ==
  ASSUME NEW c \in CipherNames, NEW r \in 0..34, NEW q \in 0..34, q < r
  PROVE  Stage(c, q) # Stage(c, r)
  <1> DEFINE i == 20 * q
  <1>1. i \in ResultBytes /\ i \div 20 = q
    BY DEF ResultBytes
  <1> HIDE DEF i
  <1>2. Stage(c, r)[i] = DigestByte(q + 1, i % 20)
    BY <1>1 DEF Stage
  <1>3. Stage(c, q)[i] = Unhashed(c)[i]
    BY <1>1 DEF Stage
  <1>4. Unhashed(c)[i] # DigestByte(q + 1, i % 20)
    BY <1>1, FilledBytes
  <1>5. QED
    BY <1>2, <1>3, <1>4

(* The registers hold all digests, each word once.                         *)
Dealt ==
  /\ \A i \in 0..54 : registers[1][i] = DigestWord(i)
  /\ \A i \in 0..56 : registers[2][i] = DigestWord(55 + i)
  /\ \A i \in 0..57 : registers[3][i] = DigestWord(55 + 57 + i)

(* Every digest so far is of the stage before it.                          *)
HashedInv ==
  /\ inputs \in Seq(Stages) /\ Len(inputs) = round
  /\ \A r \in 1..round : inputs[r] = Stage(generating, r - 1)

KeyInv ==
  /\ round \in 0..34
  /\ generating \in CipherNames \cup {"none"}
  /\ generating = "none" => round = 0 /\ registers = <<>>
  /\ generating # "none" => result = Stage(generating, round)
  /\ HashedInv
  /\ registers # <<>> => round = 34 /\ Dealt

(* Four bytes of the hashed buffer are a word of a digest.                 *)
LEMMA WordsOfDigests ==
  ASSUME NEW w \in 0..169, result = Stage(generating, 34)
  PROVE  Word4(4 * w) = DigestWord(w)
  <1>1. ASSUME NEW b \in 0..3
        PROVE  /\ 4 * w + b \in ResultBytes /\ (4 * w + b) \div 20 < 34
               /\ (4 * w + b) \div 20 = w \div 5 /\ (4 * w + b) % 20 = 4 * (w % 5) + b
    BY DEF ResultBytes
  <1>2. \A b \in 0..3 : result[4 * w + b] = DigestByte(w \div 5 + 1, 4 * (w % 5) + b)
    BY <1>1 DEF Stage
  <1>3. QED
    BY <1>2 DEF Word4, DigestWord

(* The input is new, and its digest the next one.                          *)
LEMMA HashRoundStage ==
  ASSUME KeyInv, HashRound
  PROVE  result' = Stage(generating, round + 1)
  <1>1. /\ generating \in CipherNames /\ round \in 0..33 /\ Len(inputs) = round
        /\ result = Stage(generating, round) /\ DOMAIN inputs = 1..round
    BY DEF KeyInv, HashedInv, HashRound
  <1>2. ASSUME NEW n \in DOMAIN inputs PROVE inputs[n] # result
    <2>1. n - 1 \in 0..34 /\ n - 1 < round /\ inputs[n] = Stage(generating, n - 1)
      <3>1. n \in 1..round
        BY <1>1, <1>2
      <3>2. inputs[n] = Stage(generating, n - 1)
        BY <3>1 DEF KeyInv, HashedInv
      <3>3. \A k \in 1..round : k - 1 \in 0..34 /\ k - 1 < round
        <4>1. round \in 0..33
          BY <1>1
        <4>2. QED
          BY <4>1
      <3>4. QED
        BY <3>1, <3>2, <3>3, Zenon
    <2>2. round \in 0..34
      BY <1>1
    <2>3. Stage(generating, n - 1) # Stage(generating, round)
      BY <1>1, <2>1, <2>2, StagesDiffer
    <2>4. QED
      BY <1>1, <2>1, <2>3
  <1>3. NumberOf(result) = round + 1
    BY <1>1, <1>2, Zenon DEF NumberOf
  <1>4. result' = [i \in ResultBytes |->
                    IF i \div 20 = round THEN DigestByte(round + 1, i % 20) ELSE result[i]]
    BY <1>3 DEF HashRound, HashInto
  <1>5. ASSUME NEW i \in ResultBytes
        PROVE  (IF i \div 20 = round THEN DigestByte(round + 1, i % 20) ELSE result[i])
                 = IF i \div 20 < round + 1 THEN DigestByte(i \div 20 + 1, i % 20)
                   ELSE Unhashed(generating)[i]
    <2>1. i \div 20 \in Nat
      BY DEF ResultBytes
    <2>2. result[i] = IF i \div 20 < round THEN DigestByte(i \div 20 + 1, i % 20)
                      ELSE Unhashed(generating)[i]
      BY <1>1 DEF Stage
    <2>3. QED
      BY <1>1, <2>1, <2>2
  <1>6. QED
    BY <1>4, <1>5 DEF Stage

LEMMA KeyInvNext == KeyInv /\ [GenerateKey]_keyVars => KeyInv'
  <1>1. SUFFICES ASSUME KeyInv, [GenerateKey]_keyVars PROVE KeyInv'
    OBVIOUS
  <1>2. CASE UNCHANGED keyVars
    BY <1>1, <1>2 DEF KeyInv, HashedInv, Dealt, keyVars
  <1>3. CASE Fill
    <2>1. /\ round' = 0 /\ inputs' = inputs /\ registers' = <<>> /\ generating' \in CipherNames
          /\ result' = Unhashed(generating')
      BY <1>1, <1>3 DEF Fill, KeyInv, Unhashed, CipherNames
    <2>2. \A i \in ResultBytes : ~(i \div 20 < 0)
      BY DEF ResultBytes
    <2>3. result' = [i \in ResultBytes |-> Unhashed(generating')[i]]
      BY <2>1 DEF Unhashed, FillKey
    <2>4. result' = Stage(generating', 0)
      BY <2>2, <2>3 DEF Stage
    <2>5. HashedInv'
      BY <1>1, <1>3, <2>1 DEF KeyInv, HashedInv, Fill
    <2>6. QED
      BY <2>1, <2>4, <2>5 DEF KeyInv, CipherNames
  <1>4. CASE HashRound
    <2>1. /\ round \in 0..33 /\ round' = round + 1 /\ registers' = registers /\ registers = <<>>
          /\ generating' = generating /\ generating \in CipherNames
          /\ inputs' = Append(inputs, result) /\ result = Stage(generating, round)
      BY <1>1, <1>4 DEF HashRound, KeyInv
    <2>2. result' = Stage(generating', round')
      BY <1>1, <1>4, <2>1, HashRoundStage
    <2>3. result \in Stages
      <3>1. round \in 0..34
        BY <2>1
      <3>2. \E c \in CipherNames, r \in 0..34 : result = Stage(c, r)
        BY <2>1, <3>1, Zenon
      <3>3. QED
        BY <3>2 DEF Stages
    <2>4. HashedInv'
      <3>1. inputs \in Seq(Stages) /\ Len(inputs) = round
        BY <1>1 DEF KeyInv, HashedInv
      <3>2. /\ inputs' \in Seq(Stages) /\ Len(inputs') = round + 1
            /\ \A r \in 1..round : inputs'[r] = inputs[r]
            /\ inputs'[round + 1] = result
        BY <2>1, <2>3, <3>1
      <3>3. ASSUME NEW r \in 1..round + 1 PROVE inputs'[r] = Stage(generating, r - 1)
        <4>1. CASE r = round + 1
          <5>1. r - 1 = round
            BY <2>1, <4>1
          <5>2. QED
            BY <2>1, <3>2, <4>1, <5>1
        <4>2. CASE r # round + 1
          <5>1. r \in 1..round
            BY <2>1, <4>2
          <5>2. QED
            BY <1>1, <3>2, <5>1 DEF KeyInv, HashedInv
        <4>3. QED
          BY <4>1, <4>2
      <3>4. QED
        BY <2>1, <3>2, <3>3 DEF HashedInv
    <2>5. QED
      BY <2>1, <2>2, <2>4 DEF KeyInv, CipherNames
  <1>5. CASE DealOut
    <2>1. /\ round = 34 /\ result = Stage(generating, 34)
          /\ UNCHANGED <<generating, round, result, inputs>>
      BY <1>1, <1>5 DEF DealOut, KeyInv
    <2>2. Dealt'
      <3>1. \A i \in 0..54 : 4 * i = 4 * i /\ i \in 0..169
        OBVIOUS
      <3>2. \A i \in 0..56 : 220 + 4 * i = 4 * (55 + i) /\ 55 + i \in 0..169
        OBVIOUS
      <3>3. \A i \in 0..57 : 448 + 4 * i = 4 * (55 + 57 + i) /\ 55 + 57 + i \in 0..169
        OBVIOUS
      <3>4. /\ registers'[1] = [i \in 0..54 |-> Word4(4 * i)]
            /\ registers'[2] = [i \in 0..56 |-> Word4(220 + 4 * i)]
            /\ registers'[3] = [i \in 0..57 |-> Word4(448 + 4 * i)]
        BY <1>5 DEF DealOut
      <3>5. \A w \in 0..169 : Word4(4 * w) = DigestWord(w)
        BY <2>1, WordsOfDigests
      <3>6. /\ \A i \in 0..54 : registers'[1][i] = DigestWord(i)
            /\ \A i \in 0..56 : registers'[2][i] = DigestWord(55 + i)
            /\ \A i \in 0..57 : registers'[3][i] = DigestWord(55 + 57 + i)
        BY <3>1, <3>2, <3>3, <3>4, <3>5
      <3>7. QED
        BY <3>6 DEF Dealt
    <2>3. QED
      BY <1>1, <2>1, <2>2 DEF KeyInv, HashedInv
  <1>6. QED
    BY <1>1, <1>2, <1>3, <1>4, <1>5 DEF GenerateKey

LEMMA FirstInput ==
  ASSUME NEW c \in CipherNames, c = generating
  PROVE  TakesTheKeys(Stage(c, 0))
  <1>1. \A i \in ResultBytes : Stage(c, 0)[i] = Unhashed(c)[i]
    BY DEF Stage, ResultBytes
  <1>2. ASSUME NEW i \in ResultBytes \ {0}
        PROVE  i % 128 \in KeyIndex /\ Stage(c, 0)[i] = MixedKey(c)[i % 128]
    BY <1>1, FilledBytes
  <1>3. ASSUME NEW name \in Parts(c), NEW k \in KeyIndex
        PROVE  \E i \in ResultBytes : <<name, k>> \in Stage(c, 0)[i]
    <2>1. PICK j \in KeyIndex : <<name, k>> \in MixedKey(c)[j]
      BY EveryByteMixed
    <2>2. j + 128 \in ResultBytes \ {0} /\ (j + 128) % 128 = j
      BY DEF KeyIndex, ResultBytes
    <2>3. QED
      BY <1>2, <2>1, <2>2
  <1>4. \A i \in ResultBytes \ {0} :
          /\ {byte[1] : byte \in Stage(c, 0)[i]} = Parts(c)
          /\ \A name \in Parts(c) : Cardinality({byte \in Stage(c, 0)[i] : byte[1] = name}) = 1
    BY <1>2, OneOfEach
  <1>5. QED
    BY <1>3, <1>4 DEF TakesTheKeys

(* Every byte of every key counts, for the Decrypt cipher as for the       *)
(* Encrypt one: the first input of the hash holds one byte of each part in *)
(* each of its bytes but one, and every byte of every part somewhere, each *)
(* input after it the whole digest of the one before, and the registers    *)
(* hold all the digests, each word once (ApplyData, ShiftKey, XorKey,      *)
(* FillKey, GenerateKey).                                                  *)
THEOREM KeysUsedUpCorrect == GenerateSpec => []KeysUsedUp
  <1>1. GenerateInit => KeyInv
    BY DEF GenerateInit, KeyInv, HashedInv
  <1>2. KeyInv => KeysUsedUp
    <2> SUFFICES ASSUME KeyInv, registers # <<>> PROVE KeysUsedUp
      BY DEF KeysUsedUp
    <2>1. /\ round = 34 /\ Len(inputs) = 34 /\ Dealt /\ generating \in CipherNames
          /\ \A r \in 1..34 : inputs[r] = Stage(generating, r - 1)
      BY DEF KeyInv, HashedInv
    <2>2. TakesTheKeys(inputs[1])
      BY <2>1, FirstInput
    <2>3. ASSUME NEW r \in 1..33, NEW b \in 0..19
          PROVE  \E i \in ResultBytes : inputs[r + 1][i] = DigestByte(r, b)
      <3> DEFINE i == 20 * (r - 1) + b
      <3>1. /\ i \in ResultBytes /\ i \div 20 = r - 1 /\ i % 20 = b
            /\ r - 1 < r /\ r + 1 \in 1..34 /\ (r - 1) + 1 = r /\ (r + 1) - 1 = r
        BY DEF ResultBytes
      <3> HIDE DEF i
      <3>2. Stage(generating, r)[i] = DigestByte(r, b)
        BY <3>1 DEF Stage
      <3>3. inputs[r + 1] = Stage(generating, r)
        BY <2>1, <3>1
      <3>4. QED
        BY <3>1, <3>2, <3>3
    <2>4. 5 * Len(inputs) = 55 + 57 + 58 /\ 1..Len(inputs) - 1 = 1..33
      BY <2>1
    <2>5. QED
      BY <2>1, <2>2, <2>3, <2>4 DEF Dealt, KeysUsedUp
  <1>3. QED
    BY <1>1, <1>2, KeyInvNext, PTL DEF GenerateSpec

-------------------------------------------------------------------------------
(* The key exchange *)

(* Where a thread is between counting a key and passing it on, and what it *)
(* has done with the keys it has counted.                                  *)
Keying == {"check", "genDecrypt", "genEncrypt", "layers"}
Holding == Keying \cup {"store", "forward"}
Forwarded(t) == IF pc[t] \in Holding THEN count[t] - 1 ELSE count[t]
Stored(t) == IF pc[t] = "store" THEN count[t] - 1 ELSE count[t]
ReadSoFar(t) ==
  IF pc[t] = "count" THEN count[t] + 1 ELSE IF pc[t] = "packet" THEN 3 ELSE count[t]
FirstKeys(t, n) == [i \in 1..n |-> Key(t, i)]

PlaceInv(t) ==
  /\ pc[t] \in {"loop", "count", "store", "forward", "relay", "packet"} \cup Keying
  /\ count[t] \in 0..2
  /\ pc[t] = "count" => count[t] < 2
  /\ pc[t] \in {"store", "forward"} => count[t] > 0
  /\ pc[t] \in Keying \cup {"relay", "packet"} => count[t] = 2
  /\ read[t] = ReadSoFar(t)
  /\ sent[t] \in 0..3 /\ read[t] <= sent[t]
  /\ received[t] = FirstKeys(t, Forwarded(t))
  /\ keys[t] = <<keys[t][1], keys[t][2]>>
  /\ \A i \in 1..Stored(t) : keys[t][i] = Key(t, i)

(* Whoever is second to count its second key has not looked at the other's *)
(* count yet, or is running ApplyData.                                     *)
ApplyInv ==
  (\A t \in Threads : count[t] = 2) /\ applied = 0 =>
    \E t \in Threads : pc[t] \in Keying \cup {"store"}

ExchangeTypes ==
  /\ pc = [t \in Threads |-> pc[t]] /\ count = [t \in Threads |-> count[t]]
  /\ sent = [t \in Threads |-> sent[t]] /\ read = [t \in Threads |-> read[t]]
  /\ received = [t \in Threads |-> received[t]] /\ keys = [t \in Threads |-> keys[t]]
  /\ applied \in Nat

ExchangeInv == ExchangeTypes /\ ApplyInv /\ \A t \in Threads : PlaceInv(t)

(* The ciphers a thread has keyed, at its place in ApplyData.              *)
KeyedAt(place, keysCounted) ==
  CASE keysCounted < 2 \/ place \in {"store", "check", "genDecrypt"} -> {}
    [] place = "genEncrypt" -> {"Decrypt"}
    [] place = "layers"     -> {"Decrypt", "Encrypt"}
    [] OTHER                -> Ciphers

(* As the peers key their own ciphers.                                     *)
Wanted(c) ==
  IF c \in {"Decrypt", "DecryptLayer"} THEN [key |-> DecryptKey(PeerKeys), drawn |-> 128]
  ELSE [key |-> EncryptKey(PeerKeys), drawn |-> 0]

(* If the server's second key is an answer, the server thread alone runs   *)
(* ApplyData, once: by then the client thread has counted, looked and gone *)
(* on.  A peer sends a packet only after all that.                         *)
AnswerInv ==
  /\ sent["server"] >= 2 => Forwarded("client") = 2
  /\ pc["client"] \notin Keying \ {"check"}
  /\ \A t \in Threads : sent[t] = 3 => Forwarded(Other(t)) = 2
  /\ cipher = [c \in Ciphers |->
                 IF c \in KeyedAt(pc["server"], count["server"]) THEN Wanted(c) ELSE Unkeyed]

(* A step of one thread or peer leaves the other's variables alone.        *)
Same(u) ==
  /\ pc'[u] = pc[u] /\ count'[u] = count[u] /\ sent'[u] = sent[u] /\ read'[u] = read[u]
  /\ received'[u] = received[u] /\ keys'[u] = keys[u]

LEMMA SamePlace ==
  ASSUME NEW u, PlaceInv(u), Same(u)
  PROVE  PlaceInv(u)' /\ Forwarded(u)' = Forwarded(u)
  BY DEF Same, PlaceInv, Forwarded, Stored, ReadSoFar, Holding, Keying, FirstKeys, Key

LEMMA StepKeepsOther ==
  ASSUME ExchangeTypes, NEW t \in Threads, Step(t) \/ PeerSends(t)
  PROVE  ExchangeTypes' /\ \A u \in Threads : u # t => Same(u)
  <1>1. ASSUME NEW from, NEW to, Goto(t, from, to)
        PROVE  /\ pc' = [u \in Threads |-> pc'[u]]
               /\ \A u \in Threads : u # t => pc'[u] = pc[u]
    BY <1>1 DEF Goto, ExchangeTypes
  <1>2. CASE PeerSends(t)
    BY <1>2 DEF PeerSends, ExchangeTypes, Same, shared
  <1>3. CASE ReadKey(t) \/ ReadPacket(t)
    BY <1>1, <1>3 DEF ReadKey, ReadPacket, ReadMessage, ExchangeTypes, Same, shared
  <1>4. CASE LeaveKeyLoop(t) \/ CheckOther(t)
    BY <1>1, <1>4 DEF LeaveKeyLoop, CheckOther, ExchangeTypes, Same, shared, network
  <1>5. CASE CountKey(t)
    BY <1>1, <1>5 DEF CountKey, ExchangeTypes, Same, network
  <1>6. CASE StoreKey(t)
    BY <1>1, <1>6 DEF StoreKey, ExchangeTypes, Same, network
  <1>7. CASE GenerateDecrypt(t) \/ GenerateEncrypt(t)
    BY <1>1, <1>7 DEF GenerateDecrypt, GenerateEncrypt, ExchangeTypes, Same, network
  <1>8. CASE CopyLayers(t)
    BY <1>1, <1>8 DEF CopyLayers, ExchangeTypes, Same, network
  <1>9. CASE ForwardKey(t)
    BY <1>1, <1>9 DEF ForwardKey, ExchangeTypes, Same, shared
  <1>10. QED
    BY <1>2, <1>3, <1>4, <1>5, <1>6, <1>7, <1>8, <1>9 DEF Step

LEMMA KeyIsAppended ==
  ASSUME NEW t, NEW n \in 0..1
  PROVE  Append(FirstKeys(t, n), Key(t, n + 1)) = FirstKeys(t, n + 1)
  <1> DEFINE S == {Key(t, i) : i \in 1..2}
  <1>1. FirstKeys(t, n) \in Seq(S) /\ Len(FirstKeys(t, n)) = n
    BY DEF FirstKeys
  <1>2. FirstKeys(t, n + 1) \in Seq(S) /\ Len(FirstKeys(t, n + 1)) = n + 1
    BY DEF FirstKeys
  <1>3. Key(t, n + 1) \in S
    OBVIOUS
  <1>4. \A i \in 1..n : FirstKeys(t, n)[i] = FirstKeys(t, n + 1)[i]
    BY DEF FirstKeys
  <1>5. FirstKeys(t, n + 1)[n + 1] = Key(t, n + 1)
    BY DEF FirstKeys
  <1> HIDE DEF S
  <1>6. QED
    BY <1>1, <1>2, <1>3, <1>4, <1>5

LEMMA PlaceNext ==
  ASSUME ExchangeTypes, NEW t \in Threads, PlaceInv(t), Step(t) \/ PeerSends(t)
  PROVE  PlaceInv(t)'
  <1>1. ASSUME NEW from, NEW to, Goto(t, from, to) PROVE pc[t] = from /\ pc'[t] = to
    BY <1>1 DEF Goto, ExchangeTypes
  <1> USE DEF PlaceInv, Forwarded, Stored, ReadSoFar, Holding, Keying
  <1>2. CASE PeerSends(t)
    <2>1. sent'[t] = sent[t] + 1 /\ sent[t] \in 0..2
      BY <1>2 DEF PeerSends, MaySend, ExchangeTypes
    <2>2. QED
      BY <1>2, <2>1 DEF PeerSends, shared
  <1>3. CASE ReadKey(t)
    <2>1. read'[t] = read[t] + 1 /\ read'[t] <= sent[t] /\ sent' = sent
      BY <1>3 DEF ReadKey, ReadMessage, ExchangeTypes
    <2>2. QED
      BY <1>1, <1>3, <2>1 DEF ReadKey, ReadMessage, HasKey, shared
  <1>4. CASE ReadPacket(t)
    <2>1. read'[t] = read[t] + 1 /\ read'[t] <= sent[t] /\ sent' = sent
      BY <1>4 DEF ReadPacket, ReadMessage, ExchangeTypes
    <2>2. QED
      BY <1>1, <1>4, <2>1 DEF ReadPacket, ReadMessage, shared
  <1>5. CASE LeaveKeyLoop(t)
    BY <1>1, <1>5 DEF LeaveKeyLoop, HasKey, shared, network
  <1>6. CASE CountKey(t)
    <2>1. count'[t] = count[t] + 1
      BY <1>6 DEF CountKey, ExchangeTypes
    <2>2. QED
      BY <1>1, <1>6, <2>1 DEF CountKey, network
  <1>7. CASE StoreKey(t)
    <2>1. /\ pc[t] = "store" /\ count[t] \in 1..2 /\ read[t] = count[t]
          /\ pc'[t] = IF count[t] = 2 THEN "check" ELSE "forward"
      BY <1>1, <1>7 DEF StoreKey
    <2>2. keys'[t] = [keys[t] EXCEPT ![count[t]] = Key(t, count[t])]
      BY <1>7, <2>1 DEF StoreKey, ExchangeTypes
    <2>3. /\ keys'[t] = <<keys'[t][1], keys'[t][2]>>
          /\ \A i \in 1..count[t] : keys'[t][i] = Key(t, i)
      BY <2>1, <2>2
    <2>4. QED
      BY <1>7, <2>1, <2>3 DEF StoreKey, network
  <1>8. CASE CheckOther(t)
    BY <1>1, <1>8 DEF CheckOther, shared, network
  <1>9. CASE GenerateDecrypt(t)
    BY <1>1, <1>9 DEF GenerateDecrypt, network
  <1>10. CASE GenerateEncrypt(t)
    BY <1>1, <1>10 DEF GenerateEncrypt, network
  <1>11. CASE CopyLayers(t)
    BY <1>1, <1>11 DEF CopyLayers, network
  <1>12. CASE ForwardKey(t)
    <2>1. pc[t] = "forward" /\ pc'[t] = "loop" /\ count[t] \in 1..2 /\ read[t] = count[t]
      BY <1>1, <1>12 DEF ForwardKey
    <2>2. received'[t] = Append(FirstKeys(t, count[t] - 1), Key(t, count[t]))
      BY <1>12, <2>1 DEF ForwardKey, ExchangeTypes
    <2>3. received'[t] = FirstKeys(t, count[t])
      BY <2>1, <2>2, KeyIsAppended
    <2>4. QED
      BY <1>12, <2>1, <2>3 DEF ForwardKey, shared
  <1>13. QED
    BY <1>2, <1>3, <1>4, <1>5, <1>6, <1>7, <1>8, <1>9, <1>10, <1>11, <1>12 DEF Step

LEMMA NextIsAKeyStep ==
  ASSUME [Next]_vars
  PROVE  UNCHANGED vars \/ \E t \in Threads : Step(t) \/ PeerSends(t)
  BY DEF Next, Relaying

LEMMA TwoThreads ==
  /\ "server" \in Threads /\ "client" \in Threads
  /\ \A t, u \in Threads : u = t \/ u = Other(t)
  /\ \A t \in Threads : Other(t) \in Threads /\ Other(t) # t /\ Other(Other(t)) = t
  BY DEF Threads, Other

(* A thread that leaves ApplyData or does not enter it has done so for the *)
(* other's sake, or has seen that the other is not complete.               *)
LEMMA ApplyNext ==
  ASSUME ExchangeInv, NEW t \in Threads, Step(t) \/ PeerSends(t)
  PROVE  ApplyInv'
  <1> DEFINE u == Other(t)
  <1>1. u \in Threads /\ u # t /\ \A w \in Threads : w = t \/ w = u
    BY TwoThreads
  <1>2. Same(u)
    BY <1>1, StepKeepsOther DEF ExchangeInv
  <1>3. PlaceInv(t) /\ PlaceInv(t)' /\ PlaceInv(u) /\ ApplyInv /\ applied \in Nat
    BY <1>1, PlaceNext DEF ExchangeInv, ExchangeTypes
  <1>4. ASSUME NEW from, NEW to, Goto(t, from, to) PROVE pc[t] = from /\ pc'[t] = to
    BY <1>4 DEF Goto, ExchangeInv, ExchangeTypes
  <1> HIDE DEF u
  <1>5. SUFFICES ASSUME count'[t] = 2, count'[u] = 2, applied' = 0
                 PROVE  pc'[t] \in Keying \cup {"store"} \/ pc'[u] \in Keying \cup {"store"}
    BY <1>1 DEF ApplyInv
  <1>6. CASE CountKey(t)
    BY <1>4, <1>6 DEF CountKey
  <1>7. CASE StoreKey(t)
    BY <1>4, <1>5, <1>7 DEF StoreKey, Keying
  <1>8. CASE CheckOther(t)
    <2>1. count'[u] = count[u] /\ pc'[t] = IF count[u] = 2 THEN "genDecrypt" ELSE "forward"
      BY <1>4, <1>8 DEF CheckOther, shared, u
    <2>2. QED
      BY <1>5, <2>1 DEF Keying
  <1>9. CASE GenerateDecrypt(t) \/ GenerateEncrypt(t)
    BY <1>4, <1>9 DEF GenerateDecrypt, GenerateEncrypt, Keying
  <1>10. CASE CopyLayers(t)
    BY <1>3, <1>5, <1>10 DEF CopyLayers
  <1>11. CASE PeerSends(t) \/ ReadKey(t) \/ LeaveKeyLoop(t) \/ ForwardKey(t) \/ ReadPacket(t)
    <2>1. /\ count'[t] = count[t] /\ count'[u] = count[u] /\ applied' = applied
          /\ pc'[u] = pc[u]
      BY <1>2, <1>11
         DEF PeerSends, ReadKey, LeaveKeyLoop, ForwardKey, ReadPacket, ReadMessage, shared, Same
    <2>2. pc[t] \in Keying \cup {"store"} => pc'[t] = pc[t]
      <3>1. CASE PeerSends(t)
        BY <3>1 DEF PeerSends
      <3>2. CASE ~PeerSends(t)
        <4>1. pc[t] \in {"loop", "forward", "relay"}
          BY <1>4, <1>11, <3>2 DEF ReadKey, LeaveKeyLoop, ForwardKey, ReadPacket
        <4>2. QED
          BY <4>1 DEF Keying
      <3>3. QED
        BY <3>1, <3>2
    <2>3. \E w \in Threads : pc[w] \in Keying \cup {"store"}
      BY <1>1, <1>3, <1>5, <2>1 DEF ApplyInv
    <2>4. QED
      BY <1>1, <2>1, <2>2, <2>3
  <1>12. QED
    BY <1>6, <1>7, <1>8, <1>9, <1>10, <1>11 DEF Step

LEMMA AppliedCounts ==
  ASSUME applied \in Nat, NEW t \in Threads, Step(t) \/ PeerSends(t)
  PROVE  applied' \in Nat
  BY DEF Step, PeerSends, ReadKey, ReadPacket, ReadMessage, LeaveKeyLoop, CountKey, StoreKey,
         CheckOther, GenerateDecrypt, GenerateEncrypt, CopyLayers, ForwardKey, shared

LEMMA ExchangeInvNext == ExchangeInv /\ [Next]_vars => ExchangeInv'
  <1>1. SUFFICES ASSUME ExchangeInv, [Next]_vars PROVE ExchangeInv'
    OBVIOUS
  <1>2. CASE UNCHANGED vars
    BY <1>1, <1>2 DEF ExchangeInv, ExchangeTypes, ApplyInv, PlaceInv, Forwarded, Stored,
       ReadSoFar, Holding, Keying, FirstKeys, Key, vars, network, shared
  <1>3. ASSUME NEW t \in Threads, Step(t) \/ PeerSends(t) PROVE ExchangeInv'
    <2>1. ApplyInv'
      BY <1>1, <1>3, ApplyNext
    <2>2. ExchangeTypes' /\ \A u \in Threads : u # t => Same(u)
      BY <1>1, <1>3, StepKeepsOther DEF ExchangeInv
    <2>3. PlaceInv(t)'
      BY <1>1, <1>3, PlaceNext DEF ExchangeInv
    <2>4. \A u \in Threads : PlaceInv(u)'
      BY <1>1, <2>2, <2>3, SamePlace DEF ExchangeInv
    <2>5. QED
      BY <2>1, <2>2, <2>4 DEF ExchangeInv
  <1>4. QED
    BY <1>1, <1>2, <1>3, NextIsAKeyStep

LEMMA ExchangeInvInit == Init => ExchangeInv
  BY DEF Init, ExchangeInv, ExchangeTypes, ApplyInv, PlaceInv, Forwarded, Stored, ReadSoFar,
         Holding, Keying, FirstKeys, Threads

(* Each peer gets both keys of the other, in order and unchanged, however  *)
(* the two key loops interleave (SERVER_ThreadRecv, CLIENT_ThreadRecv).    *)
THEOREM KeysForwardedCorrect == Spec => []KeysForwarded
  <1>1. ExchangeInv => KeysForwarded
    <2>1. ASSUME ExchangeInv, NEW t \in Threads
          PROVE  received[t] = SubSeq(PeerKeys[t], 1, Len(received[t]))
      <3>1. Forwarded(t) \in 0..2 /\ received[t] = FirstKeys(t, Forwarded(t))
        BY <2>1 DEF ExchangeInv, PlaceInv, Forwarded, Holding, Keying
      <3>2. ASSUME NEW n \in 0..2
            PROVE  Len(FirstKeys(t, n)) = n /\ FirstKeys(t, n) = SubSeq(PeerKeys[t], 1, n)
        BY DEF FirstKeys, PeerKeys
      <3>3. QED
        BY <3>1, <3>2
    <2>2. QED
      BY <2>1 DEF KeysForwarded
  <1>2. QED
    BY <1>1, ExchangeInvInit, ExchangeInvNext, PTL DEF Spec

(* However the keys arrive and the threads interleave on the unlocked      *)
(* counts, the threads do not both pass the test of the other's count and  *)
(* go on without ApplyData having been run (SVSetKeyData, CLSetKeyData).   *)
THEOREM SomebodyAppliesCorrect == Spec => []SomebodyApplies
  <1>1. ExchangeInv => SomebodyApplies
    <2>1. SUFFICES ASSUME ExchangeInv,
                          \A t \in Threads : HasKey(t) /\ pc[t] \in {"forward", "loop", "relay"}
                   PROVE  applied > 0
      BY DEF SomebodyApplies
    <2>2. \A t \in Threads : count[t] = 2 /\ pc[t] \notin Keying \cup {"store"}
      BY <2>1 DEF ExchangeInv, PlaceInv, HasKey, Keying
    <2>3. QED
      BY <2>1, <2>2 DEF ExchangeInv, ExchangeTypes, ApplyInv
  <1>2. QED
    BY <1>1, ExchangeInvInit, ExchangeInvNext, PTL DEF Spec

(* What has been passed on is not taken back.                              *)
LEMMA ForwardedGrows ==
  ASSUME ExchangeTypes, NEW t \in Threads, PlaceInv(t), Step(t) \/ PeerSends(t)
  PROVE  Forwarded(t) \in 0..2 /\ Forwarded(t)' \in 0..2 /\ Forwarded(t)' >= Forwarded(t)
  <1>1. ASSUME NEW from, NEW to, Goto(t, from, to) PROVE pc[t] = from /\ pc'[t] = to
    BY <1>1 DEF Goto, ExchangeTypes
  <1> USE DEF Forwarded, Holding, Keying
  <1>2. CASE PeerSends(t)
    BY <1>2 DEF PeerSends, PlaceInv, shared
  <1>3. CASE ReadKey(t) \/ ReadPacket(t)
    BY <1>1, <1>3 DEF ReadKey, ReadPacket, ReadMessage, HasKey, PlaceInv, shared
  <1>4. CASE LeaveKeyLoop(t) \/ CheckOther(t)
    BY <1>1, <1>4 DEF LeaveKeyLoop, CheckOther, PlaceInv, shared
  <1>5. CASE CountKey(t)
    <2>1. count'[t] = count[t] + 1
      BY <1>5 DEF CountKey, ExchangeTypes
    <2>2. QED
      BY <1>1, <1>5, <2>1 DEF CountKey, PlaceInv
  <1>6. CASE StoreKey(t)
    BY <1>1, <1>6 DEF StoreKey, PlaceInv
  <1>7. CASE GenerateDecrypt(t) \/ GenerateEncrypt(t) \/ CopyLayers(t)
    BY <1>1, <1>7 DEF GenerateDecrypt, GenerateEncrypt, CopyLayers, PlaceInv
  <1>8. CASE ForwardKey(t)
    BY <1>1, <1>8 DEF ForwardKey, PlaceInv, shared
  <1>9. QED
    BY <1>2, <1>3, <1>4, <1>5, <1>6, <1>7, <1>8 DEF Step

(* A thread that works on its second key has been sent it; a thread that   *)
(* has passed both keys on has stored them and done with them.             *)
LEMMA PlaceFacts ==
  ASSUME NEW t \in Threads, PlaceInv(t)
  PROVE  /\ sent[t] \in 0..3 /\ (count[t] = 2 => sent[t] >= 2)
         /\ pc[t] = "packet" => sent[t] = 3
         /\ pc[t] \in Keying => Forwarded(t) = 1
         /\ Forwarded(t) = 2 =>
              /\ count[t] = 2 /\ pc[t] \in {"loop", "relay", "packet"}
              /\ keys[t][1] = Key(t, 1) /\ keys[t][2] = Key(t, 2)
         /\ Len(received[t]) = Forwarded(t)
  <1>1. Forwarded(t) \in 0..2
    BY DEF PlaceInv, Forwarded, Holding, Keying
  <1>2. Len(received[t]) = Forwarded(t)
    BY <1>1 DEF PlaceInv, FirstKeys
  <1>3. QED
    BY <1>2 DEF PlaceInv, Forwarded, Holding, Keying, ReadSoFar, Stored

(* The sending of a peer, with what it waits for.                          *)
LEMMA SendsAfterAnswer ==
  ASSUME ExchangeInv, serverAnswers, NEW t \in Threads, PeerSends(t)
  PROVE  /\ sent'[t] = sent[t] + 1
         /\ sent[t] = 2 => Forwarded(Other(t)) = 2
         /\ t = "server" /\ sent[t] = 1 => Forwarded(Other(t)) = 2
  <1>1. Heard(t) = Forwarded(Other(t))
    BY TwoThreads, PlaceFacts DEF ExchangeInv, Heard
  <1>2. sent'[t] = sent[t] + 1
    BY DEF PeerSends, ExchangeInv, ExchangeTypes
  <1>3. QED
    BY <1>1, <1>2 DEF PeerSends, MaySend

LEMMA SentStays ==
  ASSUME NEW t \in Threads, Step(t)
  PROVE  sent' = sent
  BY DEF Step, ReadKey, ReadPacket, ReadMessage, LeaveKeyLoop, CountKey, StoreKey, CheckOther,
         GenerateDecrypt, GenerateEncrypt, CopyLayers, ForwardKey, network

(* The two conditions of AnswerInv on what has been sent.                  *)
LEMMA AnswersNext ==
  ASSUME ExchangeInv, AnswerInv, serverAnswers, NEW t \in Threads, Step(t) \/ PeerSends(t)
  PROVE  /\ (sent["server"] >= 2 => Forwarded("client") = 2)'
         /\ \A u \in Threads : (sent[u] = 3 => Forwarded(Other(u)) = 2)'
  <1>1. ASSUME NEW u \in Threads
        PROVE  /\ Forwarded(u) \in 0..2 /\ Forwarded(u)' \in 0..2
               /\ Forwarded(u)' >= Forwarded(u)
    <2>1. CASE u = t
      BY <2>1, ForwardedGrows DEF ExchangeInv
    <2>2. CASE u # t
      <3>1. Same(u) /\ PlaceInv(u)
        BY <2>2, StepKeepsOther DEF ExchangeInv
      <3>2. Forwarded(u) \in 0..2
        BY <3>1 DEF PlaceInv, Forwarded, Holding, Keying
      <3>3. QED
        BY <3>1, <3>2, SamePlace
    <2>3. QED
      BY <2>1, <2>2
  <1>2. ASSUME NEW u \in Threads, NEW n \in {2, 3}, sent'[u] >= n, ~(sent[u] >= n)
        PROVE  u = t /\ PeerSends(t) /\ sent[t] = n - 1
    <2>1. PlaceInv(u) /\ sent[u] \in 0..3
      BY DEF ExchangeInv, PlaceInv
    <2>2. u = t
      BY <1>2, StepKeepsOther DEF ExchangeInv, Same
    <2>3. PeerSends(t)
      BY <1>2, SentStays
    <2>4. QED
      BY <1>2, <2>1, <2>2, <2>3, SendsAfterAnswer
  <1>3. ASSUME sent'["server"] >= 2 PROVE Forwarded("client")' = 2
    <2>1. Forwarded("client") = 2
      <3>1. CASE sent["server"] >= 2
        BY <3>1 DEF AnswerInv
      <3>2. CASE ~(sent["server"] >= 2)
        <4>1. t = "server" /\ PeerSends(t) /\ sent[t] = 1
          BY <1>2, <1>3, <3>2, TwoThreads
        <4>2. QED
          BY <4>1, SendsAfterAnswer DEF Other
      <3>3. QED
        BY <3>1, <3>2
    <2>2. QED
      BY <1>1, <2>1, TwoThreads
  <1>4. ASSUME NEW u \in Threads, sent'[u] = 3 PROVE Forwarded(Other(u))' = 2
    <2>1. Forwarded(Other(u)) = 2
      <3>1. CASE sent[u] >= 3
        <4>1. sent[u] = 3
          BY <3>1, PlaceFacts DEF ExchangeInv
        <4>2. QED
          BY <4>1 DEF AnswerInv
      <3>2. CASE ~(sent[u] >= 3)
        <4>1. u = t /\ PeerSends(t) /\ sent[t] = 2
          BY <1>2, <1>4, <3>2
        <4>2. QED
          BY <4>1, SendsAfterAnswer
      <3>3. QED
        BY <3>1, <3>2
    <2>2. QED
      BY <1>1, <2>1, TwoThreads
  <1>5. Other("server") = "client" /\ \A u \in Threads : Other(u)' = Other(u)
    BY DEF Other
  <1>6. QED
    BY <1>3, <1>4, <1>5

(* The two keys as the peers mix them, once all parts are there.           *)
LEMMA MixedAsPeersDo ==
  ASSUME \A t \in Threads : keys[t][1] = Key(t, 1) /\ keys[t][2] = Key(t, 2)
  PROVE  DecryptKey(keys) = DecryptKey(PeerKeys) /\ EncryptKey(keys) = EncryptKey(PeerKeys)
  BY TwoThreads DEF DecryptKey, EncryptKey, PeerKeys

(* The places a step leads to.                                             *)
LEMMA StepMoves ==
  ASSUME ExchangeTypes, NEW t \in Threads, Step(t)
  PROVE  \/ pc[t] = "loop" /\ pc'[t] \in {"count", "relay"}
         \/ pc[t] = "count" /\ pc'[t] = "store"
         \/ pc[t] = "store" /\ pc'[t] \in {"check", "forward"}
         \/ pc[t] = "check" /\ pc'[t] = IF count[Other(t)] = 2 THEN "genDecrypt" ELSE "forward"
         \/ pc[t] = "genDecrypt" /\ pc'[t] = "genEncrypt"
         \/ pc[t] = "genEncrypt" /\ pc'[t] = "layers"
         \/ pc[t] = "layers" /\ pc'[t] = "forward"
         \/ pc[t] = "forward" /\ pc'[t] = "loop"
         \/ pc[t] = "relay" /\ pc'[t] = "packet"
  <1>1. ASSUME NEW from, NEW to, Goto(t, from, to) PROVE pc[t] = from /\ pc'[t] = to
    BY <1>1 DEF Goto, ExchangeTypes
  <1>2. CASE ReadKey(t) \/ LeaveKeyLoop(t) \/ CountKey(t) \/ StoreKey(t)
    BY <1>1, <1>2 DEF ReadKey, LeaveKeyLoop, CountKey, StoreKey
  <1>3. CASE CheckOther(t)
    BY <1>1, <1>3 DEF CheckOther
  <1>4. CASE GenerateDecrypt(t) \/ GenerateEncrypt(t) \/ CopyLayers(t)
    BY <1>1, <1>4 DEF GenerateDecrypt, GenerateEncrypt, CopyLayers
  <1>5. CASE ForwardKey(t) \/ ReadPacket(t)
    BY <1>1, <1>5 DEF ForwardKey, ReadPacket
  <1>6. QED
    BY <1>2, <1>3, <1>4, <1>5 DEF Step

(* The client thread is past its look at the server's count when that gets *)
(* to two, so it never finds it so.                                        *)
LEMMA ClientDoesNotApply ==
  ASSUME ExchangeInv, AnswerInv, serverAnswers, NEW t \in Threads, Step(t) \/ PeerSends(t)
  PROVE  (pc["client"] \notin Keying \ {"check"})'
  <1>1. PlaceInv("client") /\ PlaceInv("server") /\ pc["client"] \notin Keying \ {"check"}
    BY TwoThreads DEF ExchangeInv, AnswerInv
  <1>2. CASE t = "server"
    <2>1. pc'["client"] = pc["client"]
      BY <1>2, TwoThreads, StepKeepsOther DEF ExchangeInv, Same
    <2>2. QED
      BY <1>1, <2>1 DEF Keying
  <1>3. CASE t = "client"
    <2>1. pc[t] = "check" => count[Other(t)] # 2
      <3>1. pc[t] = "check" => Forwarded("client") = 1 /\ ~(sent["server"] >= 2)
        BY <1>1, <1>3, PlaceFacts DEF AnswerInv, Keying
      <3>2. QED
        BY <1>1, <1>3, <3>1, PlaceFacts, TwoThreads DEF Other
    <2>2. CASE Step(t)
      <3>1. pc[t] \notin {"genDecrypt", "genEncrypt", "layers"}
        BY <1>1, <1>3 DEF Keying
      <3>2. pc'[t] \notin {"genDecrypt", "genEncrypt", "layers"}
        BY <2>1, <2>2, <3>1, StepMoves DEF ExchangeInv
      <3>3. QED
        BY <1>3, <3>2 DEF Keying
    <2>3. CASE PeerSends(t)
      BY <1>1, <2>3 DEF PeerSends, Keying
    <2>4. QED
      BY <2>2, <2>3
  <1>4. QED
    BY <1>2, <1>3 DEF Threads

(* The ciphers when those in S have been keyed.                            *)
KeyedOf(S) == [c \in Ciphers |-> IF c \in S THEN Wanted(c) ELSE Unkeyed]

LEMMA CiphersNext ==
  ASSUME ExchangeInv, AnswerInv, serverAnswers, NEW t \in Threads, Step(t) \/ PeerSends(t)
  PROVE  cipher' = KeyedOf(KeyedAt(pc["server"], count["server"])')
  <1>1. /\ PlaceInv("client") /\ PlaceInv("server")
        /\ pc["client"] \notin Keying \ {"check"}
        /\ cipher = KeyedOf(KeyedAt(pc["server"], count["server"]))
    BY TwoThreads DEF ExchangeInv, AnswerInv, KeyedOf
  <1>2. ASSUME NEW u \in Threads, NEW from, NEW to, Goto(u, from, to)
        PROVE  pc[u] = from /\ pc'[u] = to
    BY <1>2 DEF Goto, ExchangeInv, ExchangeTypes
  <1>3. CASE t = "client" \/ PeerSends(t)
    <2>1. pc'["server"] = pc["server"] /\ count'["server"] = count["server"]
      <3>1. CASE t = "client"
        BY <3>1, TwoThreads, StepKeepsOther DEF ExchangeInv, Same
      <3>2. CASE PeerSends(t)
        BY <3>2 DEF PeerSends, shared
      <3>3. QED
        BY <1>3, <3>1, <3>2
    <2>2. cipher' = cipher
      <3>1. ~GenerateDecrypt("client") /\ ~GenerateEncrypt("client") /\ ~CopyLayers("client")
        BY <1>1, <1>2, TwoThreads DEF GenerateDecrypt, GenerateEncrypt, CopyLayers, Keying
      <3>2. QED
        BY <1>3, <3>1
           DEF Step, PeerSends, ReadKey, ReadPacket, ReadMessage, LeaveKeyLoop, CountKey, StoreKey,
               CheckOther, ForwardKey, shared
    <2>3. QED
      BY <1>1, <2>1, <2>2
  <1>4. CASE t = "server" /\ Step(t)
    <2>1. pc["server"] \in Keying =>
            /\ count["server"] = 2 /\ count["client"] = 2
            /\ DecryptKey(keys) = DecryptKey(PeerKeys) /\ EncryptKey(keys) = EncryptKey(PeerKeys)
      <3>1. SUFFICES ASSUME pc["server"] \in Keying
                     PROVE  /\ count["server"] = 2 /\ count["client"] = 2
                            /\ DecryptKey(keys) = DecryptKey(PeerKeys)
                            /\ EncryptKey(keys) = EncryptKey(PeerKeys)
        OBVIOUS
      <3>2. count["server"] = 2 /\ Stored("server") = 2
        BY <1>1, <3>1 DEF PlaceInv, Stored, Keying
      <3>3. Forwarded("client") = 2
        BY <1>1, <3>2, PlaceFacts, TwoThreads DEF AnswerInv
      <3>4. /\ count["client"] = 2
            /\ keys["client"][1] = Key("client", 1) /\ keys["client"][2] = Key("client", 2)
        BY <1>1, <3>3, PlaceFacts, TwoThreads
      <3>5. keys["server"][1] = Key("server", 1) /\ keys["server"][2] = Key("server", 2)
        BY <1>1, <3>2 DEF PlaceInv
      <3>6. QED
        BY <3>2, <3>4, <3>5, MixedAsPeersDo DEF Threads
    <2>2. CASE GenerateDecrypt(t)
      <3>1. /\ pc["server"] = "genDecrypt" /\ pc'["server"] = "genEncrypt"
            /\ count["server"] = 2 /\ count'["server"] = 2
            /\ cipher = KeyedOf({}) /\ DecryptKey(keys) = DecryptKey(PeerKeys)
        <4>1. pc["server"] = "genDecrypt" /\ pc'["server"] = "genEncrypt"
          BY <1>2, <1>4, <2>2 DEF GenerateDecrypt
        <4>2. count' = count
          BY <2>2 DEF GenerateDecrypt
        <4>3. QED
          BY <1>1, <2>1, <4>1, <4>2 DEF KeyedAt, Keying
      <3>2. cipher' = [cipher EXCEPT !["Decrypt"] = [key |-> DecryptKey(PeerKeys), drawn |-> 128]]
        <4>1. cipher["Decrypt"].drawn = 0
          BY <3>1 DEF KeyedOf, Unkeyed, Ciphers
        <4>2. ASSUME NEW k
              PROVE  Drawn([key |-> k, drawn |-> 0], 128) = [key |-> k, drawn |-> 128]
          BY DEF Drawn
        <4>3. Drawn(Generated(cipher["Decrypt"], DecryptKey(keys)), 128)
                = [key |-> DecryptKey(PeerKeys), drawn |-> 128]
          BY <3>1, <4>1, <4>2 DEF Generated
        <4>4. QED
          BY <2>2, <4>3 DEF GenerateDecrypt
      <3>3. cipher' = KeyedOf({"Decrypt"})
        BY <3>1, <3>2 DEF KeyedOf, Wanted, Ciphers
      <3>4. QED
        BY <3>1, <3>3 DEF KeyedAt
    <2>3. CASE GenerateEncrypt(t)
      <3>1. /\ pc["server"] = "genEncrypt" /\ pc'["server"] = "layers"
            /\ count["server"] = 2 /\ count'["server"] = 2
            /\ cipher = KeyedOf({"Decrypt"}) /\ EncryptKey(keys) = EncryptKey(PeerKeys)
        BY <1>1, <1>2, <1>4, <2>1, <2>3 DEF GenerateEncrypt, KeyedAt, Keying
      <3>2. cipher' = [cipher EXCEPT !["Encrypt"] = [key |-> EncryptKey(PeerKeys), drawn |-> 0]]
        BY <2>3, <3>1 DEF GenerateEncrypt, KeyedOf, Generated, Unkeyed, Ciphers
      <3>3. cipher' = KeyedOf({"Decrypt", "Encrypt"})
        BY <3>1, <3>2 DEF KeyedOf, Wanted, Ciphers
      <3>4. QED
        BY <3>1, <3>3 DEF KeyedAt
    <2>4. CASE CopyLayers(t)
      <3>1. /\ pc["server"] = "layers" /\ pc'["server"] = "forward"
            /\ count["server"] = 2 /\ count'["server"] = 2
            /\ cipher = KeyedOf({"Decrypt", "Encrypt"})
        BY <1>1, <1>2, <1>4, <2>1, <2>4 DEF CopyLayers, KeyedAt, Keying
      <3>2. cipher' = KeyedOf(Ciphers)
        BY <2>4, <3>1 DEF CopyLayers, KeyedOf, Wanted, Ciphers
      <3>3. QED
        BY <3>1, <3>2 DEF KeyedAt
    <2>5. CASE ~(GenerateDecrypt(t) \/ GenerateEncrypt(t) \/ CopyLayers(t))
      <3>1. cipher' = cipher
        BY <1>4, <2>5
           DEF Step, ReadKey, ReadPacket, ReadMessage, LeaveKeyLoop, CountKey, StoreKey,
               CheckOther, ForwardKey, shared
      <3>2. KeyedAt(pc'["server"], count'["server"]) = KeyedAt(pc["server"], count["server"])
        <4>1. CASE CountKey(t)
          <5>1. pc["server"] = "count" /\ pc'["server"] = "store" /\ count["server"] < 2
            BY <1>1, <1>2, <1>4, <4>1 DEF CountKey, PlaceInv
          <5>2. QED
            BY <5>1 DEF KeyedAt
        <4>2. CASE StoreKey(t)
          <5>1. /\ pc["server"] = "store" /\ count'["server"] = count["server"]
                /\ count["server"] \in 1..2
                /\ pc'["server"] = IF count["server"] = 2 THEN "check" ELSE "forward"
            BY <1>1, <1>2, <1>4, <4>2 DEF StoreKey, PlaceInv
          <5>2. QED
            BY <5>1 DEF KeyedAt
        <4>3. CASE CheckOther(t)
          <5>1. /\ pc["server"] = "check" /\ count'["server"] = count["server"]
                /\ pc'["server"] = IF count["client"] = 2 THEN "genDecrypt" ELSE "forward"
            BY <1>2, <1>4, <4>3 DEF CheckOther, Other, shared
          <5>2. count["client"] = 2
            BY <2>1, <5>1 DEF Keying
          <5>3. QED
            BY <5>1, <5>2 DEF KeyedAt
        <4>4. CASE ReadKey(t) \/ LeaveKeyLoop(t) \/ ForwardKey(t) \/ ReadPacket(t)
          <5>1. /\ count'["server"] = count["server"]
                /\ pc["server"] \in {"loop", "forward", "relay"}
                /\ pc'["server"] \in {"count", "relay", "loop", "packet"}
            BY <1>2, <1>4, <4>4
               DEF ReadKey, LeaveKeyLoop, ForwardKey, ReadPacket, ReadMessage, shared
          <5>2. QED
            BY <5>1 DEF KeyedAt
        <4>5. QED
          BY <1>4, <2>5, <4>1, <4>2, <4>3, <4>4 DEF Step
      <3>3. QED
        BY <1>1, <3>1, <3>2
    <2>6. QED
      BY <2>2, <2>3, <2>4, <2>5
  <1>5. QED
    BY <1>3, <1>4 DEF Threads

LEMMA AnswerInvNext ==
  ASSUME ExchangeInv, AnswerInv, serverAnswers, [Next]_vars
  PROVE  AnswerInv'
  <1>1. CASE UNCHANGED vars
    BY <1>1 DEF AnswerInv, Forwarded, KeyedAt, Wanted, Holding, vars, network, shared
  <1>2. ASSUME NEW t \in Threads, Step(t) \/ PeerSends(t) PROVE AnswerInv'
    BY <1>2, AnswersNext, ClientDoesNotApply, CiphersNext DEF AnswerInv, KeyedOf
  <1>3. QED
    BY <1>1, <1>2, NextIsAKeyStep

LEMMA AnswersStay == [Next]_vars => serverAnswers' = serverAnswers
  BY DEF Next, Relaying, Step, PeerSends, ReadKey, ReadPacket, ReadMessage, LeaveKeyLoop,
         CountKey, StoreKey, CheckOther, GenerateDecrypt, GenerateEncrypt, CopyLayers,
         ForwardKey, vars, network

(* If the server's second key is an answer to the client's, all four       *)
(* ciphers hold the peers' keys, at the peers' positions, when the first   *)
(* packet arrives: ApplyData has run once, with all four keys, and is over *)
(* although nothing locks the state it works on (SVSetKeyData,             *)
(* CLSetKeyData, ApplyData).                                               *)
THEOREM KeyedBeforeUseCorrect == Spec => []KeyedBeforeUse
  <1> DEFINE I == ExchangeInv /\ (serverAnswers => AnswerInv)
  <1>1. Init => I
    <2>1. Init => AnswerInv
      BY DEF Init, AnswerInv, Forwarded, Holding, Keying, KeyedAt, Threads
    <2>2. QED
      BY <2>1, ExchangeInvInit
  <1>2. I /\ [Next]_vars => I'
    BY ExchangeInvNext, AnswerInvNext, AnswersStay
  <1>3. I => KeyedBeforeUse
    <2>1. SUFFICES ASSUME ExchangeInv, AnswerInv, NEW t \in Threads, pc[t] = "packet",
                          NEW c \in Ciphers
                   PROVE  Keyed(c)
      BY DEF KeyedBeforeUse
    <2>2. Forwarded(Other(t)) = 2 /\ PlaceInv(t) /\ PlaceInv(Other(t)) /\ count[t] = 2
      BY <2>1, PlaceFacts, TwoThreads DEF ExchangeInv, AnswerInv, PlaceInv
    <2>3. pc["server"] \in {"loop", "relay", "packet"} /\ count["server"] = 2
      <3>1. CASE t = "server"
        BY <2>1, <2>2, <3>1
      <3>2. CASE t = "client"
        BY <2>2, <3>2, PlaceFacts, TwoThreads DEF Other
      <3>3. QED
        BY <3>1, <3>2 DEF Threads
    <2>4. cipher[c] = Wanted(c)
      BY <2>1, <2>3 DEF AnswerInv, KeyedAt
    <2>5. QED
      BY <2>1, <2>4 DEF Keyed, Wanted, Ciphers
  <1>4. QED
    BY <1>1, <1>2, <1>3, PTL DEF Spec

-------------------------------------------------------------------------------
(* The hash *)

(* The least number of a set of naturals.                                  *)
LEMMA LeastNatural ==
  ASSUME NEW S \in SUBSET Nat, S # {}
  PROVE  \E i \in S : \A j \in S : i <= j
  <1> DEFINE R == OpToRel(<, Nat)
  <1>1. IsWellFoundedOn(R, Nat)
    BY NatLessThanWellFounded
  <1>2. \A i, j \in Nat : i < j => <<i, j>> \in R
    BY DEF OpToRel
  <1> HIDE DEF R
  <1>3. PICK i \in S : \A j \in S : <<j, i>> \notin R
    BY <1>1, WFMin, Zenon
  <1>4. \A j \in S : ~(j < i)
    BY <1>2, <1>3, Zenon
  <1>5. QED
    BY <1>4

Words == 0..LengthRange - 1
Block == [Bytes -> 0..255]

(* The object with an index within the block, or behind it.                *)
ObjectTo(end) ==
  [Computed : BOOLEAN, Corrupted : BOOLEAN, LengthLow : Words, LengthHigh : Words,
   MsgIndex : 0..end, MessageBlock : Block, MessageDigest : Seq(Block)]
Object == ObjectTo(63)

(* The bits of the message, counted in two words, and whether both wrap.   *)
Low(s) == (s.LengthLow + 8) % LengthRange
High(s) == IF Low(s) = 0 THEN (s.LengthHigh + 1) % LengthRange ELSE s.LengthHigh
Filled(s, byte) == [s.MessageBlock EXCEPT ![s.MsgIndex] = byte]

LEMMA WordsCount ==
  ASSUME NEW s \in Object
  PROVE  Low(s) \in Words /\ High(s) \in Words
  <1>1. s.LengthLow \in Words /\ s.LengthHigh \in Words
    BY DEF Object, ObjectTo
  <1>2. \A n \in Nat : n % LengthRange \in Words
    BY ShaAssumption DEF Words
  <1>3. s.LengthLow + 8 \in Nat /\ s.LengthHigh + 1 \in Nat
    BY <1>1, ShaAssumption DEF Words
  <1>4. QED
    BY <1>1, <1>2, <1>3 DEF Low, High

LEMMA Processed ==
  ASSUME NEW s \in ObjectTo(64)
  PROVE  LET r == ProcessMessageBlock(s)
         IN  /\ r \in Object
             /\ r.Computed = s.Computed /\ r.Corrupted = s.Corrupted
             /\ r.LengthLow = s.LengthLow /\ r.LengthHigh = s.LengthHigh
             /\ r.MessageBlock = s.MessageBlock /\ r.MsgIndex = 0
             /\ r.MessageDigest = Append(s.MessageDigest, s.MessageBlock)
  <1> DEFINE r == ProcessMessageBlock(s)
             digest == Append(s.MessageDigest, s.MessageBlock)
  <1>1. r = [s EXCEPT !.MessageDigest = digest, !.MsgIndex = 0]
    BY DEF ProcessMessageBlock
  <1>2. digest \in Seq(Block)
    BY DEF ObjectTo
  <1>3. 0 \in 0..63
    OBVIOUS
  <1> HIDE DEF r, digest
  <1>4. r \in Object
    BY <1>1, <1>2, <1>3 DEF Object, ObjectTo
  <1>5. r.MsgIndex = 0 /\ r.MessageDigest = digest
    BY <1>1 DEF ObjectTo
  <1>6. r.Computed = s.Computed /\ r.Corrupted = s.Corrupted
    BY <1>1 DEF ObjectTo
  <1>7. /\ r.LengthLow = s.LengthLow /\ r.LengthHigh = s.LengthHigh
        /\ r.MessageBlock = s.MessageBlock
    BY <1>1 DEF ObjectTo
  <1>8. QED
    BY <1>4, <1>5, <1>6, <1>7, Zenon DEF r, digest

(* A byte goes into the block, its bits are counted, and a full block is   *)
(* processed.                                                              *)
LEMMA ByteIn ==
  ASSUME NEW s \in Object, ~s.Corrupted, NEW byte \in 0..255
  PROVE  LET r == InputByte(s, byte)
         IN  /\ r \in Object
             /\ r.Computed = s.Computed /\ r.Corrupted = (Low(s) = 0 /\ High(s) = 0)
             /\ r.LengthLow = Low(s) /\ r.LengthHigh = High(s)
             /\ r.MessageBlock = Filled(s, byte)
             /\ s.MsgIndex # 63 => /\ r.MsgIndex = s.MsgIndex + 1
                                   /\ r.MessageDigest = s.MessageDigest
             /\ s.MsgIndex = 63 => /\ r.MsgIndex = 0
                                   /\ r.MessageDigest = Append(s.MessageDigest, Filled(s, byte))
  <1> DEFINE put     == [s EXCEPT !.MessageBlock[s.MsgIndex] = byte, !.MsgIndex = @ + 1]
             counted == CountBits(put)
             r       == InputByte(s, byte)
  <1>1. /\ s.Computed \in BOOLEAN /\ s.LengthLow \in Words /\ s.LengthHigh \in Words
        /\ s.MsgIndex \in 0..63 /\ s.MessageBlock \in Block /\ s.MessageDigest \in Seq(Block)
    BY DEF Object, ObjectTo
  <1>2. Filled(s, byte) \in Block
    BY <1>1 DEF Filled, Block, Bytes
  <1>3. /\ put \in ObjectTo(64)
        /\ put.Computed = s.Computed /\ put.LengthLow = s.LengthLow
        /\ put.LengthHigh = s.LengthHigh /\ put.MessageDigest = s.MessageDigest
        /\ put.MsgIndex = s.MsgIndex + 1 /\ put.MessageBlock = Filled(s, byte)
    <2>1. s.MsgIndex + 1 \in 0..64
      <3>1. \A i \in 0..63 : i + 1 \in 0..64
        OBVIOUS
      <3>2. QED
        BY <1>1, <3>1, Zenon
    <2>2. put = [s EXCEPT !.MessageBlock = Filled(s, byte), !.MsgIndex = s.MsgIndex + 1]
      BY DEF Filled
    <2> HIDE DEF put
    <2>3. QED
      <3>1. s \in ObjectTo(64)
        BY DEF Object, ObjectTo
      <3>2. put \in ObjectTo(64)
        BY <1>2, <2>1, <2>2, <3>1 DEF ObjectTo
      <3>3. /\ put.Computed = s.Computed /\ put.LengthLow = s.LengthLow
            /\ put.LengthHigh = s.LengthHigh /\ put.MessageDigest = s.MessageDigest
            /\ put.MsgIndex = s.MsgIndex + 1 /\ put.MessageBlock = Filled(s, byte)
        BY <2>2, <3>1 DEF ObjectTo
      <3>4. QED
        BY <3>2, <3>3
  <1>4. Low(put) = Low(s) /\ High(put) = High(s)
    BY <1>3 DEF Low, High
  <1>5. Low(s) \in Words /\ High(s) \in Words
    BY WordsCount
  <1>6. /\ counted \in ObjectTo(64)
        /\ counted.Computed = s.Computed /\ counted.Corrupted = (Low(s) = 0 /\ High(s) = 0)
        /\ counted.LengthLow = Low(s) /\ counted.LengthHigh = High(s)
        /\ counted.MessageDigest = s.MessageDigest
        /\ counted.MsgIndex = s.MsgIndex + 1 /\ counted.MessageBlock = Filled(s, byte)
    <2>1. counted = [put EXCEPT !.LengthLow = Low(s), !.LengthHigh = High(s),
                                !.Corrupted = Low(s) = 0 /\ High(s) = 0]
      <3> HIDE DEF put
      <3>1. QED
        BY <1>4 DEF CountBits, Low, High
    <2>2. (Low(s) = 0 /\ High(s) = 0) \in BOOLEAN
      OBVIOUS
    <2> HIDE DEF put, counted
    <2>3. QED
      BY <1>3, <1>5, <2>1, <2>2 DEF ObjectTo
  <1>7. r = IF counted.MsgIndex = 64 THEN ProcessMessageBlock(counted) ELSE counted
    BY DEF InputByte
  <1> HIDE DEF put, counted, r
  <1>8. CASE s.MsgIndex # 63
    <2>1. r = counted /\ counted.MsgIndex \in 0..63
      <3>1. \A i \in 0..63 : i # 63 => i + 1 # 64 /\ i + 1 \in 0..63
        OBVIOUS
      <3>2. counted.MsgIndex # 64 /\ counted.MsgIndex \in 0..63
        BY <1>1, <1>6, <1>8, <3>1, Zenon
      <3>3. QED
        BY <1>7, <3>2, Zenon
    <2>2. counted \in Object
      BY <1>6, <2>1 DEF Object, ObjectTo
    <2>3. QED
      BY <1>6, <1>8, <2>1, <2>2 DEF r
  <1>9. CASE s.MsgIndex = 63
    <2>1. r = ProcessMessageBlock(counted)
      <3>1. 63 + 1 = 64
        OBVIOUS
      <3>2. counted.MsgIndex = 64
        BY <1>6, <1>9, <3>1, Zenon
      <3>3. QED
        BY <1>7, <3>2, Zenon
    <2>2. /\ r \in Object
          /\ r.Computed = counted.Computed /\ r.Corrupted = counted.Corrupted
          /\ r.LengthLow = counted.LengthLow /\ r.LengthHigh = counted.LengthHigh
          /\ r.MessageBlock = counted.MessageBlock /\ r.MsgIndex = 0
          /\ r.MessageDigest = Append(counted.MessageDigest, counted.MessageBlock)
      BY <1>6, <2>1, Processed, Zenon
    <2>3. r.MessageDigest = Append(s.MessageDigest, Filled(s, byte))
      BY <1>6, <2>2, Zenon
    <2>4. QED
      BY <1>6, <1>9, <2>2, <2>3, Zenon DEF r
  <1>10. QED
    BY <1>8, <1>9

(* Block b of the message, from 0, and the first k.                        *)
BlockOf(b) == [i \in Bytes |-> Message[64 * b + i + 1]]
DigestTo(k) == [b \in 1..k |-> BlockOf(b - 1)]

(* The object when it has been given the first n bytes of the message.     *)
Fed(s, n) ==
  /\ ~s.Computed /\ ~s.Corrupted
  /\ s.LengthLow % 8 = 0 /\ 8 * n = s.LengthHigh * LengthRange + s.LengthLow
  /\ s.MsgIndex = n % 64
  /\ s.MessageDigest = DigestTo(n \div 64)
  /\ \A i \in Bytes : i < n % 64 => s.MessageBlock[i] = Message[64 * (n \div 64) + i + 1]

(* f and one more block.                                                   *)
LEMMA OneMore ==
  ASSUME NEW k \in Nat, NEW S, NEW f \in [1..k -> S], NEW g \in [1..k + 1 -> S],
         \A b \in 1..k : f[b] = g[b]
  PROVE  Append(f, g[k + 1]) = g
  <1>1. f \in Seq(S) /\ Len(f) = k /\ g \in Seq(S) /\ Len(g) = k + 1 /\ g[k + 1] \in S
    OBVIOUS
  <1>2. QED
    BY <1>1

LEMMA DigestGrows ==
  ASSUME NEW k \in Nat
  PROVE  Append(DigestTo(k), BlockOf(k)) = DigestTo(k + 1)
  <1> DEFINE S == {BlockOf(b) : b \in Nat}
  <1>1. (\A b \in 1..k + 1 : b - 1 \in Nat) /\ (k + 1) - 1 = k /\ k + 1 \in 1..k + 1
    OBVIOUS
  <1>2. DigestTo(k) \in [1..k -> S] /\ DigestTo(k + 1) \in [1..k + 1 -> S]
    BY <1>1 DEF DigestTo
  <1>3. /\ \A b \in 1..k : DigestTo(k)[b] = DigestTo(k + 1)[b]
        /\ DigestTo(k + 1)[k + 1] = BlockOf(k)
    BY <1>1 DEF DigestTo
  <1> HIDE DEF S
  <1>4. Append(DigestTo(k), DigestTo(k + 1)[k + 1]) = DigestTo(k + 1)
    BY <1>2, <1>3, OneMore
  <1>5. QED
    BY <1>3, <1>4

(* Counting a byte's bits, unless both words wrap.                         *)
LEMMA BitsCounted ==
  ASSUME NEW s \in Object, NEW n \in Nat,
         s.LengthLow % 8 = 0, 8 * n = s.LengthHigh * LengthRange + s.LengthLow,
         ~(Low(s) = 0 /\ High(s) = 0)
  PROVE  Low(s) % 8 = 0 /\ 8 * (n + 1) = High(s) * LengthRange + Low(s)
  <1> DEFINE low   == s.LengthLow
             high  == s.LengthHigh
             low1  == Low(s)
             high1 == High(s)
  <1>0. /\ low \in Words /\ high \in Words /\ low % 8 = 0
        /\ 8 * n = high * LengthRange + low
        /\ low1 = (low + 8) % LengthRange
        /\ high1 = IF low1 = 0 THEN (high + 1) % LengthRange ELSE high
        /\ ~(low1 = 0 /\ high1 = 0)
    BY DEF Object, ObjectTo, Low, High
  <1> HIDE DEF low, high, low1, high1
  <1>1. PICK k \in Nat : LengthRange = 8 * k /\ k # 0
    <2>1. LengthRange = 8 * (LengthRange \div 8) /\ LengthRange \div 8 \in Nat
      BY ShaAssumption
    <2>2. QED
      BY <2>1, ShaAssumption
  <1>2. PICK l \in Nat : low = 8 * l
    <2>1. low = 8 * (low \div 8) /\ low \div 8 \in Nat
      BY <1>0, ShaAssumption DEF Words
    <2>2. QED
      BY <2>1
  <1>3. l + 1 <= k
    BY <1>0, <1>1, <1>2 DEF Words
  <1>4. high \in Nat /\ high < LengthRange /\ high * LengthRange \in Nat
    BY <1>0, ShaAssumption DEF Words
  <1>5. CASE l + 1 = k
    <2>1. low + 8 = LengthRange /\ low1 = 0
      <3>1. low + 8 = LengthRange
        BY <1>1, <1>2, <1>5
      <3>2. LengthRange % LengthRange = 0
        BY ShaAssumption
      <3>3. QED
        BY <1>0, <3>1, <3>2
    <2>2. high1 = high + 1
      <3>1. high1 = (high + 1) % LengthRange /\ high1 # 0
        BY <1>0, <2>1
      <3>2. high + 1 # LengthRange
        BY <3>1, ShaAssumption
      <3>3. QED
        BY <1>4, <3>1, <3>2, ShaAssumption
    <2>3. high1 * LengthRange = high * LengthRange + LengthRange
      BY <1>4, <2>2, ShaAssumption
    <2>4. 8 * (n + 1) = high * LengthRange + low + 8
      BY <1>0, <1>2, <1>4
    <2>5. 8 * (n + 1) = high1 * LengthRange + low1
      BY <1>2, <1>4, <2>1, <2>3, <2>4, ShaAssumption
    <2>6. low1 % 8 = 0
      BY <2>1
    <2>7. QED
      BY <2>5, <2>6 DEF low1, high1
  <1>6. CASE l + 1 < k
    <2>1. low + 8 < LengthRange /\ low + 8 \in Nat /\ low + 8 > 0
      BY <1>1, <1>2, <1>6
    <2>2. low1 = low + 8
      <3>1. \A a \in Nat : a < LengthRange => a % LengthRange = a
        BY ShaAssumption
      <3>2. QED
        BY <1>0, <2>1, <3>1
    <2>3. high1 = high /\ low1 = 8 * (l + 1)
      BY <1>0, <1>2, <2>1, <2>2
    <2>4. low1 % 8 = 0
      BY <2>3
    <2>5. 8 * (n + 1) = high * LengthRange + low + 8
      BY <1>0, <1>2, <1>4
    <2>6. QED
      BY <1>2, <1>4, <2>2, <2>3, <2>4, <2>5 DEF low1, high1
  <1>7. QED
    BY <1>1, <1>3, <1>5, <1>6 DEF low1, high1

LEMMA ElementsOfSeq ==
  ASSUME NEW S, NEW m \in Seq(S)
  PROVE  Len(m) \in Nat /\ \A i \in 1..Len(m) : m[i] \in S
  OBVIOUS

LEMMA MessageBytes ==
  Len(Message) \in Nat /\ \A i \in 1..Len(Message) : Message[i] \in 0..255
  <1>1. Message \in Seq(0..255)
    BY ShaAssumption
  <1>2. QED
    BY <1>1, ElementsOfSeq, Zenon

(* An object that has been given n bytes, given the next.                  *)
LEMMA ByteFed ==
  ASSUME NEW s \in Object, NEW n \in 0..Len(Message) - 1, Fed(s, n)
  PROVE  LET r == InputByte(s, Message[n + 1])
         IN  r \in Object /\ ~r.Computed /\ (r.Corrupted \/ Fed(r, n + 1))
  <1> DEFINE byte == Message[n + 1]
             r    == InputByte(s, byte)
             q    == n \div 64
  <1>1. n \in Nat /\ byte \in 0..255
    <2>1. Len(Message) \in Nat /\ n \in Nat /\ n + 1 \in 1..Len(Message)
      BY ShaAssumption
    <2>2. QED
      BY <2>1, MessageBytes, Zenon
  <1>2. ~s.Corrupted /\ ~s.Computed
    BY DEF Fed
  <1>3. /\ r \in Object
        /\ r.Computed = s.Computed /\ r.Corrupted = (Low(s) = 0 /\ High(s) = 0)
        /\ r.LengthLow = Low(s) /\ r.LengthHigh = High(s)
        /\ r.MessageBlock = Filled(s, byte)
        /\ s.MsgIndex # 63 => /\ r.MsgIndex = s.MsgIndex + 1
                              /\ r.MessageDigest = s.MessageDigest
        /\ s.MsgIndex = 63 => /\ r.MsgIndex = 0
                              /\ r.MessageDigest = Append(s.MessageDigest, Filled(s, byte))
    BY <1>1, <1>2, ByteIn, Zenon
  <1> HIDE DEF r, byte
  <1>4. SUFFICES ASSUME ~r.Corrupted PROVE Fed(r, n + 1)
    BY <1>2, <1>3, Zenon DEF r, byte
  <1>5. r.LengthLow % 8 = 0 /\ 8 * (n + 1) = r.LengthHigh * LengthRange + r.LengthLow
    <2>1. s.LengthLow \in Words /\ s.LengthHigh \in Words
      BY DEF Object, ObjectTo
    <2>2. s.LengthLow % 8 = 0 /\ 8 * n = s.LengthHigh * LengthRange + s.LengthLow
      BY DEF Fed
    <2>3. ~(Low(s) = 0 /\ High(s) = 0)
      BY <1>3, <1>4, Zenon
    <2>4. Low(s) % 8 = 0 /\ 8 * (n + 1) = High(s) * LengthRange + Low(s)
      BY <1>1, <2>2, <2>3, BitsCounted, Zenon
    <2>5. QED
      BY <1>3, <2>4, Zenon
  <1>6. s.MsgIndex = n % 64 /\ s.MessageDigest = DigestTo(q)
    BY DEF Fed
  <1>7. ASSUME NEW i \in Bytes
        PROVE  /\ i = n % 64 => Filled(s, byte)[i] = byte
               /\ i < n % 64 => Filled(s, byte)[i] = Message[64 * q + i + 1]
    <2>1. s.MessageBlock \in [Bytes -> 0..255]
      BY DEF Object, ObjectTo, Block
    <2>2. i < n % 64 => s.MessageBlock[i] = Message[64 * q + i + 1]
      BY DEF Fed
    <2>3. n % 64 \in Int /\ i \in Int
      BY <1>1 DEF Bytes
    <2>4. Filled(s, byte)[i] = IF i = n % 64 THEN byte ELSE s.MessageBlock[i]
      BY <1>6, <2>1 DEF Filled
    <2>5. i < n % 64 => i # n % 64
      BY <2>3
    <2> HIDE DEF q
    <2>6. QED
      BY <2>2, <2>4, <2>5, Zenon
  <1>8. byte = Message[64 * q + (n % 64) + 1]
    <2>1. n + 1 = 64 * q + (n % 64) + 1
      BY <1>1
    <2>2. QED
      BY <2>1 DEF byte
  <1>9. ASSUME NEW i \in Bytes, i <= n % 64
        PROVE  Filled(s, byte)[i] = Message[64 * q + i + 1]
    <2>1. i = n % 64 \/ i < n % 64
      BY <1>1, <1>9 DEF Bytes
    <2> HIDE DEF q
    <2>2. CASE i < n % 64
      BY <1>7, <2>2, Zenon
    <2>3. CASE i = n % 64
      BY <1>7, <1>8, <2>3, Zenon
    <2>4. QED
      BY <2>1, <2>2, <2>3
  <1>10. CASE n % 64 # 63
    <2>1. (n + 1) % 64 = (n % 64) + 1 /\ (n + 1) \div 64 = q
      BY <1>1, <1>10
    <2>2. r.MsgIndex = (n + 1) % 64 /\ r.MessageDigest = DigestTo((n + 1) \div 64)
      BY <1>3, <1>6, <1>10, <2>1, Zenon
    <2>3. ASSUME NEW i \in Bytes, i < (n + 1) % 64
          PROVE  r.MessageBlock[i] = Message[64 * ((n + 1) \div 64) + i + 1]
      <3>1. i <= n % 64
        BY <1>1, <2>1, <2>3 DEF Bytes
      <3> HIDE DEF q
      <3>2. QED
        BY <1>3, <1>9, <2>1, <3>1, Zenon
    <2>4. QED
      BY <1>2, <1>3, <1>4, <1>5, <2>2, <2>3, Zenon DEF Fed
  <1>11. CASE n % 64 = 63
    <2>1. (n + 1) % 64 = 0 /\ (n + 1) \div 64 = q + 1 /\ q \in Nat
      BY <1>1, <1>11
    <2>2. Filled(s, byte) = BlockOf(q)
      <3>1. \A i \in Bytes : i <= n % 64
        BY <1>11 DEF Bytes
      <3>2. Filled(s, byte) = [i \in Bytes |-> Filled(s, byte)[i]]
        BY DEF Filled, Object, ObjectTo, Block
      <3> HIDE DEF q
      <3>3. \A i \in Bytes : Filled(s, byte)[i] = Message[64 * q + i + 1]
        BY <1>9, <3>1, Zenon
      <3>4. QED
        BY <3>2, <3>3 DEF BlockOf
    <2>3. r.MsgIndex = 0 /\ r.MessageDigest = Append(DigestTo(q), BlockOf(q))
      <3> HIDE DEF q
      <3>1. QED
        BY <1>3, <1>6, <1>11, <2>2, Zenon
    <2>4. r.MessageDigest = DigestTo((n + 1) \div 64)
      <3> HIDE DEF q
      <3>1. QED
        BY <2>1, <2>3, DigestGrows, Zenon
    <2>5. \A i \in Bytes : ~(i < (n + 1) % 64)
      BY <2>1 DEF Bytes
    <2>6. QED
      BY <1>2, <1>3, <1>4, <1>5, <2>1, <2>3, <2>4, <2>5, Zenon DEF Fed
  <1>12. QED
    BY <1>10, <1>11

(* The object when it has been given n bytes, unless it is corrupted.      *)
GivenWell(s, n) == s \in Object /\ ~s.Computed /\ (s.Corrupted \/ Fed(s, n))

LEMMA ByteWell ==
  ASSUME NEW s, NEW n \in 0..Len(Message) - 1, GivenWell(s, n)
  PROVE  GivenWell(InputByte(s, Message[n + 1]), n + 1)
  <1>1. CASE s.Corrupted
    BY <1>1 DEF GivenWell, InputByte
  <1>2. CASE ~s.Corrupted
    BY <1>2, ByteFed, Zenon DEF GivenWell
  <1>3. QED
    BY <1>1, <1>2

(* The loop of Input over the bytes, as an equation.                       *)
IsGiven(f, s, message) ==
  f = [i \in 0..Len(message) |-> IF i = 0 THEN s ELSE InputByte(f[i - 1], message[i])]
GivenTo(f, s, message, end) ==
  \A i \in 0..end : f[i] = IF i = 0 THEN s ELSE InputByte(f[i - 1], message[i])

LEMMA GivenUnrolled ==
  ASSUME NEW s, NEW message
  PROVE  \A end \in Nat : \E f : GivenTo(f, s, message, end)
  <1> DEFINE bad == {end \in Nat : ~\E f : GivenTo(f, s, message, end)}
  <1> SUFFICES ASSUME bad # {} PROVE FALSE
    OBVIOUS
  <1>1. PICK end \in bad : \A j \in bad : end <= j
    BY LeastNatural
  <1>2. end \in Nat
    OBVIOUS
  <1>3. CASE end = 0
    <2> DEFINE f == [i \in {0} |-> s]
    <2>1. GivenTo(f, s, message, end)
      BY <1>3 DEF GivenTo
    <2>2. QED
      BY <2>1
  <1>4. CASE end # 0
    <2>1. end - 1 \in Nat /\ end - 1 \notin bad
      BY <1>1, <1>2, <1>4
    <2>2. PICK g : GivenTo(g, s, message, end - 1)
      BY <2>1
    <2> DEFINE value == InputByte(g[end - 1], message[end])
               f     == [i \in 0..end |-> IF i = end THEN value ELSE g[i]]
    <2>3. ASSUME NEW i \in 0..end
          PROVE  f[i] = IF i = 0 THEN s ELSE InputByte(f[i - 1], message[i])
      <3>1. CASE i = end
        <4>1. end - 1 \in 0..end /\ end - 1 # end
          BY <1>2, <1>4
        <4>2. f[i] = value /\ f[i - 1] = g[end - 1]
          BY <3>1, <4>1
        <4>3. QED
          BY <1>4, <3>1, <4>2
      <3>2. CASE i # end
        <4>1. i \in 0..end - 1 /\ (i # 0 => i - 1 \in 0..end /\ i - 1 # end)
          BY <1>2, <3>2
        <4>2. g[i] = IF i = 0 THEN s ELSE InputByte(g[i - 1], message[i])
          BY <2>2, <4>1 DEF GivenTo
        <4>3. f[i] = g[i] /\ (i # 0 => f[i - 1] = g[i - 1])
          BY <3>2, <4>1
        <4>4. QED
          BY <4>2, <4>3
      <3>3. QED
        BY <3>1, <3>2
    <2> HIDE DEF f
    <2>4. GivenTo(f, s, message, end)
      BY <2>3 DEF GivenTo
    <2>5. QED
      BY <2>4
  <1>5. QED
    BY <1>3, <1>4

LEMMA GivenExists ==
  ASSUME NEW s, NEW message, Len(message) \in Nat
  PROVE  \E f : IsGiven(f, s, message)
  <1>1. PICK g : GivenTo(g, s, message, Len(message))
    BY GivenUnrolled
  <1> DEFINE f == [i \in 0..Len(message) |-> g[i]]
  <1>2. \A i \in 0..Len(message) : i # 0 => i - 1 \in 0..Len(message)
    OBVIOUS
  <1>3. \A i \in 0..Len(message) : f[i] = IF i = 0 THEN s ELSE InputByte(f[i - 1], message[i])
    BY <1>1, <1>2 DEF GivenTo
  <1>4. f = [i \in 0..Len(message) |-> IF i = 0 THEN s ELSE InputByte(f[i - 1], message[i])]
    BY <1>3
  <1> HIDE DEF f
  <1>5. QED
    BY <1>4, Zenon DEF IsGiven

LEMMA InputIsGiven ==
  ASSUME NEW s, NEW message, Len(message) \in Nat,
         message # <<>>, ~s.Computed, ~s.Corrupted
  PROVE  \E f : IsGiven(f, s, message) /\ Input(s, message) = f[Len(message)]
  <1> DEFINE given == CHOOSE f : IsGiven(f, s, message)
  <1>1. IsGiven(given, s, message)
    BY GivenExists, Zenon
  <1>2. Input(s, message) = given[Len(message)]
    BY DEF Input, IsGiven
  <1> HIDE DEF given
  <1>3. QED
    BY <1>1, <1>2

(* An object that has been given n bytes, given a piece of k more.         *)
Piece(n, k) == SubSeq(Message, n + 1, n + k)

LEMMA PieceBytes ==
  ASSUME NEW n \in Nat, NEW k \in Nat, n + k <= Len(Message)
  PROVE  /\ Len(Piece(n, k)) = k
         /\ \A i \in 1..k : Piece(n, k)[i] = Message[n + i]
  <1>1. Message \in Seq(0..255) /\ Len(Message) \in Nat
    BY ShaAssumption, MessageBytes
  <1>2. QED
    BY <1>1 DEF Piece

LEMMA PieceWell ==
  ASSUME NEW s, NEW n \in Nat, NEW k \in Nat, n + k <= Len(Message),
         GivenWell(s, n), ~s.Corrupted, k # 0
  PROVE  GivenWell(Input(s, Piece(n, k)), n + k)
  <1>1. Len(Piece(n, k)) = k /\ \A i \in 1..k : Piece(n, k)[i] = Message[n + i]
    BY PieceBytes
  <1>2. Piece(n, k) # <<>>
    BY <1>1
  <1>3. PICK f : IsGiven(f, s, Piece(n, k)) /\ Input(s, Piece(n, k)) = f[k]
    BY <1>1, <1>2, InputIsGiven DEF GivenWell
  <1>4. \A i \in 0..k : f[i] = IF i = 0 THEN s ELSE InputByte(f[i - 1], Message[n + i])
    BY <1>1, <1>3 DEF IsGiven
  <1> DEFINE bad == {i \in 0..k : ~GivenWell(f[i], n + i)}
  <1>5. bad = {}
    <2> SUFFICES ASSUME bad # {} PROVE FALSE
      OBVIOUS
    <2>1. bad \in SUBSET Nat
      OBVIOUS
    <2>2. PICK i \in bad : \A j \in bad : i <= j
      BY <2>1, LeastNatural
    <2>3. i \in 0..k /\ ~GivenWell(f[i], n + i)
      OBVIOUS
    <2>4. CASE i = 0
      BY <1>4, <2>3, <2>4
    <2>5. CASE i # 0
      <3>1. i - 1 \in 0..k /\ i - 1 \notin bad
        BY <2>2, <2>3, <2>5
      <3>2. GivenWell(f[i - 1], n + (i - 1))
        BY <3>1
      <3>3. n + (i - 1) \in 0..Len(Message) - 1 /\ n + (i - 1) + 1 = n + i
        BY <2>3, <2>5, MessageBytes
      <3>4. GivenWell(InputByte(f[i - 1], Message[n + i]), n + i)
        BY <3>2, <3>3, ByteWell
      <3>5. QED
        BY <1>4, <2>3, <2>5, <3>4
    <2>6. QED
      BY <2>4, <2>5
  <1>6. k \in 0..k
    OBVIOUS
  <1>7. QED
    BY <1>3, <1>5, <1>6

(* The length of the message, in the two words.                            *)
LEMMA Quotient ==
  ASSUME NEW r \in Nat \ {0}, NEW h \in Nat, NEW l \in 0..r - 1
  PROVE  (h * r + l) \div r = h /\ (h * r + l) % r = l
  <1> DEFINE x == h * r + l
             d == x \div r
             e == x % r
  <1>1. x \in Nat
    OBVIOUS
  <1>2. x = d * r + e /\ d \in Nat /\ e \in 0..r - 1
    BY <1>1
  <1>3. h * r + l = d * r + e
    BY <1>2
  <1> HIDE DEF d, e
  <1>4. ASSUME NEW a \in Nat, NEW b \in Nat, a < b PROVE a * r + r <= b * r
    <2>1. PICK c \in Nat : b = a + 1 + c
      <3>1. b - a - 1 \in Nat /\ b = a + 1 + (b - a - 1)
        BY <1>4
      <3>2. QED
        BY <3>1
    <2>2. b * r = a * r + r + c * r /\ c * r \in Nat
      BY <2>1
    <2>3. QED
      BY <2>2
  <1>5. ~(d < h)
    <2>1. ASSUME d < h PROVE FALSE
      <3>1. d * r + r <= h * r
        BY <1>2, <1>4, <2>1
      <3>2. QED
        BY <1>2, <1>3, <3>1
    <2>2. QED
      BY <2>1
  <1>6. ~(h < d)
    <2>1. ASSUME h < d PROVE FALSE
      <3>1. h * r + r <= d * r
        BY <1>2, <1>4, <2>1
      <3>2. QED
        BY <1>2, <1>3, <3>1
    <2>2. QED
      BY <2>1
  <1>7. d = h /\ e = l
    <2>1. d = h
      BY <1>2, <1>5, <1>6
    <2>2. QED
      BY <1>2, <1>3, <2>1
  <1>8. QED
    BY <1>7 DEF d, e

LEMMA LengthWords ==
  ASSUME NEW s \in Object, NEW n \in Nat, Fed(s, n)
  PROVE  /\ s.LengthHigh = (8 * n) \div LengthRange /\ s.LengthLow = (8 * n) % LengthRange
         /\ 8 * n < LengthRange * LengthRange
  <1>1. /\ s.LengthHigh \in 0..LengthRange - 1 /\ s.LengthLow \in 0..LengthRange - 1
        /\ 8 * n = s.LengthHigh * LengthRange + s.LengthLow
    BY DEF Object, ObjectTo, Words, Fed
  <1>2. LengthRange \in Nat \ {0}
    BY ShaAssumption
  <1>3. s.LengthHigh = (8 * n) \div LengthRange /\ s.LengthLow = (8 * n) % LengthRange
    <2>1. s.LengthHigh \in Nat
      BY <1>1, <1>2
    <2>2. QED
      BY <1>1, <1>2, <2>1, Quotient, Zenon
  <1>4. ASSUME NEW r \in Nat \ {0}, NEW h \in 0..r - 1, NEW l \in 0..r - 1
        PROVE  h * r + l < r * r
    <2>1. PICK c \in Nat : r = h + 1 + c
      <3>1. r - h - 1 \in Nat /\ r = h + 1 + (r - h - 1)
        OBVIOUS
      <3>2. QED
        BY <3>1
    <2>2. r * r = h * r + r + c * r /\ c * r \in Nat
      BY <2>1
    <2>3. QED
      BY <2>2
  <1>5. QED
    BY <1>1, <1>2, <1>3, <1>4, Zenon

Strings == Seq(0..255)
LengthOf(n) == FourBytes((8 * n) \div LengthRange) \o FourBytes((8 * n) % LengthRange)

LEMMA FourBytesAre ==
  ASSUME NEW n \in Nat
  PROVE  FourBytes(n) \in Strings /\ Len(FourBytes(n)) = 4
  <1> DEFINE a == (n \div 16777216) % 256
             b == (n \div 65536) % 256
             c == (n \div 256) % 256
             d == n % 256
  <1>1. a \in 0..255 /\ b \in 0..255 /\ c \in 0..255 /\ d \in 0..255
    BY SMT
  <1>2. FourBytes(n) = <<a, b, c, d>>
    BY SMT DEF FourBytes
  <1> HIDE DEF a, b, c, d
  <1>3. QED
    BY <1>1, <1>2 DEF Strings

LEMMA FirstOf ==
  ASSUME NEW S, NEW m \in Seq(S), NEW k \in 0..Len(m)
  PROVE  LET f == SubSeq(m, 1, k)
         IN  f \in Seq(S) /\ Len(f) = k /\ \A j \in 1..k : f[j] = m[j]
  OBVIOUS

(* c is a and then b.                                                      *)
IsJoined(c, a, b) ==
  /\ c \in Strings /\ Len(c) = Len(a) + Len(b)
  /\ \A j \in 1..Len(a) : c[j] = a[j]
  /\ \A j \in 1..Len(b) : c[Len(a) + j] = b[j]

LEMMA Joined ==
  ASSUME NEW a \in Strings, NEW b \in Strings
  PROVE  IsJoined(a \o b, a, b)
  BY DEF Strings, IsJoined

LEMMA JoinedTwice ==
  ASSUME NEW a \in Strings, NEW b \in Strings, NEW c \in Strings
  PROVE  (a \o b) \o c = a \o (b \o c)
  BY ConcatAssociative DEF Strings

LEMMA LengthsAre ==
  ASSUME NEW n \in Nat
  PROVE  (8 * n) \div LengthRange \in Nat /\ (8 * n) % LengthRange \in Nat
  BY ShaAssumption

LEMMA LengthOfIs ==
  ASSUME NEW n \in Nat
  PROVE  LengthOf(n) \in Strings /\ Len(LengthOf(n)) = 8
  <1>1. (8 * n) \div LengthRange \in Nat /\ (8 * n) % LengthRange \in Nat
    BY LengthsAre
  <1> DEFINE high == FourBytes((8 * n) \div LengthRange)
             low  == FourBytes((8 * n) % LengthRange)
  <1>2. high \in Strings /\ Len(high) = 4 /\ low \in Strings /\ Len(low) = 4
    BY <1>1, FourBytesAre, Zenon
  <1> HIDE DEF high, low
  <1>3. high \o low \in Strings /\ Len(high \o low) = 8
    <2>1. IsJoined(high \o low, high, low)
      BY <1>2, Joined, Zenon
    <2>2. QED
      BY <1>2, <2>1 DEF IsJoined
  <1>4. QED
    BY <1>3, Zenon DEF LengthOf, high, low

(* The fewest zeros: to the end of this block, or of the next.             *)
LEMMA PaddedLengthIs ==
  ASSUME NEW n \in Nat
  PROVE  PaddedLength(n) = 64 * (n \div 64 + IF n % 64 <= 55 THEN 1 ELSE 2)
  <1> DEFINE p == 64 * (n \div 64 + IF n % 64 <= 55 THEN 1 ELSE 2)
  <1>1. p \in n + 9..n + 72 /\ p % 64 = 0
    OBVIOUS
  <1>2. \A l \in n + 9..n + 72 : l % 64 = 0 => l = p
    OBVIOUS
  <1> HIDE DEF p
  <1>3. PaddedLength(n) = p
    BY <1>1, <1>2 DEF PaddedLength
  <1>4. QED
    BY <1>3 DEF p

(* Each byte of the padded message.                                        *)
PaddedByte(n, j) ==
  IF j <= n THEN Message[j] ELSE IF j = n + 1 THEN 128
  ELSE IF j <= PaddedLength(n) - 8 THEN 0 ELSE LengthOf(n)[j - (PaddedLength(n) - 8)]

LEMMA PaddedIs ==
  ASSUME NEW n \in 0..Len(Message)
  PROVE  LET p == Padded(SubSeq(Message, 1, n))
         IN  Len(p) = PaddedLength(n) /\ \A j \in 1..PaddedLength(n) : p[j] = PaddedByte(n, j)
  <1> DEFINE l == PaddedLength(n)
             m == SubSeq(Message, 1, n)
             z == [i \in 1..l - n - 9 |-> 0]
             h == FourBytes((8 * n) \div LengthRange)
             w == FourBytes((8 * n) % LengthRange)
             m1 == m \o <<128>>
             m2 == m1 \o z
  <1>1. n \in Nat
    OBVIOUS
  <1>2. l \in Nat /\ l - n - 9 \in Nat
    <2>1. \A q \in Nat, x \in 0..63, e \in {1, 2} :
             (e = 2 \/ x <= 55) => 64 * (q + e) - (64 * q + x) - 9 \in Nat
      OBVIOUS
    <2>2. /\ n \div 64 \in Nat /\ n % 64 \in 0..63 /\ n = 64 * (n \div 64) + (n % 64)
          /\ l = 64 * (n \div 64 + IF n % 64 <= 55 THEN 1 ELSE 2)
      <3>1. l = 64 * (n \div 64 + IF n % 64 <= 55 THEN 1 ELSE 2)
        BY <1>1, PaddedLengthIs, Zenon
      <3> HIDE DEF l
      <3>2. n \div 64 \in Nat /\ n % 64 \in 0..63 /\ n = 64 * (n \div 64) + (n % 64)
        BY <1>1
      <3>3. QED
        BY <3>1, <3>2
    <2> HIDE DEF l
    <2>3. CASE n % 64 <= 55
      BY <2>1, <2>2, <2>3
    <2>4. CASE ~(n % 64 <= 55)
      BY <2>1, <2>2, <2>4
    <2>5. QED
      BY <2>3, <2>4
  <1>3. m \in Strings /\ Len(m) = n /\ \A j \in 1..n : m[j] = Message[j]
    <2>1. Message \in Seq(0..255) /\ Len(Message) \in Nat
      BY ShaAssumption, MessageBytes
    <2>2. QED
      BY <2>1, FirstOf, Zenon DEF Strings
  <1> HIDE DEF l, m
  <1>4. z \in Strings /\ Len(z) = l - n - 9 /\ \A j \in 1..l - n - 9 : z[j] = 0
    BY <1>2 DEF Strings
  <1>5. <<128>> \in Strings /\ Len(<<128>>) = 1 /\ <<128>>[1] = 128
    BY DEF Strings
  <1> HIDE DEF z
  <1>6. /\ m1 \in Strings /\ Len(m1) = n + 1
        /\ (\A j \in 1..n : m1[j] = Message[j]) /\ m1[n + 1] = 128
    <2>1. IsJoined(m1, m, <<128>>)
      BY <1>3, <1>5, Joined, Zenon
    <2> HIDE DEF m1
    <2>2. QED
      BY <1>1, <1>3, <1>5, <2>1 DEF IsJoined
  <1> HIDE DEF m1
  <1>7. /\ m2 \in Strings /\ Len(m2) = l - 8
        /\ \A j \in 1..n + 1 : m2[j] = m1[j]
        /\ \A j \in n + 2..l - 8 : m2[j] = 0
    <2>1. IsJoined(m2, m1, z)
      BY <1>4, <1>6, Joined, Zenon
    <2> HIDE DEF m2
    <2>2. ASSUME NEW j \in n + 2..l - 8 PROVE m2[j] = 0
      <3>1. j - (n + 1) \in 1..l - n - 9 /\ (n + 1) + (j - (n + 1)) = j
        BY <1>1, <1>2
      <3>2. m2[(n + 1) + (j - (n + 1))] = z[j - (n + 1)]
        BY <1>4, <1>6, <2>1, <3>1 DEF IsJoined
      <3>3. QED
        BY <1>4, <3>1, <3>2
    <2>3. QED
      BY <1>1, <1>2, <1>4, <1>6, <2>1, <2>2 DEF IsJoined
  <1> HIDE DEF m2
  <1> DEFINE p == Padded(m)
             o == LengthOf(n)
  <1>8. h \in Strings /\ w \in Strings
    <2>1. (8 * n) \div LengthRange \in Nat /\ (8 * n) % LengthRange \in Nat
      BY <1>1, LengthsAre, Zenon
    <2>2. QED
      BY <2>1, FourBytesAre, Zenon
  <1>9. o = h \o w /\ o \in Strings /\ Len(o) = 8
    BY <1>1, LengthOfIs, Zenon DEF LengthOf
  <1>10. p = (m2 \o h) \o w
    BY <1>3, Zenon DEF Padded, m1, m2, z, l
  <1> HIDE DEF h, w, p, o
  <1>11. p = m2 \o o
    BY <1>7, <1>8, <1>9, <1>10, JoinedTwice, Zenon
  <1>12. /\ Len(p) = (l - 8) + 8
         /\ \A j \in 1..l - 8 : p[j] = m2[j]
         /\ \A j \in 1..8 : p[(l - 8) + j] = o[j]
    <2>1. IsJoined(p, m2, o)
      BY <1>7, <1>9, <1>11, Joined, Zenon
    <2>2. QED
      BY <1>7, <1>9, <2>1 DEF IsJoined
  <1>13. ASSUME NEW j \in 1..l PROVE p[j] = PaddedByte(n, j)
    <2>1. CASE j <= n + 1
      <3>1. j \in 1..l - 8 /\ j \in 1..n + 1 /\ (j <= n => j \in 1..n)
        BY <1>1, <1>2, <2>1
      <3>2. p[j] = m1[j] /\ (j <= n => m1[j] = Message[j]) /\ (~(j <= n) => j = n + 1)
        <4>1. p[j] = m1[j]
          BY <1>7, <1>12, <3>1, Zenon
        <4>2. QED
          BY <1>1, <1>6, <3>1, <4>1
      <3>3. QED
        BY <1>6, <3>2, Zenon DEF PaddedByte
    <2>2. CASE j > n + 1 /\ j <= l - 8
      <3>1. j \in 1..l - 8 /\ j \in n + 2..l - 8 /\ ~(j <= n) /\ j # n + 1
        BY <1>1, <1>2, <2>2
      <3>2. p[j] = 0
        BY <1>7, <1>12, <3>1, Zenon
      <3>3. QED
        BY <2>2, <3>1, <3>2, Zenon DEF PaddedByte, l
    <2>3. CASE j > l - 8
      <3>1. /\ j - (l - 8) \in 1..8 /\ (l - 8) + (j - (l - 8)) = j
            /\ ~(j <= n) /\ j # n + 1 /\ ~(j <= l - 8)
        BY <1>1, <1>2, <2>3
      <3>2. p[j] = o[j - (l - 8)]
        BY <1>12, <3>1
      <3>3. QED
        BY <3>1, <3>2, Zenon DEF PaddedByte, l, o
    <2>4. QED
      BY <1>1, <1>2, <2>1, <2>2, <2>3
  <1>14. Len(p) = l
    BY <1>2, <1>12
  <1>15. QED
    BY <1>13, <1>14, Zenon DEF p, l, m

(* r is s but for what is in the block, and the index.                     *)
Kept(r, s) ==
  /\ r \in ObjectTo(64)
  /\ r.Computed = s.Computed /\ r.Corrupted = s.Corrupted
  /\ r.LengthLow = s.LengthLow /\ r.LengthHigh = s.LengthHigh
  /\ r.MessageDigest = s.MessageDigest
Holds(r, s, block, index) == Kept(r, s) /\ r.MessageBlock = block /\ r.MsgIndex = index

Put(s, block, index) == [s EXCEPT !.MessageBlock = block, !.MsgIndex = index]

LEMMA BlockPut ==
  ASSUME NEW s \in ObjectTo(64), NEW block \in Block, NEW index \in 0..64
  PROVE  Holds(Put(s, block, index), s, block, index)
  <1> DEFINE r == Put(s, block, index)
  <1>1. r \in ObjectTo(64)
    BY DEF ObjectTo, Put
  <1>2. /\ r.Computed = s.Computed /\ r.Corrupted = s.Corrupted
        /\ r.LengthLow = s.LengthLow /\ r.LengthHigh = s.LengthHigh
        /\ r.MessageDigest = s.MessageDigest
    BY DEF ObjectTo, Put
  <1>3. r.MessageBlock = block /\ r.MsgIndex = index
    BY DEF ObjectTo, Put
  <1> HIDE DEF r
  <1>4. Holds(r, s, block, index)
    BY <1>1, <1>2, <1>3, Zenon DEF Holds, Kept
  <1>5. QED
    BY <1>4, Zenon DEF r

LEMMA Fields ==
  ASSUME NEW s \in ObjectTo(64)
  PROVE  /\ s.MessageBlock \in Block /\ s.MsgIndex \in 0..64
         /\ s.LengthLow \in Nat /\ s.LengthHigh \in Nat
  <1>1. s.MessageBlock \in Block /\ s.MsgIndex \in 0..64
    BY DEF ObjectTo
  <1>2. s.LengthLow \in Words /\ s.LengthHigh \in Words
    BY DEF ObjectTo
  <1>3. \A w \in Words : w \in Nat
    BY ShaAssumption DEF Words
  <1>4. QED
    BY <1>1, <1>2, <1>3, Zenon

LEMMA ObjectWithin ==
  ASSUME NEW s \in Object
  PROVE  s \in ObjectTo(64) /\ s.MsgIndex \in 0..63 /\ s.MsgIndex + 1 \in 0..64
  <1>1. s \in ObjectTo(64)
    BY DEF Object, ObjectTo
  <1>2. s.MsgIndex \in 0..63
    BY DEF Object, ObjectTo
  <1>3. \A i \in 0..63 : i + 1 \in 0..64
    OBVIOUS
  <1>4. QED
    BY <1>1, <1>2, <1>3, Zenon

LEMMA OneBitPut ==
  ASSUME NEW s \in Object
  PROVE  Holds(OneBit(s), s, Filled(s, 128), s.MsgIndex + 1)
  <1>1. Filled(s, 128) \in Block
    <2>1. s.MessageBlock \in Block
      BY ObjectWithin, Fields, Zenon
    <2>2. \A byte \in 0..255 : Filled(s, byte) \in Block
      BY <2>1 DEF Filled, Block
    <2>3. 128 \in 0..255
      OBVIOUS
    <2>4. QED
      BY <2>2, <2>3, Zenon
  <1>2. OneBit(s) = Put(s, Filled(s, 128), s.MsgIndex + 1)
    BY DEF OneBit, Filled, Put
  <1>3. s \in ObjectTo(64) /\ s.MsgIndex + 1 \in 0..64
    BY ObjectWithin
  <1>4. QED
    BY <1>1, <1>2, <1>3, BlockPut, Zenon

ZeroBlock(s, end) ==
  [i \in Bytes |-> IF s.MsgIndex <= i /\ i < end THEN 0 ELSE s.MessageBlock[i]]

LEMMA ZerosPut ==
  ASSUME NEW s \in ObjectTo(64), NEW end \in 0..64
  PROVE  Holds(Zeros(s, end), s, ZeroBlock(s, end), end)
  <1>1. ZeroBlock(s, end) \in Block
    <2>1. s.MessageBlock \in Block
      BY Fields, Zenon
    <2>2. QED
      BY <2>1 DEF ZeroBlock, Block
  <1>2. Zeros(s, end) = Put(s, ZeroBlock(s, end), end)
    BY DEF Zeros, ZeroBlock, Put
  <1>3. QED
    BY <1>1, <1>2, BlockPut, Zenon

LengthBytes(s) == FourBytes(s.LengthHigh) \o FourBytes(s.LengthLow)
LengthBlock(s) == [i \in Bytes |-> IF i < 56 THEN s.MessageBlock[i] ELSE LengthBytes(s)[i - 55]]

LEMMA LengthPut ==
  ASSUME NEW s \in ObjectTo(64)
  PROVE  Holds(WithLength(s), s, LengthBlock(s), s.MsgIndex)
  <1>1. LengthBytes(s) \in Strings /\ Len(LengthBytes(s)) = 8
    <2> DEFINE h == FourBytes(s.LengthHigh)
               w == FourBytes(s.LengthLow)
    <2>1. h \in Strings /\ Len(h) = 4 /\ w \in Strings /\ Len(w) = 4
      BY Fields, FourBytesAre, Zenon
    <2> HIDE DEF h, w
    <2>2. IsJoined(h \o w, h, w)
      BY <2>1, Joined, Zenon
    <2>3. h \o w \in Strings /\ Len(h \o w) = 8
      BY <2>1, <2>2 DEF IsJoined
    <2>4. QED
      BY <2>3, Zenon DEF LengthBytes, h, w
  <1>2. \A j \in 1..8 : LengthBytes(s)[j] \in 0..255
    BY <1>1, ElementsOfSeq, Zenon DEF Strings
  <1>3. LengthBlock(s) \in Block
    <2>1. \A i \in Bytes : ~(i < 56) => i - 55 \in 1..8
      BY DEF Bytes
    <2>2. s.MessageBlock \in Block
      BY Fields, Zenon
    <2>3. \A i \in Bytes : s.MessageBlock[i] \in 0..255
      BY <2>2 DEF Block
    <2>4. QED
      BY <1>2, <2>1, <2>3 DEF LengthBlock, Block
  <1>4. s.MsgIndex \in 0..64
    BY Fields, Zenon
  <1>5. WithLength(s) = Put(s, LengthBlock(s), s.MsgIndex)
    <2>1. WithLength(s) = [s EXCEPT !.MessageBlock = LengthBlock(s)]
      BY Zenon DEF WithLength, LengthBlock, LengthBytes
    <2>2. s = [s EXCEPT !.MsgIndex = s.MsgIndex]
      BY DEF ObjectTo
    <2>3. QED
      BY <2>1, <2>2 DEF ObjectTo, Put
  <1>6. QED
    BY <1>3, <1>4, <1>5, BlockPut, Zenon

(* Block b of the padded message, from 0.                                  *)
PaddedBlock(n, b) == [i \in Bytes |-> PaddedByte(n, 64 * b + i + 1)]

(* What is at i in the last blocks, q and q + 1, when m bytes are left.    *)
LastBytes(n, q, m, i) ==
  /\ i < m => PaddedByte(n, 64 * q + i + 1) = Message[64 * q + i + 1]
  /\ i = m => PaddedByte(n, 64 * q + i + 1) = 128
  /\ m < i /\ i < 56 => PaddedByte(n, 64 * q + i + 1) = 0
  /\ m <= 55 /\ ~(i < 56) => PaddedByte(n, 64 * q + i + 1) = LengthOf(n)[i - 55]
  /\ m > 55 => /\ m < i => PaddedByte(n, 64 * q + i + 1) = 0
               /\ i < 56 => PaddedByte(n, 64 * (q + 1) + i + 1) = 0
               /\ ~(i < 56) => PaddedByte(n, 64 * (q + 1) + i + 1) = LengthOf(n)[i - 55]

LEMMA PaddedByteIs ==
  ASSUME NEW n \in Nat, NEW i \in Bytes
  PROVE  LastBytes(n, n \div 64, n % 64, i)
  <1> DEFINE q == n \div 64
             m == n % 64
             l == PaddedLength(n)
  <1>1. q \in Nat /\ m \in 0..63 /\ n = 64 * q + m
    OBVIOUS
  <1>2. l = 64 * (q + IF m <= 55 THEN 1 ELSE 2)
    BY PaddedLengthIs
  <1> HIDE DEF q, m, l
  <1>3. i \in 0..63
    BY DEF Bytes
  <1>4. ASSUME NEW b \in Nat
        PROVE  PaddedByte(n, 64 * b + i + 1) =
                 IF 64 * b + i + 1 <= n THEN Message[64 * b + i + 1]
                 ELSE IF 64 * b + i + 1 = n + 1 THEN 128
                 ELSE IF 64 * b + i + 1 <= l - 8 THEN 0
                 ELSE LengthOf(n)[(64 * b + i + 1) - (l - 8)]
    BY SMT DEF PaddedByte, l
  <1>5. /\ i < m => 64 * q + i + 1 <= n
        /\ ~(i < m) => ~(64 * q + i + 1 <= n)
        /\ i = m <=> 64 * q + i + 1 = n + 1
    BY <1>1, <1>3
  <1>6. ASSUME m <= 55 PROVE LastBytes(n, q, m, i)
    <2>1. l = 64 * q + 64
      BY <1>1, <1>2, <1>6
    <2>2. /\ i < 56 => 64 * q + i + 1 <= l - 8
          /\ ~(i < 56) => /\ ~(64 * q + i + 1 <= l - 8)
                          /\ (64 * q + i + 1) - (l - 8) = i - 55
                          /\ ~(i < m) /\ i # m
          /\ m < i => ~(i < m) /\ i # m
          /\ i = m => ~(i < m)
      BY <1>1, <1>3, <1>6, <2>1
    <2>3. ~(m > 55)
      BY <1>1, <1>6
    <2>4. QED
      BY <1>1, <1>4, <1>5, <1>6, <2>2, <2>3, Zenon DEF LastBytes
  <1>7. ASSUME m > 55 PROVE LastBytes(n, q, m, i)
    <2>1. l = 64 * q + 128
      BY <1>1, <1>2, <1>7
    <2>2. /\ 64 * q + i + 1 <= l - 8
          /\ m < i => ~(i < m) /\ i # m
          /\ i = m => ~(i < m)
      BY <1>1, <1>3, <1>7, <2>1
    <2>3. /\ ~(64 * (q + 1) + i + 1 <= n) /\ 64 * (q + 1) + i + 1 # n + 1
          /\ i < 56 => 64 * (q + 1) + i + 1 <= l - 8
          /\ ~(i < 56) => /\ ~(64 * (q + 1) + i + 1 <= l - 8)
                          /\ (64 * (q + 1) + i + 1) - (l - 8) = i - 55
      BY <1>1, <1>3, <1>7, <2>1
    <2>4. q + 1 \in Nat
      BY <1>1
    <2>5. ~(m <= 55)
      BY <1>1, <1>7
    <2>6. QED
      BY <1>1, <1>4, <1>5, <1>7, <2>2, <2>3, <2>4, <2>5, Zenon DEF LastBytes
  <1>8. LastBytes(n, q, m, i)
    BY <1>1, <1>6, <1>7
  <1>9. QED
    BY <1>8 DEF q, m

(* The bytes of the message in the block, and the bit.                     *)
MessageThenBit(s, n, q, m, i) ==
  /\ i < m => Filled(s, 128)[i] = Message[64 * q + i + 1]
  /\ i = m => Filled(s, 128)[i] = 128

LEMMA BitBehindMessage ==
  ASSUME NEW s \in Object, NEW n \in Nat, Fed(s, n), NEW i \in Bytes
  PROVE  MessageThenBit(s, n, n \div 64, n % 64, i)
  <1>1. s.MessageBlock \in [Bytes -> 0..255]
    BY ObjectWithin, Fields, Zenon DEF Block
  <1>2. s.MsgIndex = n % 64
    BY DEF Fed
  <1>3. i < n % 64 => s.MessageBlock[i] = Message[64 * (n \div 64) + i + 1]
    BY DEF Fed
  <1>4. Filled(s, 128)[i] = IF i = n % 64 THEN 128 ELSE s.MessageBlock[i]
    BY <1>1, <1>2 DEF Filled
  <1>5. i < n % 64 => i # n % 64
    BY DEF Bytes
  <1>6. QED
    BY <1>3, <1>4, <1>5, Zenon DEF MessageThenBit

LEMMA PadsOneBlock ==
  ASSUME NEW s \in Object, NEW n \in Nat, Fed(s, n), n % 64 <= 55
  PROVE  LET r == PadMessage(s)
         IN  /\ r \in Object /\ ~r.Corrupted
             /\ r.MessageDigest = Append(DigestTo(n \div 64), PaddedBlock(n, n \div 64))
  <1> DEFINE q == n \div 64
             m == n % 64
             a == OneBit(s)
             b == Zeros(a, 56)
             c == WithLength(b)
             r == ProcessMessageBlock(c)
  <1>1. s.MsgIndex = m /\ ~s.Corrupted /\ s.MessageDigest = DigestTo(q)
    BY DEF Fed
  <1>2. m \in Nat
    OBVIOUS
  <1>3. ~(s.MsgIndex > 55)
    BY <1>1, <1>2
  <1>4. PadMessage(s) = r
    BY <1>3, Zenon DEF PadMessage
  <1>5. Holds(a, s, Filled(s, 128), s.MsgIndex + 1)
    BY OneBitPut
  <1> HIDE DEF a, b, c, r
  <1>6. 56 \in 0..64
    OBVIOUS
  <1>7. Holds(b, a, ZeroBlock(a, 56), 56)
    BY <1>5, <1>6, ZerosPut, Zenon DEF Holds, Kept, b
  <1>8. Holds(c, b, LengthBlock(b), b.MsgIndex)
    BY <1>7, LengthPut, Zenon DEF Holds, Kept, c
  <1>9. /\ r \in Object /\ r.Corrupted = c.Corrupted
        /\ r.MessageDigest = Append(c.MessageDigest, c.MessageBlock)
    BY <1>8, Processed, Zenon DEF Holds, Kept, r
  <1>10. /\ c.Corrupted = s.Corrupted /\ c.MessageDigest = s.MessageDigest
         /\ c.MessageBlock = LengthBlock(b) /\ b.MessageBlock = ZeroBlock(a, 56)
         /\ a.MessageBlock = Filled(s, 128) /\ a.MsgIndex = m + 1
         /\ b.LengthHigh = s.LengthHigh /\ b.LengthLow = s.LengthLow
    BY <1>1, <1>5, <1>7, <1>8, Zenon DEF Holds, Kept
  <1>11. LengthBytes(b) = LengthOf(n)
    BY <1>10, LengthWords, Zenon DEF LengthBytes, LengthOf
  <1>12. ASSUME NEW i \in Bytes
         PROVE  LengthBlock(b)[i] = PaddedByte(n, 64 * q + i + 1)
    <2>1. LengthBlock(b)[i] = IF i < 56 THEN ZeroBlock(a, 56)[i] ELSE LengthOf(n)[i - 55]
      BY <1>10, <1>11, Zenon DEF LengthBlock
    <2>2. ZeroBlock(a, 56)[i] = IF m + 1 <= i /\ i < 56 THEN 0 ELSE Filled(s, 128)[i]
      BY <1>10, Zenon DEF ZeroBlock
    <2>3. /\ i < m \/ i = m \/ m < i
          /\ m < i <=> m + 1 <= i
          /\ m >= i /\ ~(i < m) => i = m
          /\ i < m => i < 56 /\ ~(m < i)
          /\ i = m => i < 56 /\ ~(m < i)
      BY <1>2 DEF Bytes
    <2> HIDE DEF q, m
    <2>4. /\ i < m => Filled(s, 128)[i] = PaddedByte(n, 64 * q + i + 1)
          /\ i = m => Filled(s, 128)[i] = PaddedByte(n, 64 * q + i + 1)
          /\ m < i /\ i < 56 => PaddedByte(n, 64 * q + i + 1) = 0
          /\ ~(i < 56) => PaddedByte(n, 64 * q + i + 1) = LengthOf(n)[i - 55]
      <3>1. LastBytes(n, q, m, i)
        BY PaddedByteIs, Zenon DEF q, m
      <3>2. MessageThenBit(s, n, q, m, i)
        BY BitBehindMessage, Zenon DEF q, m
      <3>3. m <= 55
        BY DEF m
      <3>4. QED
        BY <3>1, <3>2, <3>3, Zenon DEF LastBytes, MessageThenBit
    <2>5. QED
      BY <2>1, <2>2, <2>3, <2>4, Zenon
  <1>13. LengthBlock(b) = PaddedBlock(n, q)
    BY <1>12, Zenon DEF PaddedBlock, LengthBlock
  <1>14. QED
    BY <1>1, <1>4, <1>9, <1>10, <1>13, Zenon

LEMMA PadsTwoBlocks ==
  ASSUME NEW s \in Object, NEW n \in Nat, Fed(s, n), n % 64 > 55
  PROVE  LET r == PadMessage(s)
             q == n \div 64
         IN  /\ r \in Object /\ ~r.Corrupted
             /\ r.MessageDigest =
                  Append(Append(DigestTo(q), PaddedBlock(n, q)), PaddedBlock(n, q + 1))
  <1> DEFINE q == n \div 64
             m == n % 64
             a == OneBit(s)
             z == Zeros(a, 64)
             p == ProcessMessageBlock(z)
             b == Zeros(p, 56)
             c == WithLength(b)
             r == ProcessMessageBlock(c)
  <1>1. s.MsgIndex = m /\ ~s.Corrupted /\ s.MessageDigest = DigestTo(q)
    BY DEF Fed
  <1>2. m \in Nat
    OBVIOUS
  <1>3. s.MsgIndex > 55
    BY <1>1
  <1>4. PadMessage(s) = r
    BY <1>3, Zenon DEF PadMessage
  <1>5. Holds(a, s, Filled(s, 128), s.MsgIndex + 1)
    BY OneBitPut
  <1> HIDE DEF a, z, p, b, c, r
  <1>6. 56 \in 0..64 /\ 64 \in 0..64
    OBVIOUS
  <1>7. Holds(z, a, ZeroBlock(a, 64), 64)
    BY <1>5, <1>6, ZerosPut, Zenon DEF Holds, Kept, z
  <1>8. /\ p \in Object /\ p.Corrupted = z.Corrupted
        /\ p.LengthLow = z.LengthLow /\ p.LengthHigh = z.LengthHigh /\ p.MsgIndex = 0
        /\ p.MessageDigest = Append(z.MessageDigest, z.MessageBlock)
    BY <1>7, Processed, Zenon DEF Holds, Kept, p
  <1>9. Holds(b, p, ZeroBlock(p, 56), 56)
    BY <1>6, <1>8, ZerosPut, ObjectWithin, Zenon DEF b
  <1>10. Holds(c, b, LengthBlock(b), b.MsgIndex)
    BY <1>9, LengthPut, Zenon DEF Holds, Kept, c
  <1>11. /\ r \in Object /\ r.Corrupted = c.Corrupted
         /\ r.MessageDigest = Append(c.MessageDigest, c.MessageBlock)
    BY <1>10, Processed, Zenon DEF Holds, Kept, r
  <1>12. /\ z.MessageBlock = ZeroBlock(a, 64) /\ z.MessageDigest = DigestTo(q)
         /\ a.MessageBlock = Filled(s, 128) /\ a.MsgIndex = m + 1
         /\ z.LengthHigh = s.LengthHigh /\ z.LengthLow = s.LengthLow
         /\ z.Corrupted = s.Corrupted
    BY <1>1, <1>5, <1>7, Zenon DEF Holds, Kept
  <1>13. /\ c.Corrupted = s.Corrupted /\ c.MessageDigest = p.MessageDigest
         /\ c.MessageBlock = LengthBlock(b) /\ b.MessageBlock = ZeroBlock(p, 56)
         /\ b.LengthHigh = s.LengthHigh /\ b.LengthLow = s.LengthLow
    BY <1>8, <1>9, <1>10, <1>12, Zenon DEF Holds, Kept
  <1>14. LengthBytes(b) = LengthOf(n)
    BY <1>13, LengthWords, Zenon DEF LengthBytes, LengthOf
  <1>15. m > 55
    OBVIOUS
  <1>16. ASSUME NEW i \in Bytes
         PROVE  /\ ZeroBlock(a, 64)[i] = PaddedByte(n, 64 * q + i + 1)
                /\ LengthBlock(b)[i] = PaddedByte(n, 64 * (q + 1) + i + 1)
    <2>1. LengthBlock(b)[i] = IF i < 56 THEN ZeroBlock(p, 56)[i] ELSE LengthOf(n)[i - 55]
      BY <1>13, <1>14, Zenon DEF LengthBlock
    <2>2. /\ ZeroBlock(a, 64)[i] = IF m + 1 <= i /\ i < 64 THEN 0 ELSE Filled(s, 128)[i]
          /\ ZeroBlock(p, 56)[i] = IF 0 <= i /\ i < 56 THEN 0 ELSE p.MessageBlock[i]
      BY <1>8, <1>12, Zenon DEF ZeroBlock
    <2>3. /\ i < m \/ i = m \/ m < i
          /\ m < i <=> m + 1 <= i
          /\ i < m => ~(m < i)
          /\ i = m => ~(m < i)
          /\ 0 <= i /\ i < 64
      BY <1>2 DEF Bytes
    <2> HIDE DEF q, m
    <2>4. LastBytes(n, q, m, i)
      BY PaddedByteIs, Zenon DEF q, m
    <2>5. MessageThenBit(s, n, q, m, i)
      BY BitBehindMessage, Zenon DEF q, m
    <2>6. QED
      BY <1>15, <2>1, <2>2, <2>3, <2>4, <2>5, Zenon DEF LastBytes, MessageThenBit
  <1>17. ZeroBlock(a, 64) = PaddedBlock(n, q)
    BY <1>16, Zenon DEF PaddedBlock, ZeroBlock
  <1>18. LengthBlock(b) = PaddedBlock(n, q + 1)
    BY <1>16, Zenon DEF PaddedBlock, LengthBlock
  <1>19. p.MessageDigest = Append(DigestTo(q), PaddedBlock(n, q))
    BY <1>8, <1>12, <1>17, Zenon
  <1>20. r.MessageDigest = Append(p.MessageDigest, PaddedBlock(n, q + 1))
    BY <1>11, <1>13, <1>18, Zenon
  <1>21. r \in Object /\ ~r.Corrupted
    BY <1>1, <1>11, <1>12, <1>13, Zenon
  <1>22. QED
    BY <1>4, <1>19, <1>20, <1>21, Zenon

(* The first k blocks of the padded message.                               *)
PaddedTo(n, k) == [b \in 1..k |-> PaddedBlock(n, b - 1)]

LEMMA PaddedGrows ==
  ASSUME NEW n, NEW k \in Nat
  PROVE  Append(PaddedTo(n, k), PaddedBlock(n, k)) = PaddedTo(n, k + 1)
  <1> DEFINE S == {PaddedBlock(n, b) : b \in Nat}
  <1>1. (\A b \in 1..k + 1 : b - 1 \in Nat) /\ (k + 1) - 1 = k /\ k + 1 \in 1..k + 1
    OBVIOUS
  <1>2. PaddedTo(n, k) \in [1..k -> S] /\ PaddedTo(n, k + 1) \in [1..k + 1 -> S]
    BY <1>1 DEF PaddedTo
  <1>3. /\ \A b \in 1..k : PaddedTo(n, k)[b] = PaddedTo(n, k + 1)[b]
        /\ PaddedTo(n, k + 1)[k + 1] = PaddedBlock(n, k)
    BY <1>1 DEF PaddedTo
  <1> HIDE DEF S
  <1>4. Append(PaddedTo(n, k), PaddedTo(n, k + 1)[k + 1]) = PaddedTo(n, k + 1)
    BY <1>2, <1>3, OneMore
  <1>5. QED
    BY <1>3, <1>4

(* The blocks that the message fills are its own.                          *)
LEMMA FullBlocks ==
  ASSUME NEW n \in Nat
  PROVE  PaddedTo(n, n \div 64) = DigestTo(n \div 64)
  <1>1. ASSUME NEW b \in 1..n \div 64 PROVE PaddedBlock(n, b - 1) = BlockOf(b - 1)
    <2>1. ASSUME NEW i \in Bytes
          PROVE  PaddedByte(n, 64 * (b - 1) + i + 1) = Message[64 * (b - 1) + i + 1]
      <3>1. 64 * (b - 1) + i + 1 <= n
        BY DEF Bytes
      <3>2. QED
        BY <3>1, Zenon DEF PaddedByte
    <2>2. QED
      BY <2>1, Zenon DEF PaddedBlock, BlockOf
  <1>2. QED
    BY <1>1 DEF PaddedTo, DigestTo

(* What PadMessage leaves is what the standard says.                       *)
LEMMA Pads ==
  ASSUME NEW s \in Object, NEW n \in 0..Len(Message), Fed(s, n)
  PROVE  LET r == PadMessage(s)
         IN  /\ r \in Object /\ ~r.Corrupted
             /\ r.MessageDigest = Blocks(Padded(SubSeq(Message, 1, n)))
  <1> DEFINE q == n \div 64
             l == PaddedLength(n)
             p == Padded(SubSeq(Message, 1, n))
  <1>1. n \in Nat
    OBVIOUS
  <1>2. q \in Nat /\ q + 1 \in Nat
    BY <1>1
  <1>3. l = 64 * (q + IF n % 64 <= 55 THEN 1 ELSE 2)
    BY <1>1, PaddedLengthIs
  <1>4. Len(p) = l /\ \A j \in 1..l : p[j] = PaddedByte(n, j)
    BY PaddedIs
  <1> HIDE DEF q, l, p
  <1>5. ASSUME NEW k \in Nat, l = 64 * k PROVE Blocks(p) = PaddedTo(n, k)
    <2>1. l \div 64 = k
      BY <1>5
    <2>2. ASSUME NEW b \in 1..k, NEW i \in Bytes
          PROVE  p[64 * (b - 1) + i + 1] = PaddedByte(n, 64 * (b - 1) + i + 1)
      <3>1. 64 * (b - 1) + i + 1 \in 1..l
        BY <1>5 DEF Bytes
      <3>2. QED
        BY <1>4, <3>1, Zenon
    <2>3. \A b \in 1..k : [i \in Bytes |-> p[64 * (b - 1) + i + 1]] = PaddedBlock(n, b - 1)
      BY <2>2, Zenon DEF PaddedBlock
    <2>4. QED
      BY <1>4, <2>1, <2>3 DEF Blocks, PaddedTo
  <1>6. PaddedTo(n, q) = DigestTo(q)
    BY <1>1, FullBlocks DEF q
  <1>7. Append(PaddedTo(n, q), PaddedBlock(n, q)) = PaddedTo(n, q + 1)
    BY <1>2, PaddedGrows
  <1>8. CASE n % 64 <= 55
    <2>1. l = 64 * (q + 1)
      BY <1>3, <1>8
    <2>2. Blocks(p) = PaddedTo(n, q + 1)
      BY <1>2, <1>5, <2>1, Zenon
    <2>3. /\ PadMessage(s) \in Object /\ ~PadMessage(s).Corrupted
          /\ PadMessage(s).MessageDigest = Append(DigestTo(q), PaddedBlock(n, q))
      BY <1>1, <1>8, PadsOneBlock DEF q
    <2>4. QED
      BY <1>6, <1>7, <2>2, <2>3, Zenon DEF p
  <1>9. CASE n % 64 > 55
    <2>1. l = 64 * (q + 2) /\ (q + 1) + 1 = q + 2 /\ q + 2 \in Nat
      <3>1. ~(n % 64 <= 55)
        BY <1>1, <1>9
      <3>2. QED
        BY <1>2, <1>3, <3>1
    <2>2. Blocks(p) = PaddedTo(n, q + 2)
      BY <1>5, <2>1, Zenon
    <2>3. /\ PadMessage(s) \in Object /\ ~PadMessage(s).Corrupted
          /\ PadMessage(s).MessageDigest =
               Append(Append(DigestTo(q), PaddedBlock(n, q)), PaddedBlock(n, q + 1))
      BY <1>1, <1>9, PadsTwoBlocks DEF q
    <2>4. Append(PaddedTo(n, q + 1), PaddedBlock(n, q + 1)) = PaddedTo(n, q + 2)
      BY <1>2, <2>1, PaddedGrows
    <2>5. QED
      BY <1>6, <1>7, <2>2, <2>3, <2>4, Zenon DEF p
  <1>10. QED
    BY <1>1, <1>8, <1>9

(* The object has been given the first bytes, as far as hashed, and has    *)
(* been asked for their hash or not; or it says that it is corrupted.      *)
ShaInv ==
  /\ sha \in Object /\ hashed \in 0..Len(Message)
  /\ \/ sha.Corrupted
     \/ ~sha.Computed /\ Fed(sha, hashed)
     \/ /\ sha.Computed /\ 8 * hashed < LengthRange * LengthRange
        /\ sha.MessageDigest = Blocks(Padded(SubSeq(Message, 1, hashed)))

LEMMA ShaInvInit == ShaInit => ShaInv
  <1>1. SUFFICES ASSUME ShaInit PROVE ShaInv
    OBVIOUS
  <1>2. 0 \in Words /\ 0 \in 0..63 /\ 0 \in 0..255
    BY ShaAssumption DEF Words
  <1>3. /\ sha \in Object /\ ~sha.Computed /\ ~sha.Corrupted
        /\ sha.LengthLow = 0 /\ sha.LengthHigh = 0 /\ sha.MsgIndex = 0
        /\ sha.MessageDigest = <<>>
    BY <1>1, <1>2 DEF ShaInit, CShaInit, Object, ObjectTo, Block
  <1>4. /\ hashed = 0 /\ 0 % 8 = 0 /\ 8 * 0 = 0 * LengthRange + 0 /\ 0 % 64 = 0 /\ 0 \div 64 = 0
        /\ \A i \in Bytes : ~(i < 0)
    BY <1>1, ShaAssumption DEF ShaInit, Bytes
  <1>5. DigestTo(0) = <<>>
    BY DEF DigestTo
  <1>6. Fed(sha, hashed)
    BY <1>3, <1>4, <1>5, Zenon DEF Fed
  <1>7. hashed \in 0..Len(Message)
    BY <1>4, MessageBytes
  <1>8. QED
    BY <1>3, <1>6, <1>7, Zenon DEF ShaInv

LEMMA ShaInvNext == ShaInv /\ [ShaNext]_shaVars => ShaInv'
  <1>1. SUFFICES ASSUME ShaInv, ShaNext \/ UNCHANGED shaVars PROVE ShaInv'
    OBVIOUS
  <1>2. CASE UNCHANGED shaVars
    BY <1>1, <1>2, Zenon DEF ShaInv, Fed, shaVars
  <1>3. ASSUME NEW r \in Object PROVE [r EXCEPT !.Computed = TRUE] \in Object
    BY DEF Object, ObjectTo
  <1>4. CASE AskResult
    <2>1. hashed' = hashed /\ sha' = Result(sha)
      BY <1>4 DEF AskResult
    <2>2. CASE sha.Corrupted \/ sha.Computed
      <3>1. sha' = sha
        BY <2>1, <2>2 DEF Result
      <3>2. QED
        BY <1>1, <2>1, <3>1, Zenon DEF ShaInv, Fed
    <2>3. CASE ~(sha.Corrupted \/ sha.Computed)
      <3> DEFINE r == PadMessage(sha)
      <3>1. sha \in Object /\ hashed \in 0..Len(Message) /\ Fed(sha, hashed)
        BY <1>1, <2>3 DEF ShaInv
      <3>2. /\ r \in Object /\ ~r.Corrupted
            /\ r.MessageDigest = Blocks(Padded(SubSeq(Message, 1, hashed)))
        BY <3>1, Pads, Zenon
      <3>3. 8 * hashed < LengthRange * LengthRange
        <4>1. hashed \in Nat
          BY <3>1
        <4>2. QED
          BY <3>1, <4>1, LengthWords
      <3>4. sha' = [r EXCEPT !.Computed = TRUE]
        BY <2>1, <2>3, Zenon DEF Result
      <3> HIDE DEF r
      <3>5. sha' \in Object /\ sha'.Computed /\ sha'.MessageDigest = r.MessageDigest
        BY <3>2, <3>4 DEF Object, ObjectTo
      <3>6. QED
        BY <2>1, <3>1, <3>2, <3>3, <3>5, Zenon DEF ShaInv
    <2>4. QED
      BY <2>2, <2>3
  <1>5. ASSUME NEW n \in Pieces, GiveInput(n) PROVE ShaInv'
    <2> DEFINE piece == Piece(hashed, n)
    <2>1. /\ hashed + n <= Len(Message) /\ hashed' = hashed + n
          /\ sha' = Input(sha, piece)
      BY <1>5 DEF GiveInput, Piece
    <2>2. n \in Nat /\ hashed \in Nat /\ Len(Message) \in Nat
      BY <1>1, ShaAssumption, MessageBytes DEF ShaInv
    <2>3. hashed' \in 0..Len(Message)
      BY <2>1, <2>2
    <2>4. Len(piece) = n
      BY <2>1, <2>2, PieceBytes
    <2> HIDE DEF piece
    <2>5. CASE piece = <<>>
      <3>1. sha' = sha /\ n = 0
        BY <2>1, <2>4, <2>5 DEF Input
      <3>2. hashed' = hashed
        BY <2>1, <2>2, <3>1
      <3>3. QED
        BY <1>1, <3>1, <3>2, Zenon DEF ShaInv, Fed
    <2>6. CASE piece # <<>> /\ (sha.Computed \/ sha.Corrupted)
      <3>1. sha' = [sha EXCEPT !.Corrupted = TRUE]
        BY <2>1, <2>6, Zenon DEF Input
      <3>2. sha' \in Object /\ sha'.Corrupted
        BY <1>1, <3>1 DEF ShaInv, Object, ObjectTo
      <3>3. QED
        BY <2>3, <3>2, Zenon DEF ShaInv
    <2>7. CASE piece # <<>> /\ ~(sha.Computed \/ sha.Corrupted)
      <3>1. GivenWell(sha, hashed)
        BY <1>1, <2>7 DEF ShaInv, GivenWell
      <3>2. n # 0
        <4>1. Piece(hashed, 0) = <<>>
          BY <2>2 DEF Piece
        <4>2. QED
          BY <2>7, <4>1 DEF piece
      <3>3. GivenWell(sha', hashed')
        BY <2>1, <2>2, <2>7, <3>1, <3>2, PieceWell, Zenon DEF piece
      <3>4. QED
        BY <2>3, <3>3, Zenon DEF GivenWell, ShaInv
    <2>8. QED
      BY <2>5, <2>6, <2>7
  <1>6. QED
    BY <1>1, <1>2, <1>4, <1>5 DEF ShaNext

(* A message of any length is padded and hashed block by block as the      *)
(* standard says, in whatever pieces it comes (Input, InputByte,           *)
(* PadMessage).                                                            *)
THEOREM ShaPadsCorrect == ShaSpec => []ShaPads
  <1>1. ShaInv => ShaPads
    BY Zenon DEF ShaInv, ShaPads, Fed
  <1>2. QED
    BY <1>1, ShaInvInit, ShaInvNext, PTL DEF ShaSpec
===============================================================================
