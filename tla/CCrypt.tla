-------------------------------- MODULE CCrypt --------------------------------
(***************************************************************************)
(* class CCrypt (Crypt.h): a word-wise keystream generator with a buffer   *)
(* for the unused bytes of the last word.  The three CKey registers form a *)
(* deterministic generator, so their state is a function of how many words *)
(* have been drawn since GenerateKey: `words' stands for m_KEY[3] and      *)
(* `lastWords' for m_LastKEY[3].  Keystream bytes are numbered: byte b of  *)
(* word w is 4 * w + b.                                                    *)
(***************************************************************************)
EXTENDS Integers

CONSTANTS Sizes,     \* lengths of the buffers handed to ApplyCryptor
          MaxWords   \* bound on the words drawn (model bound only)

(* The word loop runs while i < s - 3 on an unsigned s, which wraps for    *)
(* s < 3: the function is only defined from 3 bytes up (ProxyRelay shows   *)
(* that no caller passes fewer than 4).                                    *)
ASSUME SizesAssumption == Sizes \subseteq {n \in Nat : n >= 3}
ASSUME MaxWordsAssumption == MaxWords \in Nat

VARIABLES words,            \* m_KEY, as the number of words drawn
          m_ChangeLen,      \* bytes of the last word not used yet
          m_ChangeData,     \* the word those bytes belong to
          lastWords,        \* m_LastKEY
          m_LastChangeLen,
          m_LastChangeData,
          used              \* keystream bytes used by the last call (history)

current    == <<words, m_ChangeLen, m_ChangeData>>
last       == <<lastWords, m_LastChangeLen, m_LastChangeData>>
ccryptVars == <<current, last, used>>

CCryptTypeOK ==
  /\ words \in Nat /\ m_ChangeLen \in 0 .. 3 /\ m_ChangeData \in Nat
  /\ lastWords \in Nat /\ m_LastChangeLen \in 0 .. 3 /\ m_LastChangeData \in Nat

CCryptInit ==
  /\ words = 0 /\ m_ChangeLen = 0 /\ m_ChangeData = 0
  /\ lastWords = 0 /\ m_LastChangeLen = 0 /\ m_LastChangeData = 0
  /\ used = <<>>

-------------------------------------------------------------------------------
KeyByte(word, byte) == 4 * word + byte

(* The parts of an n-byte buffer: bytes served from the left-over word,    *)
(* whole words, and a tail that opens a new word.                          *)
Pre(n)       == IF n < m_ChangeLen THEN n ELSE m_ChangeLen
FullWords(n) == (n - Pre(n)) \div 4
Remain(n)    == (n - Pre(n)) % 4

(* Mutant: the left-over bytes are taken from the start of their word.     *)
LeftOverFromStart(i) == KeyByte(m_ChangeData, i)

LeftOverByte(i)  == KeyByte(m_ChangeData, 4 - m_ChangeLen + i)
WordByte(n, i)   == KeyByte(words + (i - Pre(n)) \div 4, (i - Pre(n)) % 4)
TailByte(n, i)   == KeyByte(words + FullWords(n), i - (n - Remain(n)))

KeyBytes(n) ==
  [i \in 0 .. n - 1 |->
     IF i < Pre(n) THEN LeftOverByte(i)
     ELSE IF i < n - Remain(n) THEN WordByte(n, i) ELSE TailByte(n, i)]

(* Mutant: the word of the left-over bytes is not saved.                   *)
SaveDataWithoutWord ==
  /\ lastWords' = words
  /\ m_LastChangeLen' = m_ChangeLen
  /\ UNCHANGED m_LastChangeData

SaveData ==
  /\ lastWords' = words
  /\ m_LastChangeLen' = m_ChangeLen
  /\ m_LastChangeData' = m_ChangeData

(* Mutant: a word is always opened, even when no byte of it is needed.     *)
DrawWordsAlwaysOpen(n) ==
  /\ words' = words + FullWords(n) + 1
  /\ m_ChangeLen' = 4 - Remain(n)
  /\ m_ChangeData' = words + FullWords(n)

(* The generator is stepped once per whole word, and once more when the    *)
(* buffer ends inside a word, whose unused bytes are then kept.            *)
DrawWords(n) ==
  \/ /\ Remain(n) = 0
     /\ words' = words + FullWords(n)
     /\ m_ChangeLen' = m_ChangeLen - Pre(n)
     /\ UNCHANGED m_ChangeData
  \/ /\ Remain(n) # 0
     /\ words' = words + FullWords(n) + 1
     /\ m_ChangeLen' = 4 - Remain(n)
     /\ m_ChangeData' = words + FullWords(n)

ApplyCryptor(n, save) ==
  /\ words + FullWords(n) < MaxWords
  /\ used' = KeyBytes(n)
  /\ DrawWords(n)
  /\ IF save THEN SaveData ELSE UNCHANGED last

RestoreData ==
  /\ words' = lastWords
  /\ m_ChangeLen' = m_LastChangeLen
  /\ m_ChangeData' = m_LastChangeData
  /\ used' = <<>>
  /\ UNCHANGED last

CCryptNext == (\E n \in Sizes, save \in BOOLEAN : ApplyCryptor(n, save)) \/ RestoreData

CCryptSpec == CCryptInit /\ [][CCryptNext]_ccryptVars

-------------------------------------------------------------------------------
(* The left-over bytes are always the tail of the word drawn last: the     *)
(* generator and the left-over buffer never disagree, in the live state    *)
(* nor in the state RestoreData returns to.                                *)
LeftOverIsLastWord ==
  /\ m_ChangeLen > 0 => m_ChangeData = words - 1
  /\ m_LastChangeLen > 0 => m_LastChangeData = lastWords - 1

Abstract == INSTANCE StreamCipher WITH
  cipher <- [pos  |-> 4 * words - m_ChangeLen,
             mark |-> 4 * lastWords - m_LastChangeLen]

(* CCrypt is a stream cipher: whatever the lengths of the calls, byte k of *)
(* the stream is XORed with keystream byte k, and RestoreData goes back to *)
(* the position of the last saving call (ApplyCryptor, SaveData and        *)
(* RestoreData, Crypt.h).                                                  *)
ChunkingIsInvisible == Abstract!Spec
===============================================================================
