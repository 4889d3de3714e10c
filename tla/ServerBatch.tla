------------------------------ MODULE ServerBatch ------------------------------
(***************************************************************************)
(* CProxy::SERVER_SendPacket(pData, size, count) (Proxy.cpp): one write of *)
(* count copies of a packet, made in a heap buffer by copying what is      *)
(* there behind itself, twice as much each time.  Byte k of the packet is  *)
(* called k.                                                               *)
(*                                                                         *)
(* size and count are 32 bits wide, and so is their product: Word stands   *)
(* for 2^32.  A memcpy past the end of the buffer, or onto its own source, *)
(* has no defined outcome: the call is "lost".                             *)
(***************************************************************************)
EXTENDS Integers

CONSTANT Word
ASSUME WordAssumption == Word \in Nat \ {0}

VARIABLES
  place,   \* where the call is: "idle", "double", "send" or "lost"
  size,    \* its arguments
  count,
  saved,   \* pSaved: a packet byte, or Unset
  cur
batchVars == <<place, size, count, saved, cur>>

Unset == -1
Wrap(x) == x % Word

(* Bytes of the buffer: size * count as the code computes it.              *)
Total == Wrap(size * count)

BatchInit ==
  /\ place = "idle"
  /\ size = 1 /\ count = 1
  /\ saved = [k \in 0..0 |-> 0]
  /\ cur = 1

(* memcpy(pSaved + to, pSaved, n)                                          *)
CopyTo(to, n) ==
  [k \in DOMAIN saved |-> IF to <= k /\ k < to + n THEN saved[k - to] ELSE saved[k]]
Defined(to, n) == n <= to /\ to + n <= Total

(* Nothing is sent for count < 1.  A single packet is encrypted in place.  *)
StartSingle(n, c) ==
  /\ place = "idle" /\ c = 1
  /\ place' = "send"
  /\ size' = n /\ count' = c
  /\ saved' = [k \in 0..n - 1 |-> k]
  /\ cur' = n

(* The buffer is allocated and the packet copied to its start, or past its *)
(* end when the product has wrapped.                                       *)
StartBatch(n, c) ==
  /\ place = "idle" /\ c > 1
  /\ size' = n /\ count' = c
  /\ saved' = [k \in 0..Wrap(n * c) - 1 |-> IF k < n THEN k ELSE Unset]
  /\ cur' = n
  /\ place' = IF n <= Wrap(n * c) THEN "double" ELSE "lost"

Start(n, c) == StartSingle(n, c) \/ StartBatch(n, c)

(* Less than half of the buffer is filled.                                 *)
Doubles == Wrap(cur * 2) < Total

Double ==
  /\ place = "double" /\ Doubles
  /\ cur' = Wrap(cur * 2)
  /\ IF Defined(cur, cur)
     THEN saved' = CopyTo(cur, cur) /\ UNCHANGED place
     ELSE place' = "lost" /\ UNCHANGED saved
  /\ UNCHANGED <<size, count>>

(* Mutant: one packet is added, as if one were always missing.             *)
CopyRestOfOne ==
  /\ place = "double" /\ ~Doubles
  /\ IF Defined(cur, size)
     THEN saved' = CopyTo(cur, size) /\ place' = "send"
     ELSE place' = "send" /\ UNCHANGED saved
  /\ UNCHANGED <<size, count, cur>>

(* What is still missing is copied, if anything is.                        *)
CopyRest ==
  /\ place = "double" /\ ~Doubles
  /\ IF Defined(cur, Total - cur)
     THEN saved' = CopyTo(cur, Total - cur) /\ place' = "send"
     ELSE place' = "lost" /\ UNCHANGED saved
  /\ UNCHANGED <<size, count, cur>>

(* Encrypted and written in one go (ProxyRelay).                           *)
Sent ==
  /\ place = "send"
  /\ place' = "idle"
  /\ UNCHANGED <<size, count, saved, cur>>

BatchStep == Double \/ CopyRest \/ Sent

-------------------------------------------------------------------------------
(* The product is far from wrapping.                                       *)
Fits == 2 * size * count <= Word

(* As long as the product is below half a word, what is sent is the        *)
(* packet, count times, with no byte of the heap in between and no copy    *)
(* out of bounds or onto itself, whether or not count is a power of two    *)
(* (Proxy.cpp:226-235).                                                    *)
BatchIsCopies ==
  Fits =>
    /\ place # "lost"
    /\ place = "send" =>
         \A k \in 0..size * count - 1 : saved[k] = IF k < size THEN k ELSE saved[k - size]
===============================================================================
