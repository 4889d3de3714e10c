---------------------------- MODULE MCCryptManager ----------------------------
(***************************************************************************)
(* The key exchange, and what is made of the keys.  The hash and the       *)
(* registers depend on nothing but their input, so they need not be        *)
(* interleaved with the exchange: one call of each is run at its end.      *)
(***************************************************************************)
EXTENDS CryptManager, Sha, KeyGenerator

(* A message of a bit more than two blocks.                                *)
LongMessage == [i \in 1..140 |-> i % 100]

MCInit == Init /\ ShaInit /\ GenerateInit

Exchanging == Next /\ UNCHANGED <<shaVars, keyVars>>
Hashing == Relaying /\ generating = "none" /\ ShaNext /\ UNCHANGED keyVars
Generating == Relaying /\ hashed = 0 /\ GenerateKey /\ UNCHANGED shaVars

MCSpec ==
  /\ MCInit
  /\ [][Exchanging \/ Hashing \/ Generating]_<<vars, shaVars, keyVars>>
  /\ Fairness
===============================================================================
