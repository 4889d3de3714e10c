-------------------------------- MODULE MCWorld --------------------------------
(* The world for TLC: ids and addresses are only compared.                 *)
EXTENDS ClientManager

Alike == Permutations(Npcs) \cup Permutations(Users) \cup Permutations(Shots)
         \cup Permutations(Addresses)
===============================================================================
