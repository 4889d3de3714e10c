------------------------------- MODULE Keystream -------------------------------
(***************************************************************************)
(* The view of a CCrypt object that the rest of the program depends on.    *)
(* The key fixes one endless keystream; a cipher is a position in it and a *)
(* saved position.  StreamCipher is the machine over these operators that  *)
(* CCrypt is shown to implement, and the modules that hold several ciphers *)
(* (CryptManager, ProxyRelay) use the operators directly.                  *)
(***************************************************************************)
EXTENDS Integers

Cipher == [pos : Nat, mark : Nat]
CipherAt(p) == [pos |-> p, mark |-> 0]

(* Mutants: the position is not saved, or rewound by a header too many.    *)
SavedNever(c) == c
RestoredTooFar(c) == [c EXCEPT !.pos = c.mark - 4]

Encrypted(c, n) == [c EXCEPT !.pos = @ + n]
Saved(c)        == [c EXCEPT !.mark = c.pos]
Restored(c)     == [c EXCEPT !.pos = c.mark]

(* The keystream bytes that n bytes starting at position p are XORed with. *)
Span(p, n) == [i \in 0 .. n - 1 |-> p + i]
===============================================================================
