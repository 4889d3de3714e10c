----------------------------- MODULE StreamCipher -----------------------------
(***************************************************************************)
(* What a CCrypt object promises: applying it to n bytes XORs byte i with  *)
(* keystream byte pos + i, however the bytes are cut into calls, and moves *)
(* the position by n; a saved position can be returned to, which is how    *)
(* the receive loops look at a header without consuming keystream.         *)
(***************************************************************************)
EXTENDS Keystream

CONSTANT Sizes      \* lengths of the buffers handed to one call

VARIABLES cipher,   \* the position and the saved position
          used      \* keystream bytes used by the last call, per buffer byte
vars == <<cipher, used>>

Init == cipher = CipherAt(0) /\ used = <<>>

Apply(n, save) ==
  /\ used' = Span(cipher.pos, n)
  /\ cipher' = Encrypted(IF save THEN Saved(cipher) ELSE cipher, n)

Restore == cipher' = Restored(cipher) /\ used' = <<>>

Next == (\E n \in Sizes, save \in BOOLEAN : Apply(n, save)) \/ Restore

Spec == Init /\ [][Next]_vars
===============================================================================
