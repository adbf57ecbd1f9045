----------------------------- MODULE MCIsoTpLink -----------------------------
(***************************************************************************)
(* The link at model checking size.  The bytes of a message tell which     *)
(* message they belong to and where in it; 0 is the padding byte.          *)
(***************************************************************************)
EXTENDS IsoTpLink

From(first, n) == [i \in 1..n |-> first + i]

MCByte == 0..160

(* A Single Frame, two messages of one length, one that wraps the sequence *)
(* number, and one the receiver has no room for; the last two need the     *)
(* 32-bit length.                                                          *)
MCMessages == {From(0, 5), From(40, 18), From(80, 18), From(110, 33), From(120, 40)}
=============================================================================
