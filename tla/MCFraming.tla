----------------------------- MODULE MCFraming -----------------------------
(* A small instance of Framing: frames of six bytes, in which the checksum *)
(* is the one byte it covers.                                              *)
EXTENDS Framing

\* The bytes of prefix and suffix: out of place, they are the noise.
SomeBytes == {170, 85, 13}
=============================================================================
