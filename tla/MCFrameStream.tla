---------------------------- MODULE MCFrameStream ----------------------------
(*****************************************************************************)
(* An instance of the framed protocol: an empty payload, one of two symbols, *)
(* one that looks like the beginning of a header, and one that is too large. *)
(*****************************************************************************)
EXTENDS FrameStream

SomeMessages ==
  {[type |-> Number(1), payload |-> <<>>],
   [type |-> Number(2), payload |-> <<kMagicHost, kFrameVersion>>],
   [type |-> Number(2), payload |-> <<Number(0), Number(1), Number(2)>>]}

\* Among them the magic number, the version, and lengths too small and too
\* large.
SomeNoise == {Number(0), Number(1), Number(3), kMagicHost}
==============================================================================
