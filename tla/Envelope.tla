------------------------------- MODULE Envelope -------------------------------
(*****************************************************************************)
(* The envelope of the state file (persist.cpp).  A sequence of symbols      *)
(* stands for its bytes: one symbol per field of the envelope and one per    *)
(* byte of the payload.                                                      *)
(*****************************************************************************)
EXTENDS Naturals, Sequences

CONSTANT kMaxPayload  \* the bound on payloads, 256 MiB in the code

ASSUME EnvelopeConstants == kMaxPayload \in Nat

\* The number a symbol stands for, and what it is the checksum of.
Number(n) == [number |-> n, window |-> <<>>]

kMagic == Number(73)
kVersion == Number(1)
kEnvelopeHeader == 3
kCrcSize == 1

\* CRC-32C without its collisions: a checksum tells its window.  The real one
\* tells any two windows apart that differ in at most 32 consecutive bits,
\* hence in one symbol.
crc32c(window) == [number |-> Len(window), window |-> window]

\* Throws, and saves nothing, when the payload is larger than kMaxPayload.
encode(payload) ==
  LET window == <<kMagic, kVersion, Number(Len(payload))>> \o payload
  IN  Append(window, crc32c(window))

\* Mutant of decode: what follows the checksum is ignored.
decode_prefix(s) ==
  /\ Len(s) >= kEnvelopeHeader + kCrcSize
  /\ s[1] = kMagic /\ s[2] = kVersion /\ s[3].number <= kMaxPayload
  /\ LET expected == kEnvelopeHeader + s[3].number + kCrcSize
     IN  /\ Len(s) >= expected
         /\ s[expected] = crc32c(SubSeq(s, 1, expected - kCrcSize))

\* Whether decode accepts s.
decode(s) ==
  /\ Len(s) >= kEnvelopeHeader + kCrcSize
  /\ s[1] = kMagic /\ s[2] = kVersion /\ s[3].number <= kMaxPayload
  /\ LET expected == kEnvelopeHeader + s[3].number + kCrcSize
     IN  /\ Len(s) = expected
         /\ s[expected] = crc32c(SubSeq(s, 1, expected - kCrcSize))

\* The payload decode returns.
Payload(s) == SubSeq(s, kEnvelopeHeader + 1, Len(s) - kCrcSize)
===============================================================================
