----------------------------- MODULE FrameStream -----------------------------
(*****************************************************************************)
(* The framed protocol over one direction of a TCP connection (protocol.cpp): *)
(* write_all and read_exact move any number of bytes at a time through a     *)
(* bounded buffer, the sender may go away in the middle of a frame, and a    *)
(* symbol may be altered on the way.  Symbols stand for bytes as in Envelope; *)
(* each carries the number of its frame, which nobody reads.                 *)
(*****************************************************************************)
EXTENDS Envelope, SequencesExt

CONSTANTS
  Messages,   \* records [type, payload] given to send_frame
  kMaxFrame,  \* the bound on payloads, 16 MiB in the code
  Capacity,   \* symbols the connection holds
  Noise,      \* values an altered symbol may take
  MaxSent,    \* how many frames are sent
  MaxDamage   \* how many symbols are altered

Symbol == [number : Nat, window : {<<>>}]

ASSUME StreamConstants ==
  /\ Messages \subseteq [type : Symbol, payload : Seq(Symbol)]
  /\ Noise \subseteq Symbol
  /\ kMaxFrame \in Nat /\ Capacity \in Nat \ {0}
  /\ MaxSent \in Nat /\ MaxDamage \in Nat

VARIABLES
  sent,       \* the messages accepted by send_frame
  out,        \* what write_all still has to write
  sender,     \* "open", "closed", or "cut": closed in the middle of a frame
  wire,       \* symbols written and not yet read
  altered,    \* how many symbols were altered
  buffer,     \* what read_exact has read of the current frame
  receiver,   \* "receiving" or "closed"
  delivered,  \* the messages returned by recv_frame
  last        \* the number of the frame of the last one

outgoing == <<sent, out, sender>>
incoming == <<buffer, receiver, delivered, last>>
streamVars == <<outgoing, wire, altered, incoming>>

-----------------------------------------------------------------------------
(* Frames.                                                                   *)

kMagicHost == Number(73)
kFrameVersion == Number(1)
kHeaderSize == 5

\* Magic, version, type and length; the checksum of these and the payload;
\* the payload.
Fixed(m) == <<kMagicHost, kFrameVersion, m.type, Number(Len(m.payload))>>
Frame(m) == Append(Fixed(m), crc32c(Fixed(m) \o m.payload)) \o m.payload

Numbered(s, n) == [i \in DOMAIN s |-> [symbol |-> s[i], frame |-> n]]
Plain(s) == [i \in DOMAIN s |-> s[i].symbol]

StreamInit ==
  /\ sent = <<>> /\ out = <<>> /\ sender = "open"
  /\ wire = <<>> /\ altered = 0
  /\ buffer = <<>> /\ receiver = "receiving" /\ delivered = <<>> /\ last = 0

-----------------------------------------------------------------------------
(* The sender.                                                               *)

\* A payload larger than kMaxFrame is refused.
send_frame(m) ==
  /\ sender = "open" /\ out = <<>> /\ Len(sent) < MaxSent
  /\ Len(m.payload) <= kMaxFrame
  /\ sent' = Append(sent, m)
  /\ out' = Numbered(Frame(m), Len(sent) + 1)
  /\ UNCHANGED <<sender, wire, altered, incoming>>

\* Mutant of write_all: every call of send() starts at the first byte.
write_all_restarting ==
  /\ sender = "open" /\ receiver = "receiving"
  /\ LET frame == Numbered(Frame(sent[Len(sent)]), Len(sent))
     IN  \E k \in 1..Len(out) :
           /\ Len(wire) + k <= Capacity
           /\ wire' = wire \o SubSeq(frame, 1, k)
           /\ out' = SubSeq(out, k + 1, Len(out))
  /\ UNCHANGED <<sent, sender, altered, incoming>>

\* One call of send(), which may take fewer bytes than it is given.
write_all ==
  /\ sender = "open" /\ receiver = "receiving"
  /\ \E k \in 1..Len(out) :
       /\ Len(wire) + k <= Capacity
       /\ wire' = wire \o SubSeq(out, 1, k)
       /\ out' = SubSeq(out, k + 1, Len(out))
  /\ UNCHANGED <<sent, sender, altered, incoming>>

WriteFails ==
  /\ sender = "open" /\ out # <<>> /\ receiver = "closed"
  /\ sender' = "cut" /\ out' = <<>>
  /\ UNCHANGED <<sent, wire, altered, incoming>>

\* The sender closes the connection between two frames, or dies anywhere.
socket_close ==
  /\ sender = "open"
  /\ sender' = IF out = <<>> THEN "closed" ELSE "cut"
  /\ out' = <<>>
  /\ UNCHANGED <<sent, wire, altered, incoming>>

Alter ==
  /\ altered < MaxDamage
  /\ \E i \in DOMAIN wire, x \in Noise :
       wire[i].symbol # x /\ wire' = [wire EXCEPT ![i].symbol = x]
  /\ altered' = altered + 1
  /\ UNCHANGED <<outgoing, incoming>>

-----------------------------------------------------------------------------
(* The receiver.                                                             *)

plen == buffer[4].symbol.number
Wanted == IF Len(buffer) < kHeaderSize THEN kHeaderSize ELSE kHeaderSize + plen

\* Mutant of HeaderAccepted: the length is not checked.
HeaderAcceptedUnbounded ==
  /\ buffer[1].symbol = kMagicHost
  /\ buffer[2].symbol = kFrameVersion

HeaderAccepted ==
  /\ buffer[1].symbol = kMagicHost
  /\ buffer[2].symbol = kFrameVersion
  /\ plen <= kMaxFrame

\* Mutant of read_exact: it takes whatever has arrived.
read_available ==
  /\ receiver = "receiving"
  /\ Len(buffer) >= kHeaderSize => HeaderAccepted
  /\ Len(buffer) < Wanted /\ wire # <<>>
  /\ buffer' = buffer \o wire /\ wire' = <<>>
  /\ UNCHANGED <<outgoing, altered, receiver, delivered, last>>

\* One call of recv(), for the header first and then for the payload.
read_exact ==
  /\ receiver = "receiving"
  /\ Len(buffer) >= kHeaderSize => HeaderAccepted
  /\ \E k \in 1..(Wanted - Len(buffer)) :
       /\ k <= Len(wire)
       /\ buffer' = buffer \o SubSeq(wire, 1, k)
       /\ wire' = SubSeq(wire, k + 1, Len(wire))
  /\ UNCHANGED <<outgoing, altered, receiver, delivered, last>>

Complete == Len(buffer) >= kHeaderSize /\ HeaderAccepted /\ Len(buffer) = Wanted
PayloadRead == SubSeq(Plain(buffer), kHeaderSize + 1, Len(buffer))

\* Mutant of ChecksumMatches: the header is left out of the checksum.
PayloadMatches ==
  PayloadRead = SubSeq(buffer[5].symbol.window, kHeaderSize,
                       Len(buffer[5].symbol.window))

ChecksumMatches ==
  buffer[5].symbol = crc32c(SubSeq(Plain(buffer), 1, 4) \o PayloadRead)

\* recv_frame returns a frame.
Deliver ==
  /\ receiver = "receiving" /\ Complete /\ ChecksumMatches
  /\ delivered' =
       Append(delivered, [type |-> buffer[3].symbol, payload |-> PayloadRead])
  /\ last' = buffer[5].frame
  /\ buffer' = <<>>
  /\ UNCHANGED <<outgoing, wire, altered, receiver>>

\* recv_frame returns false: what was read is dropped.  A worker gives up the
\* connection, the coordinator goes on with the next command on it.
Fails ==
  /\ buffer' = <<>> /\ receiver' \in {"receiving", "closed"}
  /\ UNCHANGED <<outgoing, wire, altered, delivered, last>>

RefuseHeader ==
  /\ receiver = "receiving" /\ Len(buffer) = kHeaderSize
  /\ ~HeaderAccepted /\ Fails

RefuseChecksum == receiver = "receiving" /\ Complete /\ ~ChecksumMatches /\ Fails

ConnectionClosed ==
  /\ receiver = "receiving" /\ sender # "open" /\ wire = <<>>
  /\ Len(buffer) < Wanted
  /\ Len(buffer) >= kHeaderSize => HeaderAccepted
  /\ Fails

recv_frame ==
  read_exact \/ Deliver \/ RefuseHeader \/ RefuseChecksum \/ ConnectionClosed

StreamNext ==
  \/ \E m \in Messages : send_frame(m)
  \/ write_all \/ WriteFails \/ socket_close
  \/ Alter
  \/ recv_frame

\* Both processes are scheduled: send_frame and recv_frame, once called, go on
\* as long as the connection lets them.  Nobody is obliged to send or close.
StreamSpec ==
  /\ StreamInit /\ [][StreamNext]_streamVars
  /\ WF_streamVars(write_all) /\ WF_streamVars(recv_frame)

-----------------------------------------------------------------------------
(* Properties.                                                               *)

C == INSTANCE Channel WITH damaged <- altered > 0

\* Refinement: whatever way frames are cut up by partial reads and writes, and
\* whatever the receiver does after a frame it had to refuse, recv_frame only
\* returns what was sent, in order, and skips nothing unless it was damaged.
ChannelRefined == C!Spec

\* The two ends never get out of step on an undamaged connection: what has
\* been read, is under way and is still to be written are the frames that
\* have not been delivered, up to where the sender stopped.
InStep ==
  LET pending == FlattenSeq([i \in 1..Len(sent) - last |-> Frame(sent[last + i])])
      present == Plain(buffer \o wire \o out)
  IN  altered = 0 => /\ IsPrefix(present, pending)
                     /\ sender # "cut" => present = pending

\* recv_frame never holds more than one frame of the largest size, whatever
\* length the header it has read claims.
BufferIsBounded == Len(buffer) <= kHeaderSize + kMaxFrame

\* Liveness: every frame that is sent arrives, although send() and recv() move
\* few bytes at a time, unless the sender goes away in the middle of a frame or
\* the connection is damaged (a damaged length may keep the receiver waiting).
EveryFrameArrives ==
  \A n \in 1..MaxSent :
    Len(sent) >= n ~> last >= n \/ sender = "cut" \/ altered > 0
=============================================================================
