---------------------------- MODULE StreamProofs ----------------------------
(*****************************************************************************)
(* Theorems about the framed protocol, for all messages, bounds, capacities  *)
(* and any amount of damage: the receiver's buffer is bounded, and recv_frame *)
(* returns only frames that were sent.                                       *)
(*****************************************************************************)
EXTENDS FrameStream, SequenceTheorems, TLAPS

Window(m) == Fixed(m) \o m.payload
Checksums == {crc32c(Window(m)) : m \in Messages}
Item == [symbol : Symbol \cup Checksums, frame : Nat]

StreamType ==
  /\ sent \in Seq(Messages)
  /\ out \in Seq(Item) /\ wire \in Seq(Item) /\ buffer \in Seq(Item)

\* The fields of a header are symbols.
LEMMA FixedType ==
  ASSUME NEW m \in Messages
  PROVE  /\ Fixed(m) \in Seq(Symbol) /\ Len(Fixed(m)) = 4
         /\ m.payload \in Seq(Symbol) /\ Fixed(m)[3] = m.type
BY StreamConstants DEF Fixed, kMagicHost, kFrameVersion, Number, Symbol

\* Every symbol has a number.
LEMMA NumberType == \A s \in Symbol \cup Checksums : s.number \in Nat
<1>1. \A m \in Messages : Len(Window(m)) \in Nat
  BY FixedType DEF Window
<1>2. QED
  BY <1>1 DEF Symbol, Checksums, crc32c

\* A frame on its way to the wire is a sequence of items.
LEMMA FrameType ==
  ASSUME NEW m \in Messages, NEW n \in Nat
  PROVE  Numbered(Frame(m), n) \in Seq(Item)
<1>1. crc32c(Window(m)) \in Symbol \cup Checksums
  BY DEF Checksums
<1>2. Frame(m) \in Seq(Symbol \cup Checksums)
  BY <1>1, FixedType DEF Frame, Window
<1>3. DOMAIN Frame(m) = 1..Len(Frame(m)) /\ Len(Frame(m)) \in Nat
  BY <1>2
<1>4. Numbered(Frame(m), n) \in [1..Len(Frame(m)) -> Item]
  BY <1>2, <1>3 DEF Numbered, Item
<1>5. QED
  BY <1>3, <1>4

\* Every step keeps the types.
LEMMA StreamTypeStep == StreamType /\ [StreamNext]_streamVars => StreamType'
<1> SUFFICES ASSUME StreamType, [StreamNext]_streamVars PROVE StreamType'
  OBVIOUS
<1>0. <<>> \in Seq(Item)
  OBVIOUS
<1>1. ASSUME NEW m \in Messages, send_frame(m) PROVE StreamType'
  BY <1>1, FrameType DEF send_frame, StreamType, incoming
<1>2. CASE write_all
  BY <1>2 DEF write_all, StreamType, incoming
<1>3. CASE WriteFails \/ socket_close
  BY <1>0, <1>3, Zenon DEF WriteFails, socket_close, StreamType, incoming
<1>4. CASE Alter
  <2>1. PICK i \in DOMAIN wire, x \in Noise :
          wire' = [wire EXCEPT ![i].symbol = x]
    BY <1>4, Zenon DEF Alter
  <2>2. [wire[i] EXCEPT !.symbol = x] \in Item
    <3>1. wire[i] \in Item
      BY DEF StreamType
    <3>2. x \in Symbol \cup Checksums
      BY StreamConstants
    <3>3. QED
      BY <3>1, <3>2 DEF Item
  <2>3. Len(wire) \in Nat /\ wire \in [1..Len(wire) -> Item]
    BY DEF StreamType
  <2>4. wire' \in [1..Len(wire) -> Item]
    BY <2>1, <2>2, <2>3
  <2>5. wire' \in Seq(Item)
    BY <2>3, <2>4
  <2>6. QED
    BY <1>4, <2>5 DEF Alter, StreamType, outgoing, incoming
<1>5. CASE read_exact
  BY <1>5 DEF read_exact, StreamType, outgoing
<1>6. CASE Deliver \/ RefuseHeader \/ RefuseChecksum \/ ConnectionClosed
  BY <1>0, <1>6, Zenon
  DEF Deliver, RefuseHeader, RefuseChecksum, ConnectionClosed, Fails, StreamType,
      outgoing
<1>7. CASE UNCHANGED streamVars
  BY <1>7 DEF streamVars, outgoing, incoming, StreamType
<1>8. QED
  BY <1>1, <1>2, <1>3, <1>4, <1>5, <1>6, <1>7 DEF StreamNext, recv_frame

\* A read never takes more than the rest of a header or of a payload whose
\* length has been accepted.
LEMMA BufferStep ==
  StreamType /\ BufferIsBounded /\ [StreamNext]_streamVars => BufferIsBounded'
<1> SUFFICES ASSUME StreamType, BufferIsBounded, [StreamNext]_streamVars
             PROVE  BufferIsBounded'
  OBVIOUS
<1>1. CASE read_exact
  <2>1. PICK k \in 1..(Wanted - Len(buffer)) :
          k <= Len(wire) /\ buffer' = buffer \o SubSeq(wire, 1, k)
    BY <1>1 DEF read_exact
  <2>2. Len(buffer) >= kHeaderSize => plen \in Nat /\ plen <= kMaxFrame
    <3>1. Len(buffer) >= kHeaderSize => buffer[4] \in Item
      BY DEF StreamType, kHeaderSize
    <3>2. QED
      BY <1>1, <3>1, NumberType DEF read_exact, HeaderAccepted, plen, Item
  <2>3. Wanted \in Nat /\ Wanted <= kHeaderSize + kMaxFrame
    BY <2>2, StreamConstants DEF Wanted, kHeaderSize, StreamType
  <2>4. Len(buffer') = Len(buffer) + k
    BY <2>1, <2>3 DEF StreamType
  <2>5. QED
    <3>1. Len(buffer) \in Nat /\ k <= Wanted - Len(buffer)
      BY <2>1 DEF StreamType
    <3>2. QED
      BY <2>3, <2>4, <3>1, StreamConstants DEF BufferIsBounded, kHeaderSize
<1>2. CASE buffer' = buffer
  BY <1>2 DEF BufferIsBounded
<1>3. CASE buffer' = <<>>
  BY <1>3, StreamConstants DEF BufferIsBounded, kHeaderSize
<1>4. QED
  BY <1>1, <1>2, <1>3
  DEF StreamNext, recv_frame, streamVars, outgoing, incoming, send_frame,
      write_all, WriteFails, socket_close, Alter, Deliver, RefuseHeader,
      RefuseChecksum, ConnectionClosed, Fails

\* Nothing has been read at the beginning.
LEMMA StreamInitInv == StreamInit => StreamType /\ BufferIsBounded
BY StreamConstants DEF StreamInit, StreamType, BufferIsBounded, kHeaderSize

\* The receiver's buffer is bounded by the largest frame, whatever arrives.
THEOREM BufferTheorem == StreamSpec => []BufferIsBounded
BY StreamInitInv, StreamTypeStep, BufferStep, PTL DEF StreamSpec

-----------------------------------------------------------------------------
(* What recv_frame returns.                                                  *)

\* An item is what the sender wrote, or its symbol was altered; no alteration
\* makes a checksum.
Own(x, ms) == /\ x.frame \in 1..Len(ms)
              /\ \/ x.symbol \in Symbol
                 \/ x.symbol = crc32c(Window(ms[x.frame]))
AllOwn(s, ms) == \A i \in DOMAIN s : Own(s[i], ms)
Genuine == AllOwn(out, sent) /\ AllOwn(wire, sent) /\ AllOwn(buffer, sent)

\* Equally long beginnings of equal sequences are equal, and so is the rest.
LEMMA ConcatCancel ==
  ASSUME NEW S, NEW a \in Seq(S), NEW b \in Seq(S), NEW c \in Seq(S),
         NEW d \in Seq(S), Len(a) = Len(c)
  PROVE  a \o b = c \o d => a = c /\ b = d
<1> DEFINE l == a \o b
           r == c \o d
<1>1. Len(l) = Len(a) + Len(b) /\ Len(r) = Len(c) + Len(d)
  BY ConcatProperties, Zenon
<1>2. /\ \A i \in 1..Len(a) : l[i] = a[i]
      /\ \A i \in 1..Len(c) : r[i] = c[i]
  BY ConcatProperties
<1>3. /\ \A i \in 1..Len(b) : l[Len(a) + i] = b[i]
      /\ \A i \in 1..Len(d) : r[Len(c) + i] = d[i]
  BY ConcatProperties
<1> HIDE DEF l, r
<1>4. SUFFICES ASSUME l = r PROVE a = c /\ b = d
  BY DEF l, r
<1>5. Len(b) = Len(d)
  BY <1>1, <1>4
<1>6. \A i \in 1..Len(a) : a[i] = c[i]
  BY <1>2, <1>4
<1>7. \A i \in 1..Len(b) : b[i] = d[i]
  BY <1>3, <1>4, <1>5
<1>8. QED
  BY <1>5, <1>6, <1>7, SeqEqual

\* A frame that passes all checks is the one its checksum was computed for.
LEMMA AcceptedIsSent ==
  ASSUME StreamType, Genuine, Complete, ChecksumMatches
  PROVE  LET n == buffer[5].frame
         IN  /\ n \in 1..Len(sent)
             /\ sent[n] = [type |-> buffer[3].symbol, payload |-> PayloadRead]
<1> DEFINE n == buffer[5].frame
           m == sent[n]
           T == Symbol \cup Checksums
           p == Plain(buffer)
           h == SubSeq(p, 1, 4)
<1>1. Len(buffer) \in Nat /\ Len(buffer) >= 5 /\ \A i \in 1..Len(buffer) : buffer[i] \in Item
  BY DEF StreamType, Complete, kHeaderSize
<1>2. p \in Seq(T) /\ Len(p) = Len(buffer) /\ \A i \in 1..Len(buffer) : p[i] = buffer[i].symbol
  <2>1. DOMAIN buffer = 1..Len(buffer)
    BY DEF StreamType
  <2>2. p \in [1..Len(buffer) -> T] /\ \A i \in 1..Len(buffer) : p[i] = buffer[i].symbol
    BY <1>1, <2>1 DEF Plain, Item
  <2>3. QED
    BY <1>1, <2>2
<1>3. h \in Seq(T) /\ Len(h) = 4 /\ h[3] = buffer[3].symbol
  BY <1>1, <1>2
<1>4. PayloadRead \in Seq(T)
  BY <1>1, <1>2 DEF PayloadRead, kHeaderSize
<1>5. Own(buffer[5], sent)
  BY <1>1 DEF Genuine, AllOwn, StreamType
<1>6. n \in 1..Len(sent) /\ m \in Messages
  BY <1>5 DEF Own, StreamType
<1>7. buffer[5].symbol = crc32c(h \o PayloadRead)
  BY DEF ChecksumMatches
<1>8. h \o PayloadRead # <<>>
  <2> HIDE DEF h, T
  <2>0. \A s : Len(s) = 4 => s # <<>>
    OBVIOUS
  <2>1. h # <<>>
    BY <1>3, <2>0
  <2>2. QED
    BY <1>3, <1>4, <2>1, ConcatEqualIffEmpty
<1>9. buffer[5].symbol = crc32c(Window(m))
  BY <1>5, <1>7, <1>8 DEF Own, Symbol, crc32c
<1>10. h \o PayloadRead = Fixed(m) \o m.payload
  <2>1. ASSUME NEW v, NEW w, crc32c(v) = crc32c(w) PROVE v = w
    BY <2>1 DEF crc32c
  <2>2. QED
    BY <1>7, <1>9, <2>1, Zenon DEF Window
<1>11. /\ Fixed(m) \in Seq(T) /\ Len(Fixed(m)) = 4 /\ Fixed(m)[3] = m.type
       /\ m.payload \in Seq(T)
  BY <1>6, FixedType
<1> HIDE DEF h, p, m, n, T
<1>12. h = Fixed(m) /\ PayloadRead = m.payload
  BY <1>3, <1>4, <1>10, <1>11, ConcatCancel, Zenon
<1>13. m = [type |-> m.type, payload |-> m.payload]
  BY <1>6, StreamConstants
<1>14. QED
  BY <1>3, <1>6, <1>11, <1>12, <1>13 DEF m, n

\* Parts and concatenations of sequences of own items.
LEMMA OwnParts ==
  ASSUME NEW ms, NEW s \in Seq(Item), AllOwn(s, ms)
  PROVE  /\ \A t \in Seq(Item) : AllOwn(t, ms) => AllOwn(s \o t, ms)
         /\ \A k \in 1..Len(s) :
              /\ SubSeq(s, 1, k) \in Seq(Item) /\ AllOwn(SubSeq(s, 1, k), ms)
              /\ AllOwn(SubSeq(s, k + 1, Len(s)), ms)
<1>1. ASSUME NEW t \in Seq(Item), AllOwn(t, ms) PROVE AllOwn(s \o t, ms)
  BY <1>1, ConcatProperties DEF AllOwn
<1>2. ASSUME NEW i \in 1..(Len(s) + 1), NEW j \in 0..Len(s)
      PROVE  SubSeq(s, i, j) \in Seq(Item) /\ AllOwn(SubSeq(s, i, j), ms)
  <2>1. /\ SubSeq(s, i, j) \in Seq(Item)
        /\ \A k \in DOMAIN SubSeq(s, i, j) :
             i + k - 1 \in DOMAIN s /\ SubSeq(s, i, j)[k] = s[i + k - 1]
    OBVIOUS
  <2>2. QED
    BY <2>1 DEF AllOwn
<1>3. ASSUME NEW k \in 1..Len(s)
      PROVE  /\ SubSeq(s, 1, k) \in Seq(Item) /\ AllOwn(SubSeq(s, 1, k), ms)
             /\ AllOwn(SubSeq(s, k + 1, Len(s)), ms)
  <2>1. /\ 1 \in 1..(Len(s) + 1) /\ k \in 0..Len(s)
        /\ k + 1 \in 1..(Len(s) + 1) /\ Len(s) \in 0..Len(s)
    OBVIOUS
  <2>2. QED
    BY <1>2, <2>1
<1>4. QED
  BY <1>1, <1>3

\* A new frame is genuine, and the older ones stay so.
LEMMA OwnSend ==
  ASSUME NEW ms \in Seq(Messages), NEW m \in Messages
  PROVE  /\ AllOwn(Numbered(Frame(m), Len(ms) + 1), Append(ms, m))
         /\ \A s : AllOwn(s, ms) => AllOwn(s, Append(ms, m))
<1>1. /\ Len(Append(ms, m)) = Len(ms) + 1
      /\ Append(ms, m)[Len(ms) + 1] = m
      /\ \A i \in 1..Len(ms) : Append(ms, m)[i] = ms[i]
  OBVIOUS
<1>2. Frame(m) \in Seq(Symbol \cup {crc32c(Window(m))})
  BY FixedType DEF Frame, Window
<1>3. \A i \in DOMAIN Frame(m) : Frame(m)[i] \in Symbol \cup {crc32c(Window(m))}
  BY <1>2
<1>4. AllOwn(Numbered(Frame(m), Len(ms) + 1), Append(ms, m))
  BY <1>1, <1>3 DEF AllOwn, Own, Numbered
<1>5. ASSUME NEW s, AllOwn(s, ms) PROVE AllOwn(s, Append(ms, m))
  BY <1>1, <1>5 DEF AllOwn, Own
<1>6. QED
  BY <1>4, <1>5

\* Every step keeps the items genuine.
LEMMA GenuineStep ==
  StreamType /\ Genuine /\ [StreamNext]_streamVars => Genuine'
<1> SUFFICES ASSUME StreamType, Genuine, [StreamNext]_streamVars PROVE Genuine'
  OBVIOUS
<1>0. \A ms : AllOwn(<<>>, ms)
  BY DEF AllOwn
<1>1. ASSUME NEW m \in Messages, send_frame(m) PROVE Genuine'
  BY <1>1, OwnSend DEF send_frame, incoming, Genuine, StreamType
<1>2. CASE write_all
  <2>1. PICK k \in 1..Len(out) : /\ wire' = wire \o SubSeq(out, 1, k)
                                 /\ out' = SubSeq(out, k + 1, Len(out))
    BY <1>2, Zenon DEF write_all
  <2>2. sent' = sent /\ buffer' = buffer
    BY <1>2 DEF write_all, incoming
  <2>3. /\ SubSeq(out, 1, k) \in Seq(Item) /\ AllOwn(SubSeq(out, 1, k), sent)
        /\ AllOwn(SubSeq(out, k + 1, Len(out)), sent)
    BY OwnParts DEF Genuine, StreamType
  <2>4. AllOwn(wire \o SubSeq(out, 1, k), sent)
    BY <2>3, OwnParts, Zenon DEF Genuine, StreamType
  <2>5. QED
    BY <2>1, <2>2, <2>3, <2>4 DEF Genuine
<1>3. CASE WriteFails \/ socket_close
  BY <1>0, <1>3 DEF WriteFails, socket_close, Genuine, incoming
<1>4. CASE Alter
  <2>1. PICK i \in DOMAIN wire, x \in Noise :
          wire' = [wire EXCEPT ![i].symbol = x]
    BY <1>4, Zenon DEF Alter
  <2>2. UNCHANGED <<sent, out, buffer>>
    BY <1>4 DEF Alter, outgoing, incoming
  <2>3. /\ DOMAIN wire' = DOMAIN wire
        /\ wire'[i] = [wire[i] EXCEPT !.symbol = x]
        /\ \A j \in DOMAIN wire \ {i} : wire'[j] = wire[j]
    BY <2>1
  <2>4. wire[i] \in Item /\ x \in Symbol
    BY StreamConstants DEF StreamType
  <2>5. wire'[i].symbol = x /\ wire'[i].frame = wire[i].frame
    BY <2>3, <2>4 DEF Item
  <2>6. ASSUME NEW j \in DOMAIN wire PROVE Own(wire'[j], sent)
    <3>1. Own(wire[j], sent)
      BY DEF Genuine, AllOwn
    <3>2. CASE j = i
      BY <2>3, <2>4, <2>5, <3>1, <3>2, Zenon DEF Own
    <3>3. QED
      BY <2>3, <3>1, <3>2
  <2>7. QED
    BY <2>2, <2>3, <2>6 DEF Genuine, AllOwn
<1>5. CASE read_exact
  <2>1. PICK k \in 1..(Wanted - Len(buffer)) :
          /\ k <= Len(wire)
          /\ buffer' = buffer \o SubSeq(wire, 1, k)
          /\ wire' = SubSeq(wire, k + 1, Len(wire))
    BY <1>5 DEF read_exact
  <2>2. sent' = sent /\ out' = out
    BY <1>5 DEF read_exact, outgoing
  <2>3. k \in 1..Len(wire)
    BY <2>1 DEF StreamType
  <2>4. /\ SubSeq(wire, 1, k) \in Seq(Item) /\ AllOwn(SubSeq(wire, 1, k), sent)
        /\ AllOwn(SubSeq(wire, k + 1, Len(wire)), sent)
    BY <2>1, <2>3, OwnParts DEF Genuine, StreamType
  <2>5. AllOwn(buffer \o SubSeq(wire, 1, k), sent)
    BY <2>4, OwnParts, Zenon DEF Genuine, StreamType
  <2>6. QED
    BY <2>1, <2>2, <2>4, <2>5 DEF Genuine
<1>6. CASE Deliver \/ RefuseHeader \/ RefuseChecksum \/ ConnectionClosed
  BY <1>0, <1>6 DEF Deliver, RefuseHeader, RefuseChecksum, ConnectionClosed,
                    Fails, Genuine, outgoing
<1>7. CASE UNCHANGED streamVars
  BY <1>7 DEF streamVars, outgoing, incoming, Genuine
<1>8. QED
  BY <1>1, <1>2, <1>3, <1>4, <1>5, <1>6, <1>7 DEF StreamNext, recv_frame

\* recv_frame never returns a frame that send_frame was not given, with any
\* number of altered symbols: what it returns is the frame whose checksum it
\* has read.
ReturnsWhatWasSent ==
  [][delivered' # delivered =>
       /\ last' \in 1..Len(sent)
       /\ delivered' = Append(delivered, sent[last'])]_streamVars

\* Frames are returned as they were sent: recv_frame checks the checksum over
\* the header and the payload before it returns a frame.
THEOREM ReturnTheorem == StreamSpec => ReturnsWhatWasSent
<1>1. StreamInit => StreamType /\ Genuine
  BY DEF StreamInit, StreamType, Genuine, AllOwn
<1>2. StreamType /\ Genuine /\ [StreamNext]_streamVars => StreamType' /\ Genuine'
  BY StreamTypeStep, GenuineStep
<1>3. StreamType /\ Genuine /\ [StreamNext]_streamVars =>
        [delivered' # delivered =>
           /\ last' \in 1..Len(sent)
           /\ delivered' = Append(delivered, sent[last'])]_streamVars
  <2> SUFFICES ASSUME StreamType, Genuine, [StreamNext]_streamVars,
                      delivered' # delivered
               PROVE  /\ last' \in 1..Len(sent)
                      /\ delivered' = Append(delivered, sent[last'])
    OBVIOUS
  <2>1. Deliver
    BY DEF StreamNext, recv_frame, send_frame, write_all, WriteFails,
           socket_close, Alter, read_exact, RefuseHeader, RefuseChecksum,
           ConnectionClosed, Fails, streamVars, incoming
  <2>2. QED
    BY <2>1, AcceptedIsSent DEF Deliver
<1>4. QED
  BY <1>1, <1>2, <1>3, PTL DEF StreamSpec, ReturnsWhatWasSent
=============================================================================
