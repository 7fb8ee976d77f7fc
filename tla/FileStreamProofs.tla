-------------------------- MODULE FileStreamProofs --------------------------
(***************************************************************************)
(* Proofs about FileStream, for files, chunks, digests and windows of any  *)
(* size, and any sender at the other end.                                  *)
(*                                                                         *)
(* FlowInv is the conservation of bytes: what the receiver has taken, what *)
(* is in the stream and what the sender still has to write are, one after  *)
(* the other, the header, the bytes the sender has read and the digest.    *)
(*                                                                         *)
(* The last part shows the stream of one file to be a FileDelivery.        *)
(***************************************************************************)
EXTENDS FileStream, SequenceTheorems, TLAPS

DigestBytes == {DigestByte(s, i) : s \in Seq(Byte), i \in 1..DIGEST_LENGTH}
LengthBytes == {LengthByte(n, i) : n \in 0..MAX_MESSAGE_LENGTH + 1, i \in 1..PREFIX_LENGTH}
MessageBytes == [request : {"this", "other"}, at : 1..HeaderLength]
Symbol == Byte \cup DigestBytes \cup LengthBytes \cup MessageBytes

\* Bytes of a file are not the digest of what was sent before them: the chance that
\* a content holds its own SHA-256 is the chance of a collision.
NoByteIsDigest ==
  \A b \in Byte, s \in Seq(Symbol), i \in 1..DIGEST_LENGTH : b # DigestByte(s, i)

-----------------------------------------------------------------------------
TypeInv ==
  /\ original \in Contents /\ source \in Contents
  /\ sread \in Seq(Byte) /\ claimed \in Seq(Byte)
  /\ sbuf \in Seq(Symbol) /\ wire \in Seq(Symbol)
  /\ rbuf \in Seq(Symbol) /\ rread \in Seq(Symbol)
  /\ pending \in Seq(Symbol) /\ disk \in Seq(Symbol)
  /\ edits \in 0..MaxEdits /\ rewritten \in BOOLEAN
  /\ foreign \in BOOLEAN /\ faulty \in BOOLEAN /\ diskError \in BOOLEAN
  /\ spc \in {"header", "reading", "writing", "digest", "foreign", "sent", "failed"}
  /\ rpc \in {"length", "message", "body", "flushing", "verified", "failed"}

\* The length that the receiver goes by.
HeadInv ==
  rpc = "message" =>
    Len(rbuf) >= PREFIX_LENGTH /\ rbuf[1].length \in 0..MAX_MESSAGE_LENGTH

\* The bytes from the receiver's buffer to the sender's, behind those it is done with.
Line(f) ==
  LET ahead == rbuf \o (wire \o sbuf)
  IN  IF rpc \in {"length", "message"} THEN ahead ELSE f \o (rread \o ahead)

\* f is the header, t the digest as far as the sender has come to it.
Flow(f, t) ==
  /\ Line(f) = f \o (sread \o t)
  /\ ~foreign => f = FileRequest
  /\ spc \in {"header", "reading", "writing", "foreign"} => t = << >>
  /\ spc \in {"digest", "sent"} => t = DigestOf(claimed)
  /\ spc # "sent" /\ t # << >> => sbuf # << >>
  /\ ~foreign /\ t # << >> => claimed = sread /\ Len(sread) = size

FlowInv ==
  rpc # "failed" => \E f \in ForeignFrames, t \in {<< >>, DigestOf(claimed)} : Flow(f, t)

\* What the sender holds at each position.
SendInv ==
  /\ spc = "header" => sread = << >>
  /\ spc \in {"reading", "foreign", "sent"} => sbuf = << >>
  /\ ~foreign => Len(sread) <= size /\ spc # "foreign"
  /\ spc = "digest" => sbuf # << >>
  /\ ~foreign /\ spc \in {"digest", "sent"} => claimed = sread /\ Len(sread) = size

\* What was received is on the disk or on its way there, unless a write failed.
ReceiveInv ==
  /\ rpc \in {"length", "message"} => rread = << >>
  /\ Len(rread) <= size
  /\ ~diskError => disk \o pending = rread
  /\ rpc = "verified" => pending = << >> /\ ~diskError
  /\ rpc \in {"flushing", "verified"} => Len(rread) = size

\* What the comparison has shown.
MatchInv ==
  rpc \in {"flushing", "verified"} =>
    /\ claimed = rread /\ spc = "sent"
    /\ ~foreign => claimed = sread

\* Where nobody wrote, the source is what it was, and so is what was read of it.
SourceInv ==
  ~foreign /\ ~rewritten =>
    /\ \A i \in 1..Smaller(Len(source), size) : source[i] = original[i]
    /\ Len(sread) <= size /\ \A i \in 1..Len(sread) : sread[i] = original[i]

\* Nothing grows beyond its buffer.
SendLimit == PREFIX_LENGTH + HeaderLength + CHUNK_SIZE + DIGEST_LENGTH
ReceiveLimit == PREFIX_LENGTH + MAX_MESSAGE_LENGTH + CHUNK_SIZE + DIGEST_LENGTH

SizeInv ==
  /\ Len(sbuf) <= SendLimit
  /\ Len(wire) <= Window
  /\ reading => Len(rbuf) <= wanted
  /\ Len(rbuf) <= ReceiveLimit
  /\ Len(pending) <= CHUNK_SIZE
  /\ Len(disk) + Len(pending) <= Len(rread)

\* A transfer that nobody disturbs.
CleanInv ==
  /\ diskError => faulty
  /\ edits = 0 => source = original
  /\ ~faulty /\ ~foreign /\ edits = 0 => spc # "failed" /\ rpc # "failed"

FInv ==
  /\ TypeInv /\ HeadInv /\ FlowInv /\ SendInv /\ ReceiveInv
  /\ SourceInv /\ SizeInv /\ CleanInv
-----------------------------------------------------------------------------
(* Sequences.                                                              *)

LEMMA Parts ==
  ASSUME NEW S, NEW s \in Seq(S), NEW n \in 0..Len(s)
  PROVE  /\ Take(s, n) \in Seq(S) /\ Len(Take(s, n)) = n
         /\ Drop(s, n) \in Seq(S) /\ Len(Drop(s, n)) = Len(s) - n
         /\ \A i \in 1..n : Take(s, n)[i] = s[i]
         /\ \A i \in 1..(Len(s) - n) : Drop(s, n)[i] = s[n + i]
         /\ Take(s, n) \o Drop(s, n) = s
<1>1. Len(s) \in Nat /\ \A i \in 1..Len(s) : s[i] \in S
  BY LenProperties, ElementOfSeq
<1>2. \A i \in 1..n : s[i] \in S
  BY <1>1
<1>3. /\ Take(s, n) \in Seq(S) /\ Len(Take(s, n)) = n
      /\ \A i \in 1..n : Take(s, n)[i] = s[i]
  BY <1>1, <1>2, SubSeqProperties DEF Take
<1>4. \A i \in (n + 1)..Len(s) : s[i] \in S
  BY <1>1
<1>5. /\ Drop(s, n) \in Seq(S)
      /\ Len(Drop(s, n)) = IF n + 1 <= Len(s) THEN Len(s) - (n + 1) + 1 ELSE 0
      /\ \A i \in 1..(Len(s) - (n + 1) + 1) : Drop(s, n)[i] = s[(n + 1) + i - 1]
  BY <1>1, <1>4, SubSeqProperties DEF Drop
<1>6. Len(Drop(s, n)) = Len(s) - n
  BY <1>1, <1>5
<1>7. \A i \in 1..(Len(s) - n) : Drop(s, n)[i] = s[n + i]
  BY <1>1, <1>5
<1>8. Take(s, n) \o Drop(s, n) = s
  <2>1. Take(s, n) \o Drop(s, n) = SubSeq(s, 1, Len(s))
    <3>1. 1 \in 1..Len(s) + 1 /\ n \in (1 - 1)..Len(s) /\ Len(s) \in n..Len(s)
      BY <1>1
    <3>2. SubSeq(s, 1, n) \o SubSeq(s, n + 1, Len(s)) = SubSeq(s, 1, Len(s))
      BY <3>1, ConcatAdjacentSubSeq
    <3> QED BY <3>2 DEF Take, Drop
  <2> QED BY <2>1, SubSeqFull
<1> QED BY <1>3, <1>5, <1>6, <1>7, <1>8

LEMMA Joined ==
  ASSUME NEW S, NEW a \in Seq(S), NEW b \in Seq(S)
  PROVE  /\ a \o b \in Seq(S) /\ Len(a \o b) = Len(a) + Len(b)
         /\ \A i \in 1..Len(a) : (a \o b)[i] = a[i]
         /\ \A i \in 1..Len(b) : (a \o b)[Len(a) + i] = b[i]
<1>1. Len(a) \in Nat /\ Len(b) \in Nat
  BY LenProperties
<1>2. \A i \in 1..Len(a) + Len(b) :
        (a \o b)[i] = IF i <= Len(a) THEN a[i] ELSE b[i - Len(a)]
  BY ConcatProperties
<1>3. \A i \in 1..Len(a) : (a \o b)[i] = a[i]
  BY <1>1, <1>2
<1>4. ASSUME NEW i \in 1..Len(b) PROVE (a \o b)[Len(a) + i] = b[i]
  <2>1. Len(a) + i \in 1..Len(a) + Len(b) /\ ~(Len(a) + i <= Len(a))
        /\ (Len(a) + i) - Len(a) = i
    BY <1>1
  <2> QED BY <1>2, <2>1
<1> QED BY <1>3, <1>4, ConcatProperties

\* A piece goes from the front of one buffer to the end of the one before it.
LEMMA Shift ==
  ASSUME NEW S, NEW a \in Seq(S), NEW b \in Seq(S), NEW n \in 0..Len(b)
  PROVE  (a \o Take(b, n)) \o Drop(b, n) = a \o b
<1> DEFINE front == Take(b, n)
           rest == Drop(b, n)
<1>1. front \in Seq(S) /\ rest \in Seq(S)
  BY Parts
<1>2. front \o rest = b
  BY Parts
<1> HIDE DEF front, rest
<1>3. (a \o front) \o rest = a \o (front \o rest)
  BY <1>1, ConcatAssociative
<1>4. (a \o front) \o rest = a \o b
  BY <1>2, <1>3
<1> QED BY <1>4 DEF front, rest

LEMMA SamePrefix ==
  ASSUME NEW S, NEW a \in Seq(S), NEW b \in Seq(S), NEW c \in Seq(S), NEW d \in Seq(S),
         a \o b = c \o d, Len(a) = Len(c)
  PROVE  a = c /\ b = d
<1>1. \A i \in 1..Len(a) : a[i] = c[i]
  BY Joined
<1>2. a = c
  BY <1>1, SeqEqual
<1>3. b = d
  <2>1. a \o b = a \o d
    BY <1>2
  <2>2. \A s, t, v \in Seq(S) : s \o t = s \o v => t = v
    BY ConcatSimplifications
  <2> QED BY <2>1, <2>2
<1> QED BY <1>2, <1>3

LEMMA Bracket ==
  ASSUME NEW S, NEW a \in Seq(S), NEW b \in Seq(S), NEW c \in Seq(S), NEW d \in Seq(S)
  PROVE  a \o (b \o (c \o d)) = (a \o (b \o c)) \o d
<1>1. b \o c \in Seq(S)
  BY Joined
<1>2. b \o (c \o d) = (b \o c) \o d
  BY ConcatAssociative
<1>3. a \o ((b \o c) \o d) = (a \o (b \o c)) \o d
  BY <1>1, ConcatAssociative
<1> QED BY <1>2, <1>3

-----------------------------------------------------------------------------
(* What is on the stream.                                                  *)

LEMMA Listed ==
  ASSUME NEW S, NEW n \in Nat, NEW e \in [1..n -> S]
  PROVE  e \in Seq(S) /\ Len(e) = n
  BY SeqDef

LEMMA ContentTyped ==
  ASSUME NEW c \in Contents
  PROVE  c \in Seq(Byte) /\ c \in Seq(Symbol) /\ Len(c) \in 0..MaxLength
<1>1. PICK n \in 0..MaxLength : c \in [1..n -> Byte]
  BY DEF Contents
<1>2. n \in Nat
  BY SizesAssumption
<1>3. c \in Seq(Byte) /\ Len(c) = n
  BY <1>1, <1>2, Listed
<1>4. c \in Seq(Symbol)
  BY <1>3, SeqMonotonic DEF Symbol
<1> QED BY <1>3, <1>4

LEMMA BytesAreSymbols ==
  ASSUME NEW s \in Seq(Byte)
  PROVE  s \in Seq(Symbol)
  BY SeqMonotonic DEF Symbol

LEMMA DigestTyped ==
  ASSUME NEW s
  PROVE  /\ Len(DigestOf(s)) = DIGEST_LENGTH
         /\ \A i \in 1..DIGEST_LENGTH : DigestOf(s)[i] = DigestByte(s, i)
         /\ s \in Seq(Byte) => DigestOf(s) \in Seq(Symbol)
         /\ DigestOf(s) # << >>
<1>1. DIGEST_LENGTH \in Nat /\ DIGEST_LENGTH >= 1
  BY SizesAssumption
<1>2. DigestOf(s) \in [1..DIGEST_LENGTH -> {DigestByte(s, i) : i \in 1..DIGEST_LENGTH}]
  BY DEF DigestOf
<1>3. Len(DigestOf(s)) = DIGEST_LENGTH
  BY <1>1, <1>2, Listed
<1>4. \A i \in 1..DIGEST_LENGTH : DigestOf(s)[i] = DigestByte(s, i)
  BY DEF DigestOf
<1>5. ASSUME s \in Seq(Byte) PROVE DigestOf(s) \in Seq(Symbol)
  <2>1. DigestOf(s) \in [1..DIGEST_LENGTH -> Symbol]
    BY <1>5 DEF DigestOf, DigestBytes, Symbol
  <2> QED BY <1>1, <2>1, Listed
<1>6. DigestOf(s) # << >>
  BY <1>1, <1>3, EmptySeq
<1> QED BY <1>3, <1>4, <1>5, <1>6

LEMMA FrameTyped ==
  ASSUME NEW f \in ForeignFrames
  PROVE  /\ f \in Seq(Symbol)
         /\ Len(f) = PREFIX_LENGTH + HeaderLength
         /\ f[1].length \in 0..MAX_MESSAGE_LENGTH + 1
<1>1. PICK n \in 0..MAX_MESSAGE_LENGTH + 1, file \in {"this", "other"} : f = Frame(n, file)
  BY DEF ForeignFrames
<1> DEFINE p == [i \in 1..PREFIX_LENGTH |-> LengthByte(n, i)]
<1>2. PREFIX_LENGTH \in Nat /\ PREFIX_LENGTH >= 1 /\ HeaderLength \in Nat
  BY SizesAssumption
<1>3. p \in [1..PREFIX_LENGTH -> Symbol]
  BY DEF Symbol, LengthBytes
<1>4. p \in Seq(Symbol) /\ Len(p) = PREFIX_LENGTH
  BY <1>2, <1>3, Listed
<1>5. Message(file) \in [1..HeaderLength -> Symbol]
  <2>1. \A i \in 1..HeaderLength : [request |-> file, at |-> i] \in MessageBytes
    BY DEF MessageBytes
  <2> QED BY <2>1 DEF Message, Symbol
<1>6. Message(file) \in Seq(Symbol) /\ Len(Message(file)) = HeaderLength
  BY <1>2, <1>5, Listed
<1>7. f = p \o Message(file)
  BY <1>1 DEF Frame
<1>8. f \in Seq(Symbol) /\ Len(f) = PREFIX_LENGTH + HeaderLength /\ f[1] = p[1]
  <2> HIDE DEF p
  <2>1. 1 \in 1..Len(p)
    BY <1>2, <1>4
  <2> QED BY <1>4, <1>6, <1>7, <2>1, Joined
<1>9. p[1].length = n
  BY <1>2 DEF LengthByte
<1> QED BY <1>8, <1>9

LEMMA RequestTyped ==
  /\ FileRequest \in ForeignFrames
  /\ FileRequest[1].length = HeaderLength
  /\ Drop(FileRequest, PREFIX_LENGTH) = Message("this")
<1> DEFINE p == [i \in 1..PREFIX_LENGTH |-> LengthByte(HeaderLength, i)]
<1>1. /\ PREFIX_LENGTH \in Nat /\ PREFIX_LENGTH >= 1 /\ HeaderLength \in Nat
      /\ HeaderLength \in 0..MAX_MESSAGE_LENGTH + 1
  BY SizesAssumption
<1>2. FileRequest \in ForeignFrames
  BY <1>1 DEF FileRequest, ForeignFrames
<1>3. p \in [1..PREFIX_LENGTH -> Symbol]
  BY <1>1 DEF Symbol, LengthBytes
<1>4. p \in Seq(Symbol) /\ Len(p) = PREFIX_LENGTH
  BY <1>1, <1>3, Listed
<1>5. Message("this") \in [1..HeaderLength -> Symbol]
  <2>1. \A i \in 1..HeaderLength : [request |-> "this", at |-> i] \in MessageBytes
    BY DEF MessageBytes
  <2> QED BY <2>1 DEF Message, Symbol
<1>6. Message("this") \in Seq(Symbol) /\ Len(Message("this")) = HeaderLength
  BY <1>1, <1>5, Listed
<1>7. FileRequest = p \o Message("this")
  BY DEF FileRequest, Frame
<1>8. /\ FileRequest \in Seq(Symbol)
      /\ Len(FileRequest) = PREFIX_LENGTH + HeaderLength /\ FileRequest[1] = p[1]
  BY <1>1, <1>4, <1>6, <1>7, Joined
<1>9. p[1].length = HeaderLength
  BY <1>1 DEF LengthByte
<1>10. PREFIX_LENGTH \in 0..Len(FileRequest)
  BY <1>1, <1>8
<1>11. /\ Take(FileRequest, PREFIX_LENGTH) \in Seq(Symbol)
       /\ Len(Take(FileRequest, PREFIX_LENGTH)) = PREFIX_LENGTH
       /\ Drop(FileRequest, PREFIX_LENGTH) \in Seq(Symbol)
       /\ Take(FileRequest, PREFIX_LENGTH) \o Drop(FileRequest, PREFIX_LENGTH) = FileRequest
  BY <1>8, <1>10, Parts
<1>12. Drop(FileRequest, PREFIX_LENGTH) = Message("this")
  <2> HIDE DEF p
  <2> QED BY <1>4, <1>6, <1>7, <1>11, SamePrefix
<1> QED BY <1>2, <1>8, <1>9, <1>12

-----------------------------------------------------------------------------
(* The steps, sorted by what they do to the line.                          *)

SenderQuits == SourceShrank \/ SourceGrew \/ SenderError \/ SenderStopped \/ ForeignQuits
ReceiverQuits == BadRequest \/ DiskErrorSeen \/ Mismatch \/ EndedEarly \/ Stalled

Step ==
  \/ \E n \in 1..CHUNK_SIZE : ReadChunk(n)
  \/ \E n \in 1..Window : WriteSome(n)
  \/ Digest \/ Written \/ SenderQuits
  \/ \E b \in Byte : ForeignByte(b)
  \/ \E s \in {sread, << >>, original} : ForeignDigest(s)
  \/ \E n \in 1..Window : ReadSome(n)
  \/ ReadLength \/ ReadRequest \/ Save \/ Compare \/ Flush \/ ReceiverQuits
  \/ DiskWrite
  \/ \E n \in 0..CHUNK_SIZE : DiskFull(n)
  \/ \E c \in Contents : Edit(c)
  \/ UNCHANGED vars

LEMMA Steps ==
  ASSUME [Next]_vars
  PROVE  Step
  BY DEF Next, Sender, Foreign, Receiver, Faults, Finished, Step, SenderQuits, ReceiverQuits

LEMMA SenderQuit ==
  ASSUME SenderQuits
  PROVE  SenderFails /\ spc \notin {"sent", "failed"}
  BY DEF SenderQuits, SourceShrank, SourceGrew, SenderError, SenderStopped, ForeignQuits

LEMMA ReceiverQuit ==
  ASSUME ReceiverQuits
  PROVE  ReceiverFails
  BY DEF ReceiverQuits, BadRequest, DiskErrorSeen, Mismatch, EndedEarly, Stalled

LEMMA SeqTyped ==
  ASSUME TypeInv
  PROVE  source \in Seq(Byte) /\ original \in Seq(Byte) /\ sread \in Seq(Symbol)
  BY ContentTyped, BytesAreSymbols DEF TypeInv

LEMMA SizeTyped ==
  ASSUME TypeInv
  PROVE  /\ size \in Nat /\ Len(source) \in Nat
         /\ Len(sread) \in Nat /\ Len(sbuf) \in Nat /\ Len(wire) \in Nat /\ Len(rbuf) \in Nat
         /\ Len(rread) \in Nat /\ Len(pending) \in Nat /\ Len(disk) \in Nat
         /\ CHUNK_SIZE \in Nat /\ CHUNK_SIZE > 0 /\ Window \in Nat
         /\ DIGEST_LENGTH \in Nat /\ DIGEST_LENGTH > 0
         /\ PREFIX_LENGTH \in Nat /\ PREFIX_LENGTH > 0 /\ HeaderLength \in Nat
         /\ MAX_MESSAGE_LENGTH \in Nat /\ HeaderLength <= MAX_MESSAGE_LENGTH
<1>1. Len(original) \in Nat /\ Len(source) \in Nat
  BY SeqTyped, LenProperties
<1>2. /\ Len(sread) \in Nat /\ Len(sbuf) \in Nat /\ Len(wire) \in Nat /\ Len(rbuf) \in Nat
      /\ Len(rread) \in Nat /\ Len(pending) \in Nat /\ Len(disk) \in Nat
  BY LenProperties DEF TypeInv
<1> QED BY <1>1, <1>2, SizesAssumption DEF size

LEMMA WantedTyped ==
  ASSUME TypeInv, HeadInv, reading
  PROVE  /\ wanted \in Nat
         /\ rpc = "length" => wanted = PREFIX_LENGTH
         /\ rpc = "message" => wanted = PREFIX_LENGTH + rbuf[1].length
         /\ rpc = "body" /\ Len(rread) < size =>
              wanted <= size - Len(rread) /\ wanted <= CHUNK_SIZE /\ wanted > 0
         /\ rpc = "body" /\ ~(Len(rread) < size) => wanted = DIGEST_LENGTH
<1>1. rpc \in {"length", "message", "body"}
  BY DEF reading
<1>2. CASE rpc = "length"
  BY <1>2, SizeTyped DEF wanted
<1>3. CASE rpc = "message"
  <2>1. wanted = PREFIX_LENGTH + rbuf[1].length
    BY <1>3 DEF wanted
  <2> DEFINE l == rbuf[1].length
  <2>2. l \in 0..MAX_MESSAGE_LENGTH
    BY <1>3 DEF HeadInv
  <2>3. wanted = PREFIX_LENGTH + l
    BY <2>1
  <2> HIDE DEF l
  <2>4. wanted \in Nat
    BY <2>2, <2>3, SizeTyped
  <2> QED BY <1>3, <2>3, <2>4 DEF l
<1>4. CASE rpc = "body"
  BY <1>4, SizeTyped DEF wanted, Smaller
<1> QED BY <1>1, <1>2, <1>3, <1>4

\* What of a file is not read.
LEMMA RestTyped ==
  ASSUME NEW S, NEW s \in Seq(S), NEW k \in Nat
  PROVE  /\ Drop(s, k) \in Seq(S)
         /\ Len(Drop(s, k)) = IF k < Len(s) THEN Len(s) - k ELSE 0
         /\ \A i \in 1..(Len(s) - k) : Drop(s, k)[i] = s[k + i]
<1>1. Len(s) \in Nat /\ \A i \in 1..Len(s) : s[i] \in S
  BY LenProperties, ElementOfSeq
<1>2. CASE k <= Len(s)
  <2>1. k \in 0..Len(s)
    BY <1>1, <1>2
  <2>2. /\ Drop(s, k) \in Seq(S) /\ Len(Drop(s, k)) = Len(s) - k
        /\ \A i \in 1..(Len(s) - k) : Drop(s, k)[i] = s[k + i]
    BY <2>1, Parts
  <2> QED BY <1>1, <1>2, <2>2
<1>3. CASE ~(k <= Len(s))
  <2>1. k + 1 \in Int /\ Len(s) \in Int /\ Len(s) < k + 1
    BY <1>1, <1>3
  <2>2. Drop(s, k) = << >>
    BY <2>1, SubSeqEmpty DEF Drop
  <2> QED BY <1>1, <1>3, <2>2, EmptySeq
<1> QED BY <1>2, <1>3

LEMMA SmallerIs ==
  ASSUME NEW a \in Int, NEW b \in Int
  PROVE  Smaller(a, b) \in Int /\ Smaller(a, b) <= a /\ Smaller(a, b) <= b
  BY DEF Smaller

\* A piece of the file.
LEMMA ChunkTyped ==
  ASSUME TypeInv, NEW n \in 1..CHUNK_SIZE, ReadChunk(n)
  PROVE  LET p == Take(unread, n)
         IN  /\ p \in Seq(Byte) /\ p \in Seq(Symbol) /\ Len(p) = n
             /\ Len(sread) + n <= size /\ Len(sread) + n <= Len(source)
             /\ \A i \in 1..n : p[i] = source[Len(sread) + i]
<1>1. n \in 1..Smaller(Smaller(size - Len(sread), CHUNK_SIZE), Len(unread))
  BY DEF ReadChunk, toRead
<1>2. /\ unread \in Seq(Byte)
      /\ Len(unread) = IF Len(sread) < Len(source) THEN Len(source) - Len(sread) ELSE 0
      /\ \A i \in 1..(Len(source) - Len(sread)) : unread[i] = source[Len(sread) + i]
  BY SizeTyped, SeqTyped, RestTyped DEF unread
<1>3. n \in Nat /\ n >= 1 /\ n <= Len(unread) /\ n <= size - Len(sread)
  <2> DEFINE rest == size - Len(sread)
             most == Smaller(rest, CHUNK_SIZE)
             len == Len(unread)
  <2>1. rest \in Int /\ CHUNK_SIZE \in Int /\ len \in Int
    BY <1>2, SizeTyped
  <2> HIDE DEF rest, len
  <2>2. most \in Int /\ most <= rest
    BY <2>1, SmallerIs
  <2> HIDE DEF most
  <2>3. Smaller(most, len) \in Int /\ Smaller(most, len) <= most /\ Smaller(most, len) <= len
    BY <2>1, <2>2, SmallerIs
  <2>4. n \in 1..Smaller(most, len)
    BY <1>1 DEF most, rest, len
  <2>5. n \in Nat /\ n >= 1 /\ n <= len /\ n <= rest
    BY <2>1, <2>2, <2>3, <2>4
  <2> QED BY <2>5 DEF rest, len
<1>4. n \in 0..Len(unread) /\ Len(unread) = Len(source) - Len(sread)
  BY <1>2, <1>3, SizeTyped
<1>5. \A i \in 1..n : unread[i] = source[Len(sread) + i]
  BY <1>2, <1>3, <1>4, SizeTyped
<1>6. /\ Take(unread, n) \in Seq(Byte) /\ Len(Take(unread, n)) = n
      /\ \A i \in 1..n : Take(unread, n)[i] = unread[i]
  BY <1>2, <1>4, Parts
<1> DEFINE p == Take(unread, n)
<1>7. p \in Seq(Byte) /\ Len(p) = n /\ \A i \in 1..n : p[i] = source[Len(sread) + i]
  BY <1>5, <1>6
<1> HIDE DEF p
<1>8. p \in Seq(Symbol)
  BY <1>7, BytesAreSymbols
<1>9. Len(sread) + n <= size /\ Len(sread) + n <= Len(source)
  BY <1>3, <1>4, SizeTyped
<1> QED BY <1>7, <1>8, <1>9 DEF p

LEMMA WriteTyped ==
  ASSUME TypeInv, NEW n \in 1..Window, WriteSome(n)
  PROVE  n \in 0..Len(sbuf) /\ Len(wire) + n <= Window
<1>1. n \in 1..Smaller(Len(sbuf), Window - Len(wire))
  BY DEF WriteSome
<1>2. Window - Len(wire) \in Int /\ Len(sbuf) \in Int /\ Window \in Nat /\ Len(wire) \in Nat
  BY SizeTyped
<1>3. /\ Smaller(Len(sbuf), Window - Len(wire)) \in Int
      /\ Smaller(Len(sbuf), Window - Len(wire)) <= Len(sbuf)
      /\ Smaller(Len(sbuf), Window - Len(wire)) <= Window - Len(wire)
  BY <1>2, SmallerIs
<1>4. n <= Len(sbuf) /\ n <= Window - Len(wire)
  BY <1>1, <1>3, <1>2
<1> QED BY <1>1, <1>2, <1>4

\* With the last byte of the digest, the sender is done.
LEMMA WriteLast ==
  ASSUME TypeInv, NEW n \in 1..Window, WriteSome(n), spc = "digest"
  PROVE  IF spc' = "sent" THEN sbuf' = << >> ELSE sbuf' # << >> /\ spc' = spc
<1>1. n \in 0..Len(sbuf) /\ sbuf' = Drop(sbuf, n)
  BY WriteTyped DEF WriteSome
<1>2. sbuf' \in Seq(Symbol) /\ Len(sbuf') = Len(sbuf) - n
  BY <1>1, Parts DEF TypeInv
<1>3. sbuf' = << >> <=> n = Len(sbuf)
  BY <1>1, <1>2, EmptySeq, SizeTyped
<1> QED BY <1>3 DEF WriteSome

LEMMA ReadTyped ==
  ASSUME TypeInv, HeadInv, NEW n \in 1..Window, ReadSome(n)
  PROVE  n \in 0..Len(wire) /\ Len(rbuf) + n <= wanted
<1>1. wanted \in Nat
  BY WantedTyped DEF ReadSome
<1> QED BY <1>1, SizeTyped DEF ReadSome, Smaller

LEMMA TypeStep ==
  ASSUME TypeInv, HeadInv, Step
  PROVE  TypeInv'
<1> USE DEF sourceVars, senderVars, receiverVars, fileVars
<1>1. CASE \E n \in 1..CHUNK_SIZE : ReadChunk(n)
  <2>1. PICK n \in 1..CHUNK_SIZE : ReadChunk(n)
    BY <1>1
  <2>2. Take(unread, n) \in Seq(Byte) /\ Take(unread, n) \in Seq(Symbol)
    BY <2>1, ChunkTyped
  <2>3. sread' \in Seq(Byte)
    BY <2>1, <2>2, Joined DEF ReadChunk, TypeInv
  <2> QED BY <2>1, <2>2, <2>3 DEF ReadChunk, TypeInv
<1>2. CASE \E n \in 1..Window : WriteSome(n)
  <2>1. PICK n \in 1..Window : WriteSome(n)
    BY <1>2
  <2>2. n \in 0..Len(sbuf)
    BY <2>1, WriteTyped
  <2>3. Take(sbuf, n) \in Seq(Symbol) /\ Drop(sbuf, n) \in Seq(Symbol)
    BY <2>2, Parts DEF TypeInv
  <2>4. wire' \in Seq(Symbol)
    BY <2>1, <2>3, Joined DEF WriteSome, TypeInv
  <2> QED BY <2>1, <2>3, <2>4 DEF WriteSome, TypeInv
<1>3. CASE Digest
  <2>1. DigestOf(sread) \in Seq(Symbol)
    BY DigestTyped DEF TypeInv
  <2> QED BY <1>3, <2>1 DEF Digest, TypeInv
<1>4. CASE Written
  BY <1>4 DEF Written, TypeInv
<1>5. CASE SenderQuits
  <2>1. SenderFails
    BY <1>5, SenderQuit
  <2>2. faulty' \in BOOLEAN
    BY <1>5 DEF TypeInv, SenderQuits, SourceShrank, SourceGrew, SenderError, SenderStopped,
       ForeignQuits
  <2> QED BY <2>1, <2>2 DEF SenderFails, TypeInv
<1>6. CASE \E b \in Byte : ForeignByte(b)
  <2>1. PICK b \in Byte : ForeignByte(b)
    BY <1>6
  <2>2. b \in Symbol
    BY DEF Symbol
  <2>3. sread' \in Seq(Byte) /\ wire' \in Seq(Symbol)
    BY <2>1, <2>2, AppendProperties DEF ForeignByte, TypeInv
  <2> QED BY <2>1, <2>3 DEF ForeignByte, TypeInv
<1>7. CASE \E s \in {sread, << >>, original} : ForeignDigest(s)
  <2>1. PICK s \in {sread, << >>, original} : ForeignDigest(s)
    BY <1>7
  <2>2. s \in Seq(Byte)
    BY SeqTyped, EmptySeq DEF TypeInv
  <2>3. DigestOf(s) \in Seq(Symbol)
    BY <2>2, DigestTyped
  <2> QED BY <2>1, <2>2, <2>3 DEF ForeignDigest, TypeInv
<1>8. CASE \E n \in 1..Window : ReadSome(n)
  <2>1. PICK n \in 1..Window : ReadSome(n)
    BY <1>8
  <2>2. n \in 0..Len(wire)
    BY <2>1, ReadTyped
  <2>3. Take(wire, n) \in Seq(Symbol) /\ Drop(wire, n) \in Seq(Symbol)
    BY <2>2, Parts DEF TypeInv
  <2>4. rbuf' \in Seq(Symbol)
    BY <2>1, <2>3, Joined DEF ReadSome, TypeInv
  <2> QED BY <2>1, <2>3, <2>4 DEF ReadSome, TypeInv
<1>9. CASE ReadLength \/ Compare \/ Flush \/ UNCHANGED vars
  BY <1>9 DEF ReadLength, Compare, Flush, vars, TypeInv
<1>10. CASE ReadRequest
  BY <1>10, EmptySeq DEF ReadRequest, TypeInv
<1>11. CASE Save
  <2>1. rread' \in Seq(Symbol)
    BY <1>11, Joined DEF Save, TypeInv
  <2> QED BY <1>11, <2>1, EmptySeq DEF Save, TypeInv
<1>12. CASE ReceiverQuits
  <2>1. ReceiverFails
    BY <1>12, ReceiverQuit
  <2>2. faulty' \in BOOLEAN
    BY <1>12 DEF TypeInv, ReceiverQuits, BadRequest, DiskErrorSeen, Mismatch, EndedEarly,
       Stalled
  <2> QED BY <2>1, <2>2, EmptySeq DEF ReceiverFails, TypeInv
<1>13. CASE DiskWrite
  <2>1. disk' \in Seq(Symbol)
    BY <1>13, Joined DEF DiskWrite, TypeInv
  <2> QED BY <1>13, <2>1, EmptySeq DEF DiskWrite, TypeInv
<1>14. CASE \E n \in 0..CHUNK_SIZE : DiskFull(n)
  <2>1. PICK n \in 0..CHUNK_SIZE : DiskFull(n)
    BY <1>14
  <2>2. n \in 0..Len(pending)
    BY <2>1, SizeTyped DEF DiskFull
  <2>3. Take(pending, n) \in Seq(Symbol)
    BY <2>2, Parts DEF TypeInv
  <2>4. disk' \in Seq(Symbol)
    BY <2>1, <2>3, Joined DEF DiskFull, TypeInv
  <2> QED BY <2>1, <2>4, EmptySeq DEF DiskFull, TypeInv
<1>15. CASE \E c \in Contents : Edit(c)
  <2>1. PICK c \in Contents : Edit(c)
    BY <1>15
  <2>2. edits' \in 0..MaxEdits
    BY <2>1, SizesAssumption DEF Edit, TypeInv
  <2>3. rewritten' \in BOOLEAN
    BY <2>1 DEF Edit, TypeInv
  <2> QED BY <2>1, <2>2, <2>3 DEF Edit, TypeInv
<1> QED BY <1>1, <1>2, <1>3, <1>4, <1>5, <1>6, <1>7, <1>8, <1>9, <1>10, <1>11, <1>12, <1>13,
           <1>14, <1>15 DEF Step

-----------------------------------------------------------------------------
(* The line.                                                               *)

LEMMA LineTyped ==
  ASSUME TypeInv
  PROVE  /\ wire \o sbuf \in Seq(Symbol)
         /\ rbuf \o (wire \o sbuf) \in Seq(Symbol)
<1>1. wire \o sbuf \in Seq(Symbol)
  BY Joined DEF TypeInv
<1> QED BY <1>1, Joined DEF TypeInv

LEMMA ClaimTyped ==
  ASSUME TypeInv, NEW t \in {<< >>, DigestOf(claimed)}
  PROVE  t \in Seq(Symbol)
  BY DigestTyped, EmptySeq DEF TypeInv

\* The sender adds p to what is to be read.
LEMMA Grown ==
  ASSUME TypeInv, NEW f \in Seq(Symbol), NEW p \in Seq(Symbol)
  PROVE  /\ UNCHANGED <<rpc, rread, rbuf>> /\ wire' \o sbuf' = (wire \o sbuf) \o p
         /\ Line(f) = f \o (sread \o << >>)
         => Line(f)' = f \o (sread \o p)
<1> DEFINE w == wire \o sbuf
           ahead == rbuf \o w
<1>1. w \in Seq(Symbol) /\ rbuf \in Seq(Symbol)
  BY LineTyped DEF TypeInv
<1>2. ahead \in Seq(Symbol) /\ rread \in Seq(Symbol)
  BY LineTyped DEF TypeInv
<1>3. sread \in Seq(Symbol) /\ << >> \in Seq(Symbol)
  BY SeqTyped, EmptySeq
<1>4. Line(f) = IF rpc \in {"length", "message"} THEN ahead ELSE f \o (rread \o ahead)
  BY DEF Line
<1>5. Line(f)' = IF rpc' \in {"length", "message"} THEN ahead' ELSE f \o (rread' \o ahead')
  BY DEF Line
<1>6. ahead' = rbuf' \o (wire' \o sbuf')
  OBVIOUS
<1> HIDE DEF w
<1>7. rbuf \o (w \o p) = (rbuf \o w) \o p
  BY <1>1, ConcatAssociative
<1> HIDE DEF ahead
<1>8. f \o (rread \o (ahead \o p)) = (f \o (rread \o ahead)) \o p
  <2> DEFINE q == rread \o ahead
  <2>1. q \in Seq(Symbol)
    BY <1>2, Joined
  <2>2. rread \o (ahead \o p) = q \o p
    BY <1>2, ConcatAssociative
  <2> HIDE DEF q
  <2>3. f \o (q \o p) = (f \o q) \o p
    BY <2>1, ConcatAssociative
  <2>4. f \o (rread \o (ahead \o p)) = (f \o q) \o p
    BY <2>2, <2>3
  <2> QED BY <2>4 DEF q
<1>9. f \o (sread \o (<< >> \o p)) = (f \o (sread \o << >>)) \o p
  BY <1>3, Bracket
<1>10. << >> \o p = p
  BY ConcatEmptySeq
<1>11. ASSUME UNCHANGED <<rpc, rread, rbuf>>, wire' \o sbuf' = (wire \o sbuf) \o p
       PROVE  Line(f)' = Line(f) \o p
  <2>1. ahead' = ahead \o p
    BY <1>6, <1>7, <1>11 DEF ahead, w
  <2>2. CASE rpc \in {"length", "message"}
    BY <1>4, <1>5, <1>11, <2>1, <2>2
  <2>3. CASE rpc \notin {"length", "message"}
    BY <1>4, <1>5, <1>8, <1>11, <2>1, <2>3
  <2> QED BY <2>2, <2>3
<1> QED BY <1>9, <1>10, <1>11

\* Bytes change hands, or nothing does.
LEMMA SameLine ==
  ASSUME NEW f \in ForeignFrames, NEW t \in {<< >>, DigestOf(claimed)}, Flow(f, t),
         UNCHANGED <<sread, claimed, foreign, original>>, Line(f)' = Line(f),
         \/ UNCHANGED spc
         \/ spc' = "failed" /\ spc # "sent"
         \/ t = << >> /\ spc' \in {"reading", "foreign"}
         \/ spc = "digest" /\ spc' = "sent",
         UNCHANGED sbuf \/ t = << >> \/ spc' = "sent" \/ sbuf' # << >>
  PROVE  FlowInv'
<1>1. Line(f)' = f \o (sread' \o t)
  BY DEF Flow
<1>2. ~foreign' => f = FileRequest
  BY DEF Flow
<1>3. spc' \in {"header", "reading", "writing", "foreign"} => t = << >>
  BY DEF Flow
<1>4. spc' \in {"digest", "sent"} => t = DigestOf(claimed')
  BY DEF Flow
<1>5. ~foreign' /\ t # << >> => claimed' = sread' /\ Len(sread') = size'
  BY DEF Flow, size
<1>6. spc' # "sent" /\ t # << >> => sbuf' # << >>
  BY DEF Flow
<1>7. Flow(f, t)'
  BY <1>1, <1>2, <1>3, <1>4, <1>5, <1>6 DEF Flow
<1>8. t \in {<< >>, DigestOf(claimed)'}
  BY DEF DigestOf
<1> QED BY <1>7, <1>8 DEF FlowInv

\* A request that was read is the header, to the last byte.
LEMMA HeaderRead ==
  ASSUME TypeInv, HeadInv, ReadRequest,
         NEW f \in ForeignFrames, NEW t \in {<< >>, DigestOf(claimed)}, Flow(f, t)
  PROVE  rbuf = f /\ wire \o sbuf = sread \o t
<1>1. rpc = "message" /\ Drop(rbuf, PREFIX_LENGTH) = Message("this")
  BY DEF ReadRequest, messageRead, messageIsRequest
<1>2. FileRequest \in Seq(Symbol) /\ Len(FileRequest) = PREFIX_LENGTH + HeaderLength
  BY RequestTyped, FrameTyped
<1>3. Len(Message("this")) = HeaderLength
  <2>1. /\ PREFIX_LENGTH \in Nat /\ HeaderLength \in Nat
        /\ PREFIX_LENGTH \in 0..Len(FileRequest)
    BY <1>2, SizesAssumption
  <2>2. Len(Drop(FileRequest, PREFIX_LENGTH)) = Len(FileRequest) - PREFIX_LENGTH
    BY <1>2, <2>1, Parts
  <2> QED BY <1>2, <2>1, <2>2, RequestTyped
<1>4. Len(Drop(rbuf, PREFIX_LENGTH)) = Len(rbuf) - PREFIX_LENGTH
  <2>1. PREFIX_LENGTH \in 0..Len(rbuf) /\ rbuf \in Seq(Symbol)
    BY <1>1, SizeTyped DEF TypeInv, HeadInv
  <2> QED BY <2>1, Parts
<1>5. Len(rbuf) = Len(f)
  BY <1>1, <1>3, <1>4, SizeTyped, FrameTyped
<1>6. /\ f \in Seq(Symbol) /\ sread \o t \in Seq(Symbol)
      /\ rbuf \in Seq(Symbol) /\ wire \o sbuf \in Seq(Symbol)
  BY FrameTyped, ClaimTyped, SeqTyped, LineTyped, Joined DEF TypeInv
<1>7. rbuf \o (wire \o sbuf) = f \o (sread \o t)
  BY <1>1 DEF Flow, Line
<1> QED BY <1>5, <1>6, <1>7, SamePrefix

LEMMA FlowStep ==
  ASSUME TypeInv, HeadInv, FlowInv, SendInv, ReceiveInv, Step
  PROVE  FlowInv'
<1> SUFFICES ASSUME rpc' # "failed"
             PROVE  FlowInv'
  BY DEF FlowInv
<1> USE DEF sourceVars, senderVars, receiverVars, fileVars
<1>1. CASE ReceiverQuits
  BY <1>1, ReceiverQuit DEF ReceiverFails
<1>2. CASE rpc = "failed"
  <2>1. rpc' = "failed"
    BY <1>2 DEF Step, ReadChunk, WriteSome, Digest, Written, SenderQuits, SourceShrank,
       SourceGrew, SenderError, SenderStopped, ForeignQuits, SenderFails, ForeignByte,
       ForeignDigest, ReadSome, reading, ReadLength, lengthRead, ReadRequest, messageRead,
       Save, chunkRead, Compare, digestRead, Flush, ReceiverQuits, BadRequest,
       DiskErrorSeen, Mismatch, EndedEarly, Stalled, waiting, ReceiverFails, DiskWrite,
       DiskFull, Edit, vars
  <2> QED BY <2>1
<1> SUFFICES ASSUME rpc # "failed", ~ReceiverQuits
             PROVE  FlowInv'
  BY <1>1, <1>2
<1>3. PICK f \in ForeignFrames, t \in {<< >>, DigestOf(claimed)} : Flow(f, t)
  BY DEF FlowInv
<1>4. f \in Seq(Symbol) /\ t \in Seq(Symbol)
  BY FrameTyped, ClaimTyped
<1>5. CASE \E n \in 1..CHUNK_SIZE : ReadChunk(n)
  <2>1. PICK n \in 1..CHUNK_SIZE : ReadChunk(n)
    BY <1>5
  <2> DEFINE p == Take(unread, n)
  <2>2. p \in Seq(Symbol)
    BY <2>1, ChunkTyped
  <2>3. /\ sread' = sread \o p /\ sbuf' = p /\ spc' = "writing" /\ spc = "reading"
        /\ UNCHANGED <<rpc, rread, rbuf, wire, claimed, foreign, original>>
    BY <2>1 DEF ReadChunk
  <2> HIDE DEF p
  <2>4. sbuf = << >> /\ t = << >>
    BY <1>3, <2>3 DEF SendInv, Flow
  <2>5. wire' \o sbuf' = (wire \o sbuf) \o p
    BY <2>3, <2>4, ConcatEmptySeq DEF TypeInv
  <2>6. Line(f)' = f \o (sread \o p)
    BY <1>3, <1>4, <2>2, <2>3, <2>4, <2>5, Grown DEF Flow
  <2>7. sread \o p \in Seq(Symbol)
    BY <2>2, SeqTyped, Joined
  <2>8. (sread \o p) \o << >> = sread \o p
    BY <2>7, ConcatEmptySeq
  <2>9. Flow(f, << >>)'
    BY <1>3, <2>3, <2>6, <2>8 DEF Flow
  <2> QED BY <2>9 DEF FlowInv
<1>6. CASE \E n \in 1..Window : WriteSome(n)
  <2>1. PICK n \in 1..Window : WriteSome(n)
    BY <1>6
  <2>2. (wire \o Take(sbuf, n)) \o Drop(sbuf, n) = wire \o sbuf
    BY <2>1, WriteTyped, Shift DEF TypeInv
  <2>3. wire' \o sbuf' = wire \o sbuf
    BY <2>1, <2>2 DEF WriteSome
  <2>4. Line(f)' = Line(f)
    BY <2>1, <2>3 DEF WriteSome, Line
  <2>5. t = << >> \/ spc' = "sent" \/ sbuf' # << >>
    BY <1>3, <2>1, WriteLast DEF Flow, WriteSome
  <2> QED BY <1>3, <2>1, <2>4, <2>5, SameLine DEF WriteSome
<1>7. ASSUME NEW s \in Seq(Byte), sbuf' = DigestOf(s), claimed' = s, spc' = "digest",
             spc \in {"reading", "foreign"},
             ~foreign => s = sread /\ Len(sread) = size,
             UNCHANGED <<rpc, rread, rbuf, wire, sread, foreign, original>>
      PROVE  FlowInv'
  <2> DEFINE p == DigestOf(s)
  <2>1. p \in Seq(Symbol)
    BY <1>7, DigestTyped
  <2>2. p = DigestOf(claimed)'
    BY <1>7 DEF DigestOf
  <2>3. sbuf' = p
    BY <1>7
  <2> HIDE DEF p
  <2>4. sbuf = << >> /\ t = << >>
    BY <1>3, <1>7 DEF SendInv, Flow
  <2>5. wire' \o sbuf' = (wire \o sbuf) \o p
    BY <1>7, <2>3, <2>4, ConcatEmptySeq DEF TypeInv
  <2>6. Line(f)' = f \o (sread \o p)
    BY <1>3, <1>4, <1>7, <2>1, <2>4, <2>5, Grown DEF Flow
  <2>7. p # << >>
    BY DigestTyped DEF p
  <2>8. Flow(f, p)'
    BY <1>3, <1>7, <2>2, <2>3, <2>6, <2>7 DEF Flow, size, DigestOf
  <2> QED BY <2>2, <2>8 DEF FlowInv
<1>8. CASE Digest
  <2>1. sread \in Seq(Byte) /\ Len(sread) = size
    BY <1>8, SizeTyped DEF Digest, toRead, TypeInv
  <2> QED BY <1>7, <1>8, <2>1 DEF Digest
<1>9. CASE \E s \in {sread, << >>, original} : ForeignDigest(s)
  <2>1. PICK s \in {sread, << >>, original} : ForeignDigest(s)
    BY <1>9
  <2>2. s \in Seq(Byte)
    BY SeqTyped, EmptySeq DEF TypeInv
  <2>3. foreign
    BY <2>1 DEF ForeignDigest, SendInv
  <2> QED BY <1>7, <2>1, <2>2, <2>3 DEF ForeignDigest
<1>10. CASE Written
  <2>1. Line(f)' = Line(f)
    BY <1>10 DEF Written, Line
  <2>2. t = << >> /\ spc' \in {"reading", "foreign"}
    BY <1>3, <1>10 DEF Written, Flow
  <2> QED BY <1>3, <1>10, <2>1, <2>2, SameLine DEF Written
<1>11. CASE SenderQuits
  <2>1. SenderFails /\ spc # "sent"
    BY <1>11, SenderQuit
  <2>2. Line(f)' = Line(f)
    BY <2>1 DEF SenderFails, Line
  <2> QED BY <1>3, <2>1, <2>2, SameLine DEF SenderFails
<1>12. CASE \E b \in Byte : ForeignByte(b)
  <2>1. PICK b \in Byte : ForeignByte(b)
    BY <1>12
  <2>2. <<b>> \in Seq(Symbol) /\ b \in Symbol
    BY DEF Symbol
  <2>3. sbuf = << >> /\ t = << >> /\ foreign
    BY <1>3, <2>1 DEF ForeignByte, SendInv, Flow
  <2>4. wire' = wire \o <<b>> /\ sread' = sread \o <<b>>
    BY <2>1, <2>2, SizeTyped, AppendIsConcat DEF ForeignByte, TypeInv
  <2> DEFINE p == <<b>>
  <2> HIDE DEF p
  <2>5. p \in Seq(Symbol) /\ wire' = wire \o p /\ sread' = sread \o p
    BY <2>2, <2>4 DEF p
  <2>6. wire \o p \in Seq(Symbol)
    BY <2>5, Joined DEF TypeInv
  <2>7. wire' \o sbuf' = (wire \o sbuf) \o p
    BY <2>1, <2>3, <2>5, <2>6, ConcatEmptySeq DEF ForeignByte, TypeInv
  <2>8. Line(f)' = f \o (sread \o p)
    BY <1>3, <1>4, <2>1, <2>3, <2>5, <2>7, Grown DEF Flow, ForeignByte
  <2>9. sread \o p \in Seq(Symbol)
    BY <2>5, SeqTyped, Joined
  <2>10. (sread \o p) \o << >> = sread \o p
    BY <2>9, ConcatEmptySeq
  <2>11. Flow(f, << >>)'
    BY <1>3, <2>1, <2>3, <2>5, <2>8, <2>10 DEF Flow, ForeignByte
  <2> QED BY <2>11 DEF FlowInv
<1>13. CASE \E n \in 1..Window : ReadSome(n)
  <2>1. PICK n \in 1..Window : ReadSome(n)
    BY <1>13
  <2> DEFINE front == Take(wire, n)
             rest == Drop(wire, n)
  <2>2. n \in 0..Len(wire)
    BY <2>1, ReadTyped
  <2>3. front \in Seq(Symbol) /\ rest \in Seq(Symbol)
    BY <2>2, Parts DEF TypeInv
  <2>4. (rbuf \o front) \o rest = rbuf \o wire
    BY <2>2, Shift DEF TypeInv
  <2>5. rbuf' = rbuf \o front /\ wire' = rest /\ UNCHANGED <<sbuf, rpc, rread>>
    BY <2>1 DEF ReadSome
  <2> HIDE DEF front, rest
  <2>6. rbuf \o front \in Seq(Symbol)
    BY <2>3, Joined DEF TypeInv
  <2>7. ((rbuf \o front) \o rest) \o sbuf = (rbuf \o front) \o (rest \o sbuf)
    <3>1. rest \in Seq(Symbol) /\ sbuf \in Seq(Symbol)
      BY <2>3 DEF TypeInv
    <3> QED BY <2>6, <3>1, ConcatAssociative
  <2>8. (rbuf \o wire) \o sbuf = rbuf \o (wire \o sbuf)
    <3>1. rbuf \in Seq(Symbol) /\ wire \in Seq(Symbol) /\ sbuf \in Seq(Symbol)
      BY DEF TypeInv
    <3> QED BY <3>1, ConcatAssociative
  <2>9. rbuf' \o (wire' \o sbuf') = rbuf \o (wire \o sbuf)
    BY <2>4, <2>5, <2>7, <2>8
  <2>10. Line(f)' = Line(f)
    BY <2>5, <2>9 DEF Line
  <2> QED BY <1>3, <2>1, <2>10, SameLine DEF ReadSome
<1>14. CASE ReadLength \/ Compare \/ Flush \/ UNCHANGED vars
  <2>1. Line(f)' = Line(f)
    BY <1>14 DEF ReadLength, lengthRead, Compare, digestRead, Flush, vars, Line
  <2>2. UNCHANGED <<sread, sbuf, claimed, foreign, original, spc>>
    BY <1>14 DEF ReadLength, Compare, Flush, vars
  <2> QED BY <1>3, <2>1, <2>2, SameLine
<1>15. CASE ReadRequest
  <2>1. rpc = "message" /\ rpc' = "body" /\ rbuf' = << >> /\ rread' = << >> /\ rread = << >>
    BY <1>15 DEF ReadRequest, messageRead, ReceiveInv
  <2>2. Line(f) = rbuf \o (wire \o sbuf)
    BY <2>1 DEF Line
  <2>3. Line(f)' = f \o (<< >> \o (<< >> \o (wire \o sbuf)))
    BY <1>15, <2>1 DEF ReadRequest, Line
  <2>4. Line(f)' = f \o (wire \o sbuf)
    BY <2>3, LineTyped, ConcatEmptySeq
  <2>5. rbuf = f
    BY <1>3, <1>15, HeaderRead
  <2>6. Line(f)' = Line(f)
    BY <2>2, <2>4, <2>5
  <2> QED BY <1>3, <1>15, <2>6, SameLine DEF ReadRequest
<1>16. CASE Save
  <2>1. /\ rpc = "body" /\ rpc' = "body" /\ rbuf' = << >> /\ rread' = rread \o rbuf
        /\ UNCHANGED <<wire, sbuf>>
    BY <1>16 DEF Save, chunkRead
  <2>2. (rread \o rbuf) \o (wire \o sbuf) = rread \o (rbuf \o (wire \o sbuf))
    <3> DEFINE w == wire \o sbuf
    <3>1. rbuf \in Seq(Symbol) /\ rread \in Seq(Symbol) /\ w \in Seq(Symbol)
      BY LineTyped DEF TypeInv
    <3> HIDE DEF w
    <3>2. (rread \o rbuf) \o w = rread \o (rbuf \o w)
      BY <3>1, ConcatAssociative
    <3> QED BY <3>2 DEF w
  <2>3. rread' \o (rbuf' \o (wire' \o sbuf')) = rread \o (rbuf \o (wire \o sbuf))
    BY <2>1, <2>2, LineTyped, ConcatEmptySeq
  <2>4. Line(f)' = Line(f)
    BY <2>1, <2>3 DEF Line
  <2> QED BY <1>3, <1>16, <2>4, SameLine DEF Save
<1>17. CASE DiskWrite \/ (\E n \in 0..CHUNK_SIZE : DiskFull(n)) \/ \E c \in Contents : Edit(c)
  <2>1. Line(f)' = Line(f)
    BY <1>17 DEF DiskWrite, DiskFull, Edit, Line
  <2>2. UNCHANGED <<sread, sbuf, claimed, foreign, original, spc>>
    BY <1>17 DEF DiskWrite, DiskFull, Edit
  <2> QED BY <1>3, <2>1, <2>2, SameLine
<1> QED BY <1>5, <1>6, <1>8, <1>9, <1>10, <1>11, <1>12, <1>13, <1>14, <1>15, <1>16, <1>17
        DEF Step

-----------------------------------------------------------------------------
(* What the line tells the receiver.                                       *)

\* The first byte of the length is the first byte of the frame.
LEMMA FirstByte ==
  ASSUME TypeInv, FlowInv, rpc \in {"length", "message"}, Len(rbuf) >= PREFIX_LENGTH
  PROVE  /\ rbuf[1].length \in 0..MAX_MESSAGE_LENGTH + 1
         /\ ~foreign => rbuf[1].length = HeaderLength
<1>1. PICK f \in ForeignFrames, t \in {<< >>, DigestOf(claimed)} : Flow(f, t)
  BY DEF FlowInv
<1> DEFINE w == wire \o sbuf
           rest == sread \o t
<1>2. rbuf \o w = f \o rest
  BY <1>1 DEF Flow, Line
<1>3. rbuf \in Seq(Symbol) /\ w \in Seq(Symbol) /\ f \in Seq(Symbol) /\ rest \in Seq(Symbol)
  BY LineTyped, FrameTyped, ClaimTyped, SeqTyped, Joined DEF TypeInv
<1>4. 1 \in 1..Len(rbuf) /\ 1 \in 1..Len(f)
  <2>1. Len(f) = PREFIX_LENGTH + HeaderLength
    BY FrameTyped
  <2>2. /\ PREFIX_LENGTH \in Nat \ {0} /\ HeaderLength \in Nat
        /\ Len(rbuf) \in Nat /\ Len(rbuf) >= PREFIX_LENGTH
    BY SizeTyped
  <2> QED BY <2>1, <2>2
<1> HIDE DEF w, rest
<1>5. (rbuf \o w)[1] = rbuf[1] /\ (f \o rest)[1] = f[1]
  BY <1>3, <1>4, Joined
<1>6. rbuf[1] = f[1]
  BY <1>2, <1>5
<1>7. ~foreign => f = FileRequest
  BY <1>1 DEF Flow
<1> QED BY <1>6, <1>7, FrameTyped, RequestTyped

\* A whole message from a sender that is this program is the request.
LEMMA WholeRequest ==
  ASSUME TypeInv, FlowInv, ~foreign, messageRead, HeadInv
  PROVE  messageIsRequest
<1>1. PICK f \in ForeignFrames, t \in {<< >>, DigestOf(claimed)} : Flow(f, t)
  BY DEF FlowInv, messageRead
<1> DEFINE w == wire \o sbuf
           rest == sread \o t
<1>2. rbuf \o w = f \o rest
  BY <1>1 DEF Flow, Line, messageRead
<1>3. rbuf \in Seq(Symbol) /\ w \in Seq(Symbol) /\ f \in Seq(Symbol) /\ rest \in Seq(Symbol)
  BY LineTyped, FrameTyped, ClaimTyped, SeqTyped, Joined DEF TypeInv
<1>4. rpc = "message" /\ Len(rbuf) >= PREFIX_LENGTH
  BY DEF messageRead, HeadInv
<1>5. Len(rbuf) = PREFIX_LENGTH + HeaderLength
  <2>1. rbuf[1].length = HeaderLength
    BY <1>4, FirstByte
  <2>2. Len(rbuf) = wanted /\ reading
    BY DEF messageRead, reading
  <2> QED BY <1>4, <2>1, <2>2, WantedTyped
<1> HIDE DEF w, rest
<1>6. rbuf = f
  BY <1>2, <1>3, <1>5, FrameTyped, SamePrefix
<1>7. f = FileRequest
  BY <1>1 DEF Flow
<1> QED BY <1>6, <1>7, RequestTyped DEF messageIsRequest

\* In the body: behind what was received comes what was sent.
LEMMA BodyLine ==
  ASSUME TypeInv, FlowInv, rpc = "body"
  PROVE  \E t \in {<< >>, DigestOf(claimed)} :
           /\ rread \o (rbuf \o (wire \o sbuf)) = sread \o t
           /\ spc \in {"header", "reading", "writing", "foreign"} => t = << >>
           /\ spc \in {"digest", "sent"} => t = DigestOf(claimed)
           /\ spc # "sent" /\ t # << >> => sbuf # << >>
           /\ ~foreign /\ t # << >> => claimed = sread /\ Len(sread) = size
<1>1. PICK f \in ForeignFrames, t \in {<< >>, DigestOf(claimed)} : Flow(f, t)
  BY DEF FlowInv
<1> DEFINE ahead == rbuf \o (wire \o sbuf)
           got == rread \o ahead
           sent == sread \o t
<1>2. f \o got = f \o sent
  BY <1>1 DEF Flow, Line
<1>3. ahead \in Seq(Symbol)
  BY LineTyped
<1> HIDE DEF ahead
<1>4. got \in Seq(Symbol) /\ sent \in Seq(Symbol) /\ f \in Seq(Symbol)
  BY <1>3, FrameTyped, ClaimTyped, SeqTyped, Joined DEF TypeInv
<1> HIDE DEF got, sent
<1>5. got = sent
  BY <1>2, <1>4, SamePrefix
<1>6. rread \o (rbuf \o (wire \o sbuf)) = sread \o t
  BY <1>5 DEF got, sent, ahead
<1> QED BY <1>1, <1>6 DEF Flow

\* Where the digest of what was received stands, the digest that was sent stands.
LEMMA DigestMatches ==
  ASSUME NoByteIsDigest, TypeInv, FlowInv, ReceiveInv, Compare
  PROVE  /\ claimed = rread /\ spc = "sent"
         /\ ~foreign => claimed = sread
<1>1. rpc = "body" /\ rbuf = DigestOf(rread)
  BY DEF Compare, digestRead
<1>2. PICK t \in {<< >>, DigestOf(claimed)} :
        /\ rread \o (rbuf \o (wire \o sbuf)) = sread \o t
        /\ spc # "sent" /\ t # << >> => sbuf # << >>
        /\ ~foreign /\ t # << >> => claimed = sread
  BY <1>1, BodyLine
<1> DEFINE w == wire \o sbuf
           tail == rbuf \o w
           D == DIGEST_LENGTH
           k == Len(rread) + D
<1>3. D \in Nat /\ D >= 1 /\ Len(rread) \in Nat /\ Len(sread) \in Nat /\ Len(rbuf) = D
  BY <1>1, SizeTyped, DigestTyped
<1>4. w \in Seq(Symbol) /\ rbuf \in Seq(Symbol) /\ rread \in Seq(Symbol)
  BY LineTyped DEF TypeInv
<1>5. sread \in Seq(Symbol) /\ t \in Seq(Symbol)
  BY SeqTyped, ClaimTyped
<1>6. rread \o tail = sread \o t
  BY <1>2
<1> HIDE DEF w
<1>7. tail \in Seq(Symbol) /\ Len(tail) = D + Len(w) /\ tail[D] = rbuf[D]
  <2>1. D \in 1..Len(rbuf)
    BY <1>3
  <2>2. /\ rbuf \o w \in Seq(Symbol) /\ Len(rbuf \o w) = Len(rbuf) + Len(w)
        /\ (rbuf \o w)[D] = rbuf[D]
    BY <1>4, <2>1, Joined
  <2> QED BY <1>3, <2>2
<1> HIDE DEF tail
<1>8. Len(w) \in Nat /\ Len(t) \in Nat
  BY <1>4, <1>5, LenProperties
<1>9. D \in 1..Len(tail)
  BY <1>3, <1>7, <1>8
<1>10. (rread \o tail)[k] = tail[D] /\ Len(rread \o tail) = Len(rread) + Len(tail)
  <2>1. rread \in Seq(Symbol) /\ tail \in Seq(Symbol)
    BY <1>4, <1>7
  <2> HIDE DEF D
  <2> QED BY <1>9, <2>1, Joined
<1>11. Len(sread \o t) = Len(sread) + Len(t)
  BY <1>5, Joined
<1>12. k \in 1..Len(sread) + Len(t)
  BY <1>3, <1>6, <1>7, <1>8, <1>10, <1>11
<1>13. tail[D] = DigestByte(rread, D)
  BY <1>1, <1>3, <1>7, DigestTyped
<1>14. (sread \o t)[k] = DigestByte(rread, D)
  BY <1>6, <1>10, <1>13
<1> HIDE DEF k
<1>15. CASE k <= Len(sread)
  <2>1. k \in 1..Len(sread)
    BY <1>3, <1>12, <1>15
  <2>2. (sread \o t)[k] = sread[k]
    BY <1>5, <2>1, Joined
  <2>3. sread[k] \in Byte
    BY <2>1, ElementOfSeq DEF TypeInv
  <2>4. D \in 1..DIGEST_LENGTH
    BY <1>3
  <2> QED BY <1>4, <1>14, <2>2, <2>3, <2>4 DEF NoByteIsDigest
<1>16. CASE ~(k <= Len(sread))
  <2> DEFINE j == k - Len(sread)
  <2>1. j \in 1..Len(t) /\ Len(sread) + j = k
    BY <1>3, <1>8, <1>12, <1>16
  <2> HIDE DEF j
  <2>2. (sread \o t)[Len(sread) + j] = t[j]
    BY <1>5, <2>1, Joined
  <2>3. t # << >>
    BY <2>1, EmptySeq
  <2>4. t = DigestOf(claimed)
    BY <2>3
  <2>5. t[j] = DigestByte(claimed, j)
    BY <2>1, <2>4, DigestTyped
  <2>6. DigestByte(claimed, j) = DigestByte(rread, D)
    BY <1>14, <2>1, <2>2, <2>5
  <2>7. claimed = rread /\ j = D
    BY <2>6 DEF DigestByte
  <2>8. Len(t) = D
    BY <2>4, DigestTyped
  <2>9. Len(w) = 0
    <3>1. k = Len(sread) + D /\ Len(rread) + (D + Len(w)) = Len(sread) + D
      BY <1>6, <1>7, <1>10, <1>11, <2>1, <2>7, <2>8
    <3> QED BY <1>3, <1>8, <3>1 DEF k
  <2>10. sbuf = << >>
    <3>1. Len(wire \o sbuf) = Len(wire) + Len(sbuf)
      BY Joined DEF TypeInv
    <3>2. Len(sbuf) = 0
      BY <2>9, <3>1, SizeTyped DEF w
    <3> QED BY <3>2, EmptySeq DEF TypeInv
  <2> QED BY <1>2, <2>3, <2>7, <2>10
<1> QED BY <1>15, <1>16

-----------------------------------------------------------------------------
(* The other parts of the invariant, step by step.                         *)

LEMMA HeadStep ==
  ASSUME TypeInv, HeadInv, FlowInv, SizeInv, Step
  PROVE  HeadInv'
<1> USE DEF sourceVars, senderVars, receiverVars, fileVars
<1>1. CASE ReadLength
  <2>1. rpc = "length" /\ Len(rbuf) = PREFIX_LENGTH /\ UNCHANGED rbuf
    BY <1>1, WantedTyped DEF ReadLength, lengthRead, reading
  <2>2. rbuf[1].length \in 0..MAX_MESSAGE_LENGTH + 1
    BY <2>1, SizeTyped, FirstByte
  <2>3. rbuf[1].length <= MAX_MESSAGE_LENGTH
    BY <1>1 DEF ReadLength
  <2> DEFINE l == rbuf[1].length
  <2>4. l \in 0..MAX_MESSAGE_LENGTH + 1 /\ l <= MAX_MESSAGE_LENGTH
    BY <2>2, <2>3
  <2> HIDE DEF l
  <2>5. l \in 0..MAX_MESSAGE_LENGTH
    BY <2>4, SizeTyped
  <2>6. Len(rbuf) >= PREFIX_LENGTH
    BY <2>1, SizeTyped
  <2> QED BY <2>1, <2>5, <2>6 DEF HeadInv, l
<1>2. CASE \E n \in 1..Window : ReadSome(n)
  <2>1. PICK n \in 1..Window : ReadSome(n)
    BY <1>2
  <2> SUFFICES ASSUME rpc = "message"
               PROVE  HeadInv'
    BY <2>1 DEF ReadSome, HeadInv
  <2>2. n \in 0..Len(wire) /\ rbuf' = rbuf \o Take(wire, n) /\ UNCHANGED rpc
    BY <2>1, ReadTyped DEF ReadSome
  <2> DEFINE p == Take(wire, n)
  <2>3. p \in Seq(Symbol) /\ Len(p) \in Nat
    BY <2>2, Parts, LenProperties DEF TypeInv
  <2>4. rbuf' = rbuf \o p
    BY <2>2
  <2> HIDE DEF p
  <2>5. 1 \in 1..Len(rbuf) /\ Len(rbuf) >= PREFIX_LENGTH
    BY SizeTyped DEF HeadInv
  <2>6. rbuf'[1] = rbuf[1] /\ Len(rbuf') = Len(rbuf) + Len(p)
    BY <2>3, <2>4, <2>5, Joined DEF TypeInv
  <2>7. Len(rbuf') >= PREFIX_LENGTH
    BY <2>3, <2>5, <2>6, SizeTyped
  <2> QED BY <2>6, <2>7 DEF HeadInv
<1>3. CASE ReadRequest \/ Save \/ Compare \/ Flush
  BY <1>3 DEF ReadRequest, Save, chunkRead, Compare, Flush, HeadInv
<1>4. CASE ReceiverQuits
  BY <1>4, ReceiverQuit DEF ReceiverFails, HeadInv
<1>5. CASE UNCHANGED <<rpc, rbuf>>
  BY <1>5 DEF HeadInv
<1>6. SenderQuits => UNCHANGED <<rpc, rbuf>>
  BY SenderQuit DEF SenderFails
<1> QED BY <1>1, <1>2, <1>3, <1>4, <1>5, <1>6 DEF Step, ReadChunk, WriteSome, Digest, Written,
        ForeignByte, ForeignDigest, DiskWrite, DiskFull, Edit, vars

LEMMA SendStep ==
  ASSUME TypeInv, HeadInv, SendInv, Step
  PROVE  SendInv'
<1> USE DEF sourceVars, senderVars, receiverVars, fileVars
<1>1. CASE \E n \in 1..CHUNK_SIZE : ReadChunk(n)
  <2>1. PICK n \in 1..CHUNK_SIZE : ReadChunk(n)
    BY <1>1
  <2> DEFINE p == Take(unread, n)
  <2>2. p \in Seq(Symbol) /\ Len(p) = n /\ Len(sread) + n <= size
    BY <2>1, ChunkTyped
  <2>3. sread' = sread \o p /\ spc' = "writing" /\ UNCHANGED <<original, foreign>>
    BY <2>1 DEF ReadChunk
  <2> HIDE DEF p
  <2>4. Len(sread') = Len(sread) + n
    BY <2>2, <2>3, SeqTyped, Joined
  <2>5. Len(sread') <= size /\ UNCHANGED size
    BY <2>2, <2>3, <2>4 DEF size
  <2> QED BY <2>3, <2>5 DEF SendInv
<1>2. CASE \E n \in 1..Window : WriteSome(n)
  <2>1. PICK n \in 1..Window : WriteSome(n)
    BY <1>2
  <2>2. CASE spc = "digest"
    BY <2>1, <2>2, WriteLast DEF WriteSome, SendInv, size
  <2>3. CASE spc # "digest"
    BY <2>1, <2>3 DEF WriteSome, SendInv, size
  <2> QED BY <2>2, <2>3
<1>3. CASE Digest
  <2>1. Len(sread) = size
    BY <1>3, SizeTyped DEF Digest, toRead
  <2>2. sbuf' # << >>
    BY <1>3, DigestTyped DEF Digest
  <2> QED BY <1>3, <2>1, <2>2, SizeTyped DEF Digest, SendInv, size
<1>4. CASE Written
  BY <1>4 DEF Written, SendInv, size
<1>5. CASE SenderQuits
  BY <1>5, SenderQuit DEF SenderFails, SendInv, size
<1>6. CASE \/ \E b \in Byte : ForeignByte(b)
           \/ \E s \in {sread, << >>, original} : ForeignDigest(s)
  BY <1>6, DigestTyped DEF ForeignByte, ForeignDigest, SendInv
<1>7. CASE ReceiverQuits
  BY <1>7, ReceiverQuit DEF ReceiverFails, SendInv, size
<1>8. CASE UNCHANGED <<spc, sread, sbuf, claimed, foreign, original>>
  BY <1>8 DEF SendInv, size
<1> QED BY <1>1, <1>2, <1>3, <1>4, <1>5, <1>6, <1>7, <1>8 DEF Step, ReadSome, ReadLength,
        ReadRequest, Save, Compare, Flush, DiskWrite, DiskFull, Edit, vars

\* A whole chunk.
LEMMA ChunkRead ==
  ASSUME TypeInv, HeadInv, chunkRead
  PROVE  /\ rpc = "body"
         /\ Len(rbuf) <= size - Len(rread) /\ Len(rbuf) <= CHUNK_SIZE /\ Len(rbuf) > 0
         /\ Len(rread \o rbuf) = Len(rread) + Len(rbuf)
<1>1. rpc = "body" /\ Len(rread) < size /\ Len(rbuf) = wanted /\ reading
  BY DEF chunkRead, reading
<1>2. wanted <= size - Len(rread) /\ wanted <= CHUNK_SIZE /\ wanted > 0
  BY <1>1, WantedTyped
<1>3. Len(rread \o rbuf) = Len(rread) + Len(rbuf)
  BY Joined DEF TypeInv
<1> QED BY <1>1, <1>2, <1>3

LEMMA ReceiveStep ==
  ASSUME TypeInv, HeadInv, ReceiveInv, Step
  PROVE  ReceiveInv'
<1> USE DEF sourceVars, senderVars, receiverVars, fileVars
<1>1. CASE Save
  <2>1. /\ rpc = "body" /\ rpc' = "body" /\ pending = << >> /\ ~diskError /\ ~diskError'
        /\ pending' = rbuf /\ rread' = rread \o rbuf /\ UNCHANGED <<disk, original>>
    BY <1>1, ChunkRead DEF Save, chunkRead
  <2>2. Len(rread') <= size /\ UNCHANGED size
    BY <1>1, <2>1, ChunkRead, SizeTyped DEF Save, size
  <2>3. disk = rread
    BY <2>1, ConcatEmptySeq DEF ReceiveInv, TypeInv
  <2>4. disk' \o pending' = rread'
    BY <2>1, <2>3
  <2> QED BY <2>1, <2>2, <2>4 DEF ReceiveInv
<1>2. CASE DiskWrite
  <2>1. disk \o pending \in Seq(Symbol)
    BY Joined DEF TypeInv
  <2>2. disk' \o pending' = disk \o pending
    BY <1>2, <2>1, ConcatEmptySeq DEF DiskWrite
  <2> QED BY <1>2, <2>2 DEF DiskWrite, ReceiveInv, size
<1>3. CASE \E n \in 0..CHUNK_SIZE : DiskFull(n)
  BY <1>3 DEF DiskFull, ReceiveInv, size
<1>4. CASE Compare
  <2>1. Len(rread) = size
    BY <1>4, SizeTyped DEF Compare, digestRead, ReceiveInv
  <2> QED BY <1>4, <2>1 DEF Compare, ReceiveInv, size
<1>5. CASE ReadLength \/ ReadRequest \/ Flush
  <2>1. /\ UNCHANGED <<rread, disk, original>>
        /\ pending' = pending /\ (diskError' <=> diskError)
    BY <1>5 DEF ReadLength, ReadRequest, Flush
  <2>2. CASE ReadLength \/ ReadRequest
    BY <2>1, <2>2 DEF ReadLength, lengthRead, ReadRequest, ReceiveInv, size
  <2>3. CASE Flush
    BY <2>1, <2>3 DEF Flush, ReceiveInv, size
  <2> QED BY <1>5, <2>2, <2>3
<1>6. CASE ReceiverQuits
  BY <1>6, ReceiverQuit DEF ReceiverFails, ReceiveInv, size
<1>7. CASE UNCHANGED <<rpc, rread, pending, disk, diskError, original>>
  BY <1>7 DEF ReceiveInv, size
<1>8. SenderQuits => UNCHANGED <<rpc, rread, pending, disk, diskError, original>>
  BY SenderQuit DEF SenderFails
<1> QED BY <1>1, <1>2, <1>3, <1>4, <1>5, <1>6, <1>7, <1>8 DEF Step, ReadChunk, WriteSome,
        Digest, Written, ForeignByte, ForeignDigest, ReadSome, Edit, vars

LEMMA MatchStep ==
  ASSUME NoByteIsDigest, TypeInv, FlowInv, SendInv, ReceiveInv, MatchInv, Step
  PROVE  MatchInv'
<1> USE DEF sourceVars, senderVars, receiverVars, fileVars
<1>1. CASE Compare
  BY <1>1, DigestMatches DEF Compare, MatchInv
<1>2. CASE Flush
  BY <1>2 DEF Flush, MatchInv
<1>3. CASE Written \/ \E n \in 1..Window : WriteSome(n)
  BY <1>3 DEF Written, WriteSome, MatchInv
<1>4. CASE SenderQuits
  BY <1>4, SenderQuit DEF SenderFails, MatchInv
<1>5. CASE ReceiverQuits
  BY <1>5, ReceiverQuit DEF ReceiverFails, MatchInv
<1>6. CASE ReadLength \/ ReadRequest \/ Save
  BY <1>6 DEF ReadLength, ReadRequest, Save, chunkRead, MatchInv
<1>7. CASE \/ Digest \/ \E n \in 1..CHUNK_SIZE : ReadChunk(n)
           \/ \E b \in Byte : ForeignByte(b)
           \/ \E s \in {sread, << >>, original} : ForeignDigest(s)
  BY <1>7 DEF Digest, ReadChunk, ForeignByte, ForeignDigest, MatchInv
<1>8. CASE UNCHANGED <<rpc, rread, claimed, spc, foreign, sread>>
  BY <1>8 DEF MatchInv
<1> QED BY <1>1, <1>2, <1>3, <1>4, <1>5, <1>6, <1>7, <1>8 DEF Step, ReadSome,
        DiskWrite, DiskFull, Edit, vars

LEMMA SourceStep ==
  ASSUME TypeInv, SendInv, SourceInv, Step
  PROVE  SourceInv'
<1> USE DEF sourceVars, senderVars, receiverVars, fileVars
<1> SUFFICES ASSUME ~foreign', ~rewritten'
             PROVE  SourceInv'
  BY DEF SourceInv
<1>1. CASE \E n \in 1..CHUNK_SIZE : ReadChunk(n)
  <2>1. PICK n \in 1..CHUNK_SIZE : ReadChunk(n)
    BY <1>1
  <2> DEFINE p == Take(unread, n)
  <2>2. p \in Seq(Symbol) /\ Len(p) = n
    BY <2>1, ChunkTyped
  <2>3. /\ Len(sread) + n <= size /\ Len(sread) + n <= Len(source)
        /\ \A i \in 1..n : p[i] = source[Len(sread) + i]
    BY <2>1, ChunkTyped
  <2>4. sread' = sread \o p /\ UNCHANGED <<original, source, foreign, rewritten>>
    BY <2>1 DEF ReadChunk
  <2> HIDE DEF p
  <2>5. /\ Len(sread') = Len(sread) + n
        /\ \A i \in 1..Len(sread) : sread'[i] = sread[i]
        /\ \A i \in 1..n : sread'[Len(sread) + i] = p[i]
    <3>1. sread \in Seq(Symbol) /\ p \in Seq(Symbol)
      BY <2>2, SeqTyped
    <3>2. /\ Len(sread \o p) = Len(sread) + Len(p)
          /\ \A i \in 1..Len(sread) : (sread \o p)[i] = sread[i]
          /\ \A i \in 1..Len(p) : (sread \o p)[Len(sread) + i] = p[i]
      BY <3>1, Joined
    <3> QED BY <2>2, <2>4, <3>2
  <2>6. /\ \A i \in 1..Smaller(Len(source), size) : source[i] = original[i]
        /\ \A i \in 1..Len(sread) : sread[i] = original[i]
    BY <2>4 DEF SourceInv
  <2>7. ASSUME NEW i \in 1..Len(sread') PROVE sread'[i] = original[i]
    <3>1. CASE i <= Len(sread)
      <4>1. i \in 1..Len(sread)
        BY <2>7, <3>1, SizeTyped
      <4> QED BY <2>5, <2>6, <4>1
    <3>2. CASE ~(i <= Len(sread))
      <4> DEFINE j == i - Len(sread)
      <4>1. j \in 1..n /\ i = Len(sread) + j
        BY <2>5, <2>7, <3>2, SizeTyped
      <4>2. i \in 1..Smaller(Len(source), size)
        <5>1. Len(sread') <= size /\ Len(sread') <= Len(source) /\ Len(sread') \in Nat
          BY <2>3, <2>5, SizeTyped
        <5>2. i \in Nat /\ i >= 1 /\ i <= Len(source) /\ i <= size
          BY <2>7, <5>1, SizeTyped
        <5> QED BY <5>2 DEF Smaller
      <4> HIDE DEF j
      <4>3. sread'[Len(sread) + j] = source[Len(sread) + j]
        BY <2>3, <2>5, <4>1
      <4> QED BY <2>6, <4>1, <4>2, <4>3
    <3> QED BY <3>1, <3>2
  <2>8. Len(sread') <= size
    BY <2>3, <2>5
  <2> QED BY <2>4, <2>6, <2>7, <2>8 DEF SourceInv, size
<1>2. CASE \E c \in Contents : Edit(c)
  <2>1. PICK c \in Contents : Edit(c)
    BY <1>2
  <2>2. /\ source' = c /\ UNCHANGED <<original, foreign, sread>>
        /\ ~rewritten /\ \A i \in 1..Smaller(Len(c), size) : c[i] = original[i]
    BY <2>1 DEF Edit
  <2> QED BY <2>2 DEF SourceInv, size
<1>3. CASE \/ \E b \in Byte : ForeignByte(b)
           \/ \E s \in {sread, << >>, original} : ForeignDigest(s)
  BY <1>3 DEF ForeignByte, ForeignDigest, SendInv, SourceInv, size
<1>4. CASE UNCHANGED <<sourceVars, sread>>
  BY <1>4 DEF SourceInv, size
<1>5. SenderQuits => UNCHANGED <<sourceVars, sread>>
  BY SenderQuit DEF SenderFails
<1>6. ReceiverQuits => UNCHANGED <<sourceVars, sread>>
  BY ReceiverQuit DEF ReceiverFails
<1> QED BY <1>1, <1>2, <1>3, <1>4, <1>5, <1>6 DEF Step, WriteSome, Digest, Written, ReadSome,
        ReadLength, ReadRequest, Save, Compare, Flush, DiskWrite, DiskFull, vars

LEMMA Limits ==
  /\ SendLimit \in Nat /\ CHUNK_SIZE <= SendLimit /\ DIGEST_LENGTH <= SendLimit
  /\ PREFIX_LENGTH + HeaderLength <= SendLimit
  /\ ReceiveLimit \in Nat /\ CHUNK_SIZE <= ReceiveLimit /\ DIGEST_LENGTH <= ReceiveLimit
  /\ PREFIX_LENGTH <= ReceiveLimit
  /\ \A l \in 0..MAX_MESSAGE_LENGTH : PREFIX_LENGTH + l <= ReceiveLimit
  BY SizesAssumption DEF SendLimit, ReceiveLimit

LEMMA SizeStep ==
  ASSUME TypeInv, HeadInv, FlowInv, ReceiveInv, SizeInv, Step
  PROVE  SizeInv'
<1> USE DEF sourceVars, senderVars, receiverVars, fileVars
<1> DEFINE Buffers ==
             /\ Len(sbuf) <= SendLimit
             /\ Len(wire) <= Window
           Received ==
             /\ reading => Len(rbuf) <= wanted
             /\ Len(rbuf) <= ReceiveLimit
           Stored ==
             /\ Len(pending) <= CHUNK_SIZE
             /\ Len(disk) + Len(pending) <= Len(rread)
<1>1. SizeInv <=> Buffers /\ Received /\ Stored
  BY DEF SizeInv
<1>2. SizeInv' <=> Buffers' /\ Received' /\ Stored'
  BY DEF SizeInv
<1>3. UNCHANGED <<sbuf, wire>> => Buffers'
  BY <1>1
<1>4. UNCHANGED <<rpc, rbuf, rread, original>> => Received'
  BY <1>1 DEF reading, wanted, size
<1>5. UNCHANGED <<pending, disk, rread>> => Stored'
  BY <1>1
<1>6. Len(<< >>) = 0
  BY EmptySeq
<1>7. CASE \E n \in 1..CHUNK_SIZE : ReadChunk(n)
  <2>1. PICK n \in 1..CHUNK_SIZE : ReadChunk(n)
    BY <1>7
  <2>2. Len(sbuf') = n /\ UNCHANGED <<wire, rpc, rbuf, rread, original, pending, disk>>
    BY <2>1, ChunkTyped DEF ReadChunk
  <2>3. n <= SendLimit
    BY Limits, SizesAssumption
  <2>4. Buffers'
    BY <1>1, <2>2, <2>3
  <2> QED BY <1>2, <1>4, <1>5, <2>2, <2>4
<1>8. CASE \E n \in 1..Window : WriteSome(n)
  <2>1. PICK n \in 1..Window : WriteSome(n)
    BY <1>8
  <2>2. n \in 0..Len(sbuf) /\ Len(wire) + n <= Window
    BY <2>1, WriteTyped
  <2>3. /\ Len(Take(sbuf, n)) = n /\ Take(sbuf, n) \in Seq(Symbol)
        /\ Len(Drop(sbuf, n)) = Len(sbuf) - n
    BY <2>2, Parts DEF TypeInv
  <2>4. Len(wire \o Take(sbuf, n)) = Len(wire) + n
    BY <2>3, Joined DEF TypeInv
  <2>5. /\ wire' = wire \o Take(sbuf, n) /\ sbuf' = Drop(sbuf, n)
        /\ UNCHANGED <<rpc, rbuf, rread, original, pending, disk>>
    BY <2>1 DEF WriteSome
  <2>6. Len(wire') <= Window /\ Len(sbuf') <= Len(sbuf)
    BY <2>2, <2>3, <2>4, <2>5, SizeTyped
  <2>7. Len(sbuf') \in Nat /\ Len(sbuf) \in Nat /\ Len(sbuf) <= SendLimit /\ SendLimit \in Nat
    BY <1>1, <2>2, <2>3, <2>5, SizeTyped, Limits
  <2>8. Buffers'
    BY <2>6, <2>7
  <2> QED BY <1>2, <1>4, <1>5, <2>5, <2>8
<1>9. CASE Digest \/ \E s \in {sread, << >>, original} : ForeignDigest(s)
  <2>1. /\ \E s : sbuf' = DigestOf(s)
        /\ UNCHANGED <<wire, rpc, rbuf, rread, original, pending, disk>>
    BY <1>9 DEF Digest, ForeignDigest
  <2>2. Len(sbuf') = DIGEST_LENGTH
    BY <2>1, DigestTyped
  <2>3. Buffers'
    BY <1>1, <2>1, <2>2, Limits
  <2> QED BY <1>2, <1>4, <1>5, <2>1, <2>3
<1>10. CASE \E b \in Byte : ForeignByte(b)
  <2>1. PICK b \in Byte : ForeignByte(b)
    BY <1>10
  <2>2. b \in Symbol
    BY DEF Symbol
  <2>3. Len(Append(wire, b)) = Len(wire) + 1
    BY <2>2, AppendProperties DEF TypeInv
  <2>4. /\ wire' = Append(wire, b) /\ Len(wire) < Window
        /\ UNCHANGED <<sbuf, rpc, rbuf, rread, original, pending, disk>>
    BY <2>1 DEF ForeignByte
  <2>5. Buffers'
    BY <1>1, <2>3, <2>4, SizeTyped
  <2> QED BY <1>2, <1>4, <1>5, <2>4, <2>5
<1>11. CASE SenderQuits
  <2>1. UNCHANGED <<sbuf, wire, rpc, rbuf, rread, original, pending, disk>>
    BY <1>11, SenderQuit DEF SenderFails
  <2> QED BY <1>2, <1>3, <1>4, <1>5, <2>1
<1>12. CASE \E n \in 1..Window : ReadSome(n)
  <2>1. PICK n \in 1..Window : ReadSome(n)
    BY <1>12
  <2>2. n \in 0..Len(wire) /\ Len(rbuf) + n <= wanted
    BY <2>1, ReadTyped
  <2> DEFINE p == Take(wire, n)
             rest == Drop(wire, n)
  <2>3. p \in Seq(Symbol) /\ Len(p) = n /\ Len(rest) = Len(wire) - n
    BY <2>2, Parts DEF TypeInv
  <2>4. /\ reading /\ rbuf' = rbuf \o p /\ wire' = rest
        /\ UNCHANGED <<sbuf, rpc, rread, original, pending, disk>>
    BY <2>1 DEF ReadSome
  <2> HIDE DEF p, rest
  <2>5. Len(rbuf') = Len(rbuf) + n
    BY <2>3, <2>4, Joined DEF TypeInv
  <2>6. Buffers'
    <3>1. /\ n \in Nat /\ Len(wire') = Len(wire) - n /\ sbuf' = sbuf
          /\ Len(wire) \in Nat /\ Len(wire) <= Window /\ Window \in Nat
      BY <1>1, <2>2, <2>3, <2>4, SizeTyped
    <3> QED BY <1>1, <3>1
  <2>7. wanted' = wanted
    <3>1. CASE rpc = "message"
      <4>1. 1 \in 1..Len(rbuf)
        BY <3>1, SizeTyped DEF HeadInv
      <4>2. rbuf'[1] = rbuf[1]
        BY <2>3, <2>4, <4>1, Joined DEF TypeInv
      <4>3. wanted = PREFIX_LENGTH + rbuf[1].length
        BY <3>1 DEF wanted
      <4>4. wanted' = PREFIX_LENGTH + rbuf'[1].length
        BY <2>4, <3>1 DEF wanted
      <4> QED BY <4>2, <4>3, <4>4
    <3>2. CASE rpc = "length"
      BY <2>4, <3>2 DEF wanted
    <3>3. CASE rpc = "body"
      <4>1. wanted = IF Len(rread) < size THEN Smaller(size - Len(rread), CHUNK_SIZE)
                                          ELSE DIGEST_LENGTH
        BY <3>3 DEF wanted
      <4>2. wanted' = IF Len(rread') < size' THEN Smaller(size' - Len(rread'), CHUNK_SIZE)
                                             ELSE DIGEST_LENGTH
        BY <2>4, <3>3 DEF wanted
      <4> QED BY <2>4, <4>1, <4>2 DEF size
    <3> QED BY <2>4, <3>1, <3>2, <3>3 DEF reading
  <2>8. wanted <= ReceiveLimit
    <3>1. CASE rpc = "message"
      <4> DEFINE l == rbuf[1].length
      <4>1. wanted = PREFIX_LENGTH + l
        BY <2>4, <3>1, WantedTyped
      <4>2. l \in 0..MAX_MESSAGE_LENGTH
        BY <3>1 DEF HeadInv
      <4> HIDE DEF l
      <4> QED BY <4>1, <4>2, Limits
    <3>2. CASE rpc = "length"
      BY <2>4, <3>2, WantedTyped, Limits
    <3>3. CASE rpc = "body"
      <4>1. wanted <= CHUNK_SIZE \/ wanted = DIGEST_LENGTH
        BY <2>4, <3>3, WantedTyped
      <4>2. wanted \in Nat
        BY <2>4, WantedTyped
      <4> QED BY <4>1, <4>2, Limits, SizesAssumption
    <3> QED BY <2>4, <3>1, <3>2, <3>3 DEF reading
  <2>9. wanted \in Nat /\ Len(rbuf') \in Nat
    BY <2>2, <2>4, <2>5, WantedTyped, SizeTyped
  <2>10. Len(rbuf') <= wanted' /\ Len(rbuf') <= wanted
    BY <2>2, <2>5, <2>7
  <2>11. Len(rbuf') <= ReceiveLimit
    BY <2>8, <2>9, <2>10, Limits
  <2>12. Received'
    BY <2>10, <2>11
  <2> QED BY <1>2, <1>5, <2>4, <2>6, <2>12
<1>13. CASE ReadLength
  <2>1. /\ rpc = "length" /\ rpc' = "message" /\ Len(rbuf) = PREFIX_LENGTH
        /\ UNCHANGED <<sbuf, wire, rbuf, rread, original, pending, disk>>
    BY <1>13, WantedTyped DEF ReadLength, lengthRead, reading
  <2> DEFINE l == rbuf[1].length
  <2>2. wanted' = PREFIX_LENGTH + l
    BY <2>1 DEF wanted
  <2>3. l \in 0..MAX_MESSAGE_LENGTH
    BY <1>13, HeadStep, <2>1 DEF HeadInv, Step
  <2> HIDE DEF l
  <2>4. Received'
    <3>1. Len(rbuf') <= wanted'
      BY <2>1, <2>2, <2>3, SizesAssumption
    <3>2. Len(rbuf') <= ReceiveLimit
      BY <1>1, <2>1
    <3> QED BY <3>1, <3>2
  <2> QED BY <1>2, <1>3, <1>5, <2>1, <2>4
<1>14. CASE ReadRequest \/ Save
  <2>1. rpc' = "body" /\ rbuf' = << >> /\ UNCHANGED <<sbuf, wire, original>>
    BY <1>14 DEF ReadRequest, Save, chunkRead
  <2>2. Len(rread') \in Nat /\ size' \in Nat
    BY <1>14, <2>1, TypeStep, LenProperties, SizeTyped DEF TypeInv, size
  <2>3. wanted' \in Nat
    <3>1. rpc' # "length" /\ rpc' # "message" /\ rpc' = "body"
      BY <2>1
    <3>2. CASE Len(rread') < size'
      <4>1. wanted' = Smaller(size' - Len(rread'), CHUNK_SIZE)
        BY <3>1, <3>2 DEF wanted
      <4> QED BY <2>2, <3>2, <4>1, SizesAssumption DEF Smaller
    <3>3. CASE ~(Len(rread') < size')
      <4>1. wanted' = DIGEST_LENGTH
        BY <3>1, <3>3 DEF wanted
      <4> QED BY <4>1, SizesAssumption
    <3> QED BY <3>2, <3>3
  <2>4. Received'
    BY <1>6, <2>1, <2>3, Limits
  <2>5. Stored'
    <3>1. CASE ReadRequest
      BY <1>5, <3>1 DEF ReadRequest
    <3>2. CASE Save
      <4>1. Len(rbuf) <= CHUNK_SIZE /\ Len(rread \o rbuf) = Len(rread) + Len(rbuf)
        BY <3>2, ChunkRead DEF Save
      <4>2. pending = << >> /\ pending' = rbuf /\ rread' = rread \o rbuf /\ disk' = disk
        BY <3>2 DEF Save
      <4>3. Len(pending) = 0
        BY <1>6, <4>2
      <4> QED BY <1>1, <4>1, <4>2, <4>3, SizeTyped
    <3> QED BY <1>14, <3>1, <3>2
  <2> QED BY <1>2, <1>3, <2>1, <2>4, <2>5
<1>15. CASE Compare \/ Flush
  <2>1. /\ rpc' \in {"flushing", "verified"}
        /\ UNCHANGED <<sbuf, wire, rbuf, rread, pending, disk>>
    BY <1>15 DEF Compare, Flush
  <2>2. Received'
    BY <1>1, <2>1 DEF reading
  <2> QED BY <1>2, <1>3, <1>5, <2>1, <2>2
<1>16. CASE ReceiverQuits
  <2>1. /\ rpc' = "failed" /\ rbuf' = << >> /\ wire' = << >>
        /\ UNCHANGED <<sbuf, rread, pending, disk>>
    BY <1>16, ReceiverQuit DEF ReceiverFails
  <2>2. Received'
    BY <1>6, <2>1, Limits DEF reading
  <2>3. Buffers'
    BY <1>1, <1>6, <2>1, SizeTyped
  <2> QED BY <1>2, <1>5, <2>1, <2>2, <2>3
<1>17. CASE DiskWrite
  <2>1. /\ disk' = disk \o pending /\ pending' = << >>
        /\ UNCHANGED <<sbuf, wire, rpc, rbuf, rread, original>>
    BY <1>17 DEF DiskWrite
  <2>2. Len(disk') = Len(disk) + Len(pending)
    BY <2>1, Joined DEF TypeInv
  <2>3. Stored'
    BY <1>1, <1>6, <2>1, <2>2, SizeTyped
  <2> QED BY <1>2, <1>3, <1>4, <2>1, <2>3
<1>18. CASE \E n \in 0..CHUNK_SIZE : DiskFull(n)
  <2>1. PICK n \in 0..CHUNK_SIZE : DiskFull(n)
    BY <1>18
  <2> DEFINE p == Take(pending, n)
  <2>2. n \in 0..Len(pending)
    BY <2>1, SizeTyped DEF DiskFull
  <2>3. p \in Seq(Symbol) /\ Len(p) = n
    BY <2>2, Parts DEF TypeInv
  <2>4. /\ disk' = disk \o p /\ pending' = << >>
        /\ UNCHANGED <<sbuf, wire, rpc, rbuf, rread, original>>
    BY <2>1 DEF DiskFull
  <2> HIDE DEF p
  <2>5. Len(disk') = Len(disk) + n
    BY <2>3, <2>4, Joined DEF TypeInv
  <2>6. Stored'
    BY <1>1, <1>6, <2>2, <2>4, <2>5, SizeTyped
  <2> QED BY <1>2, <1>3, <1>4, <2>4, <2>6
<1>19. CASE Written \/ (\E c \in Contents : Edit(c)) \/ UNCHANGED vars
  <2>1. UNCHANGED <<sbuf, wire, rpc, rbuf, rread, original, pending, disk>>
    BY <1>19 DEF Written, Edit, vars
  <2> QED BY <1>2, <1>3, <1>4, <1>5, <2>1
<1> QED BY <1>7, <1>8, <1>9, <1>10, <1>11, <1>12, <1>13, <1>14, <1>15, <1>16, <1>17, <1>18,
        <1>19 DEF Step

\* The reasons for which a receiver gives up are not there in a clean transfer.
LEMMA NoMismatch ==
  ASSUME TypeInv, HeadInv, FlowInv, SendInv, ReceiveInv, ~foreign
  PROVE  ~Mismatch
<1> SUFFICES ASSUME Mismatch
             PROVE  FALSE
  OBVIOUS
<1>1. rpc = "body" /\ Len(rread) >= size /\ Len(rbuf) = wanted /\ rbuf # DigestOf(rread)
  BY DEF Mismatch, digestRead
<1>2. Len(rread) = size /\ Len(rbuf) = DIGEST_LENGTH
  BY <1>1, WantedTyped, SizeTyped DEF ReceiveInv, reading
<1>3. PICK t \in {<< >>, DigestOf(claimed)} :
        /\ rread \o (rbuf \o (wire \o sbuf)) = sread \o t
        /\ t # << >> => claimed = sread /\ Len(sread) = size
  BY <1>1, BodyLine
<1> DEFINE w == wire \o sbuf
           tail == rbuf \o w
<1>4. w \in Seq(Symbol) /\ rbuf \in Seq(Symbol)
  BY LineTyped DEF TypeInv
<1>5. rread \in Seq(Symbol) /\ sread \in Seq(Symbol) /\ t \in Seq(Symbol)
  BY SeqTyped, ClaimTyped DEF TypeInv
<1>6. rread \o tail = sread \o t
  BY <1>3
<1> HIDE DEF w
<1>7. tail \in Seq(Symbol) /\ Len(tail) = Len(rbuf) + Len(w) /\ Len(w) \in Nat
  BY <1>4, Joined, LenProperties
<1> HIDE DEF tail
<1>8. Len(rread \o tail) = Len(rread) + Len(tail)
  BY <1>5, <1>7, Joined
<1>9. Len(sread \o t) = Len(sread) + Len(t)
  BY <1>5, Joined
<1>10. Len(sread) <= size
  BY DEF SendInv
<1>11. Len(t) >= DIGEST_LENGTH
  <2>1. Len(sread) + Len(t) = size + (DIGEST_LENGTH + Len(w))
    BY <1>2, <1>6, <1>7, <1>8, <1>9
  <2>2. /\ Len(sread) \in Nat /\ Len(t) \in Nat /\ size \in Nat /\ DIGEST_LENGTH \in Nat
        /\ Len(w) \in Nat
    BY <1>5, <1>7, LenProperties, SizeTyped
  <2> QED BY <1>10, <2>1, <2>2
<1>12. t # << >>
  BY <1>11, EmptySeq, SizeTyped
<1>13. t = DigestOf(claimed) /\ claimed = sread /\ Len(sread) = size
  BY <1>3, <1>12
<1>14. rread = sread /\ tail = t
  BY <1>2, <1>5, <1>6, <1>7, <1>13, SamePrefix
<1>15. rbuf = t
  <2>1. Len(t) = Len(rbuf)
    BY <1>2, <1>13, DigestTyped
  <2>2. t \o << >> = t /\ << >> \in Seq(Symbol)
    BY <1>5, ConcatEmptySeq, EmptySeq
  <2>3. rbuf \o w = t \o << >>
    BY <1>14, <2>2 DEF tail
  <2> QED BY <1>4, <1>5, <2>1, <2>2, <2>3, SamePrefix
<1> QED BY <1>1, <1>13, <1>14, <1>15

LEMMA NotEndedEarly ==
  ASSUME TypeInv, HeadInv, FlowInv, SendInv, ReceiveInv, ~foreign, spc # "failed"
  PROVE  ~EndedEarly
<1> SUFFICES ASSUME EndedEarly
             PROVE  FALSE
  OBVIOUS
<1>1. /\ reading /\ Len(rbuf) < wanted /\ wire = << >> /\ spc = "sent" /\ sbuf = << >>
      /\ rpc \in {"length", "message", "body"}
  BY DEF EndedEarly, waiting, reading, SendInv
<1>2. wire \o sbuf = << >> /\ << >> \in Seq(Symbol)
  BY <1>1, EmptySeq, ConcatEmptySeq
<1>3. rbuf \o << >> = rbuf
  BY ConcatEmptySeq DEF TypeInv
<1>4. CASE rpc \in {"length", "message"}
  <2>1. PICK f \in ForeignFrames, t \in {<< >>, DigestOf(claimed)} : Flow(f, t)
    BY <1>1 DEF FlowInv
  <2>2. rbuf = f \o (sread \o t)
    BY <1>2, <1>3, <1>4, <2>1 DEF Flow, Line
  <2> DEFINE rest == sread \o t
  <2>3. rest \in Seq(Symbol) /\ f \in Seq(Symbol)
    BY FrameTyped, ClaimTyped, SeqTyped, Joined
  <2> HIDE DEF rest
  <2>4. Len(rbuf) = Len(f) + Len(rest) /\ Len(rest) \in Nat
    BY <2>2, <2>3, Joined, LenProperties DEF rest
  <2>5. Len(f) = PREFIX_LENGTH + HeaderLength
    BY FrameTyped
  <2>6. Len(rbuf) >= PREFIX_LENGTH + HeaderLength
    BY <2>4, <2>5, SizesAssumption
  <2>7. Len(rbuf) >= PREFIX_LENGTH
    BY <2>6, SizeTyped
  <2>8. rbuf[1].length = HeaderLength
    BY <1>4, <2>7, FirstByte
  <2>9. wanted <= PREFIX_LENGTH + HeaderLength
    BY <1>1, <1>4, <2>8, WantedTyped, SizeTyped
  <2>10. wanted \in Nat
    BY <1>1, WantedTyped
  <2> QED BY <1>1, <2>6, <2>9, <2>10, SizeTyped
<1>5. CASE rpc = "body"
  <2>1. PICK t \in {<< >>, DigestOf(claimed)} :
          /\ rread \o (rbuf \o (wire \o sbuf)) = sread \o t
          /\ t = DigestOf(claimed)
          /\ t # << >> => Len(sread) = size
    BY <1>1, <1>5, BodyLine
  <2>2. Len(sread) = size /\ Len(t) = DIGEST_LENGTH
    BY <2>1, DigestTyped
  <2>3. rread \o rbuf = sread \o t
    BY <1>2, <1>3, <2>1
  <2>4. Len(rread \o rbuf) = Len(rread) + Len(rbuf)
    BY Joined DEF TypeInv
  <2>5. Len(sread \o t) = Len(sread) + Len(t)
    BY ClaimTyped, SizeTyped, Joined
  <2>6. Len(rread) + Len(rbuf) = size + DIGEST_LENGTH
    BY <2>2, <2>3, <2>4, <2>5
  <2>7. Len(rread) <= size
    BY DEF ReceiveInv
  <2>8. CASE Len(rread) < size
    <3>1. Len(rbuf) < size - Len(rread)
      BY <1>1, <1>5, <2>8, WantedTyped, SizeTyped
    <3> QED BY <2>6, <3>1, SizeTyped
  <2>9. CASE ~(Len(rread) < size)
    <3>1. Len(rbuf) < DIGEST_LENGTH
      BY <1>1, <1>5, <2>9, WantedTyped
    <3> QED BY <2>6, <2>7, <2>9, <3>1, SizeTyped
  <2> QED BY <2>8, <2>9
<1> QED BY <1>1, <1>4, <1>5

\* Why a sender gives up.
LEMMA SenderReason ==
  ASSUME TypeInv, SendInv, CleanInv, SenderQuits
  PROVE  foreign \/ edits # 0 \/ faulty' \/ rpc = "failed"
<1> SUFFICES ASSUME ~foreign, edits = 0, SourceShrank \/ SourceGrew
             PROVE  FALSE
  BY DEF SenderQuits, SenderError, SenderStopped, ForeignQuits
<1>1. Len(sread) <= size /\ size = Len(source)
  BY DEF SendInv, CleanInv, size
<1>2. /\ Len(unread) = IF Len(sread) < Len(source) THEN Len(source) - Len(sread) ELSE 0
      /\ unread \in Seq(Byte)
  BY SizeTyped, SeqTyped, RestTyped DEF unread
<1>3. CASE SourceShrank
  <2>1. size - Len(sread) > 0 /\ unread = << >>
    BY <1>3 DEF SourceShrank, toRead
  <2>2. Len(unread) = 0
    BY <2>1, EmptySeq
  <2> QED BY <1>1, <1>2, <2>1, <2>2, SizeTyped
<1>4. CASE SourceGrew
  <2>1. size - Len(sread) = 0 /\ unread # << >>
    BY <1>4 DEF SourceGrew, toRead
  <2>2. Len(unread) > 0
    BY <1>2, <2>1, EmptySeq
  <2> QED BY <1>1, <1>2, <2>1, <2>2, SizeTyped
<1> QED BY <1>3, <1>4

\* Why a receiver gives up.
LEMMA ReceiverReason ==
  ASSUME TypeInv, HeadInv, FlowInv, SendInv, ReceiveInv, CleanInv, ReceiverQuits
  PROVE  foreign \/ faulty' \/ spc = "failed"
<1> SUFFICES ASSUME ~foreign, spc # "failed", BadRequest \/ DiskErrorSeen
             PROVE  faulty'
  BY NoMismatch, NotEndedEarly DEF ReceiverQuits, Stalled
<1>1. CASE DiskErrorSeen
  BY <1>1 DEF DiskErrorSeen, CleanInv
<1>2. CASE BadRequest
  <2>1. ~(messageRead /\ ~messageIsRequest)
    BY WholeRequest
  <2>2. ASSUME lengthRead PROVE rbuf[1].length = HeaderLength
    <3>1. rpc = "length" /\ Len(rbuf) = PREFIX_LENGTH
      BY <2>2, WantedTyped DEF lengthRead, reading
    <3> QED BY <3>1, SizeTyped, FirstByte
  <2> QED BY <1>2, <2>1, <2>2, SizeTyped DEF BadRequest
<1> QED BY <1>1, <1>2

\* What has happened stays so.
LEMMA StaysSo ==
  ASSUME TypeInv, Step
  PROVE  /\ UNCHANGED <<original, foreign>>
         /\ (edits # 0 => edits' # 0) /\ (rewritten => rewritten') /\ (faulty => faulty')
<1> USE DEF sourceVars, senderVars, receiverVars, fileVars
<1>1. CASE \E c \in Contents : Edit(c)
  <2>1. PICK c \in Contents : Edit(c)
    BY <1>1
  <2>2. edits' # 0
    BY <2>1, SizesAssumption DEF Edit, TypeInv
  <2> QED BY <2>1, <2>2 DEF Edit
<1>2. CASE SenderQuits
  <2>1. UNCHANGED sourceVars
    BY <1>2, SenderQuit DEF SenderFails
  <2> QED BY <1>2, <2>1 DEF SenderQuits, SourceShrank, SourceGrew, SenderError, SenderStopped,
          ForeignQuits
<1>3. CASE ReceiverQuits
  <2>1. UNCHANGED sourceVars
    BY <1>3, ReceiverQuit DEF ReceiverFails
  <2> QED BY <1>3, <2>1 DEF ReceiverQuits, BadRequest, DiskErrorSeen, Mismatch, EndedEarly,
          Stalled
<1>4. CASE \E n \in 0..CHUNK_SIZE : DiskFull(n)
  BY <1>4 DEF DiskFull
<1>5. CASE UNCHANGED <<sourceVars, faulty>>
  BY <1>5
<1> QED BY <1>1, <1>2, <1>3, <1>4, <1>5 DEF Step, ReadChunk, WriteSome, Digest, Written,
        ForeignByte, ForeignDigest, ReadSome, ReadLength, ReadRequest, Save, Compare, Flush,
        DiskWrite, vars

LEMMA CleanStep ==
  ASSUME TypeInv, HeadInv, FlowInv, SendInv, ReceiveInv, CleanInv, Step
  PROVE  CleanInv'
<1> USE DEF sourceVars, senderVars, receiverVars, fileVars
<1>1. diskError' => faulty'
  <2>1. CASE \E n \in 0..CHUNK_SIZE : DiskFull(n)
    BY <2>1 DEF DiskFull
  <2>2. CASE UNCHANGED diskError
    BY <2>2, StaysSo DEF CleanInv
  <2> QED BY <2>1, <2>2, SenderQuit, ReceiverQuit DEF Step, ReadChunk, WriteSome, Digest,
          Written, SenderFails, ForeignByte, ForeignDigest, ReadSome, ReadLength, ReadRequest,
          Save, Compare, Flush, ReceiverFails, DiskWrite, Edit, vars
<1>2. (\E c \in Contents : Edit(c)) \/ UNCHANGED sourceVars
  BY SenderQuit, ReceiverQuit DEF Step, ReadChunk, WriteSome, Digest, Written, SenderFails,
     ForeignByte, ForeignDigest, ReadSome, ReadLength, ReadRequest, Save, Compare, Flush,
     ReceiverFails, DiskWrite, DiskFull, vars
<1>3. ASSUME edits' = 0 PROVE source' = original' /\ edits = 0
  <2>1. ~(\E c \in Contents : Edit(c))
    BY <1>3, SizesAssumption DEF Edit, TypeInv
  <2> QED BY <1>2, <1>3, <2>1 DEF CleanInv
<1>4. ASSUME ~faulty', ~foreign', edits' = 0
      PROVE  spc' # "failed" /\ rpc' # "failed"
  <2>1. ~faulty /\ ~foreign /\ edits = 0
    BY <1>3, <1>4, StaysSo
  <2>2. spc # "failed" /\ rpc # "failed"
    BY <2>1 DEF CleanInv
  <2>3. ~SenderQuits /\ ~ReceiverQuits
    BY <1>4, <2>1, <2>2, SenderReason, ReceiverReason
  <2> QED BY <2>2, <2>3 DEF Step, ReadChunk, WriteSome, Digest, Written, ForeignByte,
          ForeignDigest, ReadSome, ReadLength, ReadRequest, Save, chunkRead, Compare, Flush,
          DiskWrite, DiskFull, Edit, vars
<1> QED BY <1>1, <1>3, <1>4 DEF CleanInv

-----------------------------------------------------------------------------
(* The theorems.                                                           *)

LEMMA FInit ==
  ASSUME Init
  PROVE  FInv /\ MatchInv
<1>1. /\ original \in Contents /\ original \in Seq(Byte) /\ size \in Nat
      /\ << >> \in Seq(Byte) /\ << >> \in Seq(Symbol) /\ Len(<< >>) = 0
  BY ContentTyped, EmptySeq DEF Init, size
<1>2. sbuf \in ForeignFrames /\ (~foreign => sbuf = FileRequest)
  BY RequestTyped DEF Init
<1>3. sbuf \in Seq(Symbol) /\ Len(sbuf) = PREFIX_LENGTH + HeaderLength
  BY <1>2, FrameTyped
<1>4. TypeInv
  <2>1. /\ sread \in Seq(Byte) /\ claimed \in Seq(Byte) /\ wire \in Seq(Symbol)
        /\ rbuf \in Seq(Symbol) /\ rread \in Seq(Symbol)
        /\ pending \in Seq(Symbol) /\ disk \in Seq(Symbol)
    BY <1>1 DEF Init
  <2>2. /\ source \in Contents /\ foreign \in BOOLEAN
        /\ edits = 0 /\ rewritten = FALSE /\ faulty = FALSE /\ diskError = FALSE
        /\ spc = "header" /\ rpc = "length"
    BY <1>1 DEF Init
  <2>3. edits \in 0..MaxEdits
    BY <2>2, SizesAssumption
  <2> QED BY <1>1, <1>3, <2>1, <2>2, <2>3 DEF TypeInv
<1>5. HeadInv /\ SendInv /\ MatchInv
  BY <1>1 DEF Init, HeadInv, SendInv, MatchInv
<1>6. Flow(sbuf, << >>)
  <2>1. Line(sbuf) = << >> \o (<< >> \o sbuf)
    BY DEF Init, Line
  <2>2. Line(sbuf) = sbuf
    BY <1>3, <2>1, ConcatEmptySeq
  <2>3. sbuf \o (sread \o << >>) = sbuf
    BY <1>1, <1>3, ConcatEmptySeq DEF Init
  <2> QED BY <1>2, <2>2, <2>3 DEF Init, Flow
<1>7. FlowInv
  BY <1>2, <1>6 DEF FlowInv
<1>8. ReceiveInv
  BY <1>1, ConcatEmptySeq DEF Init, ReceiveInv
<1>9. SourceInv
  <2>1. \A i \in 1..Len(sread) : sread[i] = original[i]
    BY <1>1 DEF Init
  <2> QED BY <1>1, <2>1 DEF Init, SourceInv
<1>10. SizeInv
  <2>1. wanted = PREFIX_LENGTH
    BY DEF Init, wanted
  <2> QED BY <1>1, <1>3, <1>4, <2>1, SizeTyped, Limits DEF Init, SizeInv
<1>11. CleanInv
  BY DEF Init, CleanInv
<1> QED BY <1>4, <1>5, <1>7, <1>8, <1>9, <1>10, <1>11 DEF FInv

LEMMA FStep ==
  ASSUME FInv, [Next]_vars
  PROVE  FInv'
<1>1. Step
  BY Steps
<1>2. /\ TypeInv /\ HeadInv /\ FlowInv /\ SendInv /\ ReceiveInv
      /\ SourceInv /\ SizeInv /\ CleanInv
  BY DEF FInv
<1> QED BY <1>1, <1>2, TypeStep, HeadStep, FlowStep, SendStep, ReceiveStep, SourceStep,
        SizeStep, CleanStep DEF FInv

\* What the line, the buffers and the disk hold, in every state.
THEOREM Streamed == Spec => []FInv
<1>1. Init => FInv
  BY FInit
<1>2. FInv /\ [Next]_vars => FInv'
  BY FStep
<1> QED BY <1>1, <1>2, PTL DEF Spec

\* Neither buffer, nor the stream, nor the destination holds more than it may
\* (write_message, stream_file, receive_body).
THEOREM StreamTyped == Spec => []TypeOK
<1>1. FInv => TypeOK
  <2> SUFFICES ASSUME FInv
               PROVE  TypeOK
    OBVIOUS
  <2>1. TypeInv /\ HeadInv /\ ReceiveInv /\ SizeInv
    BY DEF FInv
  <2>2. rpc = "message" => wanted <= PREFIX_LENGTH + MAX_MESSAGE_LENGTH
    <3> SUFFICES ASSUME rpc = "message"
                 PROVE  wanted <= PREFIX_LENGTH + MAX_MESSAGE_LENGTH
      OBVIOUS
    <3> DEFINE l == rbuf[1].length
    <3>1. wanted = PREFIX_LENGTH + l /\ l \in 0..MAX_MESSAGE_LENGTH
      BY <2>1, WantedTyped DEF reading, HeadInv
    <3> HIDE DEF l
    <3> QED BY <2>1, <3>1, SizeTyped
  <2>3. Len(rread) <= size /\ Len(disk) + Len(pending) <= size
    BY <2>1, SizeTyped DEF ReceiveInv, SizeInv
  <2> QED BY <2>1, <2>2, <2>3 DEF TypeOK, TypeInv, SizeInv, SendLimit, ReceiveLimit
<1> QED BY <1>1, Streamed, PTL

\* Neither end gives up on a file that nobody touched, over a network and a disk that
\* work: short reads at the sender and a stream that keeps no boundaries never make the
\* receiver take a part of the digest for data, or wait for more than there is
\* (stream_file, receive_body).
THEOREM NoFalseAlarm ==
  Spec => [](~faulty /\ ~foreign /\ edits = 0 => "failed" \notin {spc, rpc})
<1>1. FInv => (~faulty /\ ~foreign /\ edits = 0 => "failed" \notin {spc, rpc})
  BY DEF FInv, CleanInv
<1> QED BY <1>1, Streamed, PTL

\* What was compared is what was sent, and the sender has finished with it
\* (receive_body).
THEOREM Matched ==
  ASSUME NoByteIsDigest
  PROVE  Spec => [](FInv /\ MatchInv)
<1>1. Init => FInv /\ MatchInv
  BY FInit
<1>2. FInv /\ MatchInv /\ [Next]_vars => (FInv /\ MatchInv)'
  <2> SUFFICES ASSUME FInv, MatchInv, [Next]_vars
               PROVE  MatchInv'
    BY FStep
  <2>1. Step
    BY Steps
  <2>2. TypeInv /\ FlowInv /\ SendInv /\ ReceiveInv
    BY DEF FInv
  <2> QED BY <2>1, <2>2, MatchStep
<1> QED BY <1>1, <1>2, PTL DEF Spec

\* A verified file is the one whose digest was sent, and whole (receive_body).
THEOREM VerifiedIsWholeHolds ==
  ASSUME NoByteIsDigest
  PROVE  Spec => []VerifiedIsWhole
<1>1. FInv /\ MatchInv => VerifiedIsWhole
  <2> SUFFICES ASSUME FInv, MatchInv, rpc = "verified"
               PROVE  /\ pending = << >> /\ Len(disk) = size
                      /\ disk = claimed
                      /\ ~foreign => disk = sread
                      /\ ~foreign /\ ~rewritten => disk = original
    BY DEF VerifiedIsWhole
  <2>1. TypeInv /\ ReceiveInv /\ SourceInv
    BY DEF FInv
  <2>2. pending = << >> /\ ~diskError /\ disk \o pending = rread /\ Len(rread) = size
    BY <2>1 DEF ReceiveInv
  <2>3. disk = rread
    BY <2>1, <2>2, ConcatEmptySeq DEF TypeInv
  <2>4. claimed = rread /\ (~foreign => claimed = sread)
    BY DEF MatchInv
  <2>5. ASSUME ~foreign, ~rewritten PROVE sread = original
    <3>1. \A i \in 1..Len(sread) : sread[i] = original[i]
      BY <2>1, <2>5 DEF SourceInv
    <3>2. sread \in Seq(Byte) /\ original \in Seq(Byte) /\ Len(sread) = Len(original)
      BY <2>1, <2>2, <2>4, <2>5, SizeTyped, SeqTyped DEF TypeInv, size
    <3> QED BY <3>1, <3>2, SeqEqual
  <2> QED BY <2>2, <2>3, <2>4, <2>5
<1> QED BY <1>1, Matched, PTL

-----------------------------------------------------------------------------
(* The file as Transfer sees it.                                           *)

SenderSeen == CASE spc = "header" /\ sbuf # << >> -> "opening"
                [] spc \in {"sent", "failed"} -> spc
                [] OTHER -> "streaming"
SentSeen == IF spc = "sent" THEN {claimed} ELSE {}
ReceiverSeen == CASE rpc \in {"length", "message"} -> "waiting"
                  [] rpc \in {"body", "flushing"} -> "body"
                  [] OTHER -> rpc
KeptSeen == IF rpc = "verified" THEN {disk} ELSE {}
Seen == <<SenderSeen, SentSeen, ReceiverSeen, KeptSeen>>

\* Where the sender and the receiver appear to be.
LEMMA Places ==
  ASSUME TypeInv
  PROVE  /\ spc = "header" /\ sbuf # << >> => SenderSeen = "opening"
         /\ spc = "header" /\ sbuf = << >> => SenderSeen = "streaming"
         /\ spc \in {"reading", "writing", "digest", "foreign"} => SenderSeen = "streaming"
         /\ spc \in {"sent", "failed"} => SenderSeen = spc
         /\ rpc \in {"length", "message"} => ReceiverSeen = "waiting"
         /\ rpc \in {"body", "flushing"} => ReceiverSeen = "body"
         /\ rpc \in {"verified", "failed"} => ReceiverSeen = rpc
  BY DEF SenderSeen, ReceiverSeen

LEMMA PlacesNext ==
  ASSUME TypeInv'
  PROVE  /\ spc' = "header" /\ sbuf' # << >> => SenderSeen' = "opening"
         /\ spc' = "header" /\ sbuf' = << >> => SenderSeen' = "streaming"
         /\ spc' \in {"reading", "writing", "digest", "foreign"} => SenderSeen' = "streaming"
         /\ spc' \in {"sent", "failed"} => SenderSeen' = spc'
         /\ rpc' \in {"length", "message"} => ReceiverSeen' = "waiting"
         /\ rpc' \in {"body", "flushing"} => ReceiverSeen' = "body"
         /\ rpc' \in {"verified", "failed"} => ReceiverSeen' = rpc'
  BY DEF SenderSeen, ReceiverSeen, TypeInv

\* The receiver's place and the destination, as far as they are seen.
LEMMA ReceiverRests ==
  ASSUME UNCHANGED <<rpc, disk>>
  PROVE  UNCHANGED <<ReceiverSeen, KeptSeen>>
  BY DEF ReceiverSeen, KeptSeen

LEMMA SenderRests ==
  ASSUME UNCHANGED <<spc, sbuf, claimed>>
  PROVE  UNCHANGED <<SenderSeen, SentSeen>>
  BY DEF SenderSeen, SentSeen

\* What this build finishes with is what was declared, unless somebody rewrote it.
LEMMA SentIsOriginal ==
  ASSUME TypeInv, SendInv, SourceInv, ~foreign, ~rewritten, spc = "digest"
  PROVE  claimed = original
<1>1. claimed = sread /\ Len(sread) = Len(original)
  BY DEF SendInv, size
<1>2. \A i \in 1..Len(sread) : sread[i] = original[i]
  BY DEF SourceInv
<1>3. sread \in Seq(Byte) /\ original \in Seq(Byte)
  BY SeqTyped DEF TypeInv
<1> QED BY <1>1, <1>2, <1>3, SeqEqual

LEMMA OpenSeen ==
  ASSUME TypeInv, TypeInv', SendInv, SourceInv, NEW n \in 1..Window, WriteSome(n)
  PROVE  UNCHANGED Seen \/ Promise!OpenFile \/ Promise!FinishBody
<1>1. UNCHANGED <<rpc, disk, claimed, original, foreign, rewritten>>
  BY DEF WriteSome, sourceVars, senderVars, receiverVars, fileVars
<1>2. UNCHANGED <<ReceiverSeen, KeptSeen>>
  BY <1>1, ReceiverRests
<1>3. CASE spc = "header"
  <2>1. spc' = "header" /\ sbuf # << >> /\ UNCHANGED SentSeen
    <3>1. n \in 0..Len(sbuf) /\ n > 0
      BY WriteTyped
    <3>2. sbuf # << >>
      BY <3>1, EmptySeq
    <3> QED BY <1>1, <1>3, <3>2 DEF WriteSome, SentSeen
  <2>2. SenderSeen = "opening" /\ SenderSeen' \in {"opening", "streaming"}
    BY <1>3, <2>1, Places, PlacesNext
  <2> QED BY <1>2, <2>1, <2>2
          DEF Promise!OpenFile, Promise!SenderGoes, Seen, SenderSeen, SentSeen, ReceiverSeen,
              KeptSeen
<1>4. CASE spc = "writing"
  <2>1. spc' = "writing"
    BY <1>4 DEF WriteSome
  <2>2. UNCHANGED <<SenderSeen, SentSeen>>
    BY <1>4, <2>1 DEF SenderSeen, SentSeen
  <2> QED BY <1>2, <2>2 DEF Seen
<1>5. CASE spc = "digest" /\ spc' = "digest"
  <2>1. UNCHANGED <<SenderSeen, SentSeen>>
    BY <1>5 DEF SenderSeen, SentSeen
  <2> QED BY <1>2, <2>1 DEF Seen
<1>6. CASE spc = "digest" /\ spc' = "sent"
  <2>1. SenderSeen = "streaming" /\ SenderSeen' = "sent" /\ SentSeen' = {claimed}
    BY <1>1, <1>6 DEF SenderSeen, SentSeen
  <2>2. foreign \/ rewritten \/ claimed = original
    BY <1>6, SentIsOriginal
  <2> QED BY <1>2, <2>1, <2>2
          DEF Promise!FinishBody, Promise!SenderGoes, SenderSeen, SentSeen, ReceiverSeen,
              KeptSeen
<1> QED BY <1>3, <1>4, <1>5, <1>6 DEF WriteSome

LEMMA SenderQuitSeen ==
  ASSUME TypeInv, TypeInv', SendInv, CleanInv, SenderQuits
  PROVE  Promise!SenderFails
<1>1. /\ SenderFails /\ UNCHANGED <<rpc, disk>>
      /\ spc' = "failed" /\ spc \notin {"sent", "failed"}
  BY SenderQuit DEF SenderFails, receiverVars, fileVars
<1>2. UNCHANGED <<ReceiverSeen, KeptSeen>>
  BY <1>1, ReceiverRests
<1>3. /\ SenderSeen \in {"opening", "streaming"} /\ SenderSeen' = "failed"
      /\ SentSeen = {} /\ SentSeen' = {}
  BY <1>1 DEF SenderSeen, SentSeen
<1>4. foreign \/ edits # 0 \/ faulty' \/ ReceiverSeen = "failed"
  BY SenderReason DEF ReceiverSeen
<1> QED BY <1>2, <1>3, <1>4
        DEF Promise!SenderFails, Promise!SenderGoes, SenderSeen, SentSeen, ReceiverSeen,
            KeptSeen

LEMMA ReceiverQuitSeen ==
  ASSUME TypeInv, TypeInv', HeadInv, FlowInv, SendInv, ReceiveInv, CleanInv, ReceiverQuits
  PROVE  Promise!ReceiveBodyFails
<1>1. /\ UNCHANGED <<spc, sbuf, claimed>> /\ rpc' = "failed"
      /\ rpc \in {"length", "message", "body", "flushing"}
  BY ReceiverQuit DEF ReceiverFails, senderVars, ReceiverQuits, BadRequest, lengthRead,
     messageRead, DiskErrorSeen, chunkRead, Mismatch, digestRead, EndedEarly, Stalled, waiting,
     reading
<1>2. UNCHANGED <<SenderSeen, SentSeen>>
  BY <1>1, SenderRests
<1>3. /\ ReceiverSeen \in {"waiting", "body"} /\ ReceiverSeen' = "failed"
      /\ KeptSeen = {} /\ KeptSeen' = {}
  BY <1>1 DEF ReceiverSeen, KeptSeen
<1>4. foreign \/ faulty' \/ SenderSeen = "failed"
  BY ReceiverReason DEF SenderSeen
<1> QED BY <1>2, <1>3, <1>4
        DEF Promise!ReceiveBodyFails, Promise!ReceiverGoes, SenderSeen, SentSeen, ReceiverSeen,
            KeptSeen

LEMMA HeaderSeen ==
  ASSUME TypeInv, HeadInv, FlowInv, SendInv, ReadRequest
  PROVE  Promise!ReadHeader
<1>1. /\ UNCHANGED <<spc, sbuf, claimed>> /\ rpc = "message" /\ rpc' = "body"
  BY DEF ReadRequest, messageRead, senderVars
<1>2. UNCHANGED <<SenderSeen, SentSeen>>
  BY <1>1, SenderRests
<1>3. /\ ReceiverSeen = "waiting" /\ ReceiverSeen' = "body"
      /\ KeptSeen = {} /\ KeptSeen' = {}
  BY <1>1 DEF ReceiverSeen, KeptSeen
<1>4. ASSUME spc = "header" PROVE sbuf = << >>
  <2>1. PICK f \in ForeignFrames, t \in {<< >>, DigestOf(claimed)} : Flow(f, t)
    BY <1>1 DEF FlowInv
  <2>2. wire \o sbuf = sread \o t
    BY <2>1, HeaderRead
  <2>3. sread = << >> /\ t = << >>
    BY <1>4, <2>1 DEF Flow, SendInv
  <2>4. wire \o sbuf = << >>
    BY <2>2, <2>3, EmptySeq, ConcatEmptySeq
  <2>5. Len(wire \o sbuf) = Len(wire) + Len(sbuf)
    BY Joined DEF TypeInv
  <2>6. Len(sbuf) = 0
    BY <2>4, <2>5, EmptySeq, SizeTyped
  <2> QED BY <2>6, EmptySeq DEF TypeInv
<1>5. SenderSeen # "opening"
  BY <1>4 DEF SenderSeen
<1> QED BY <1>2, <1>3, <1>5
        DEF Promise!ReadHeader, Promise!ReceiverGoes, SenderSeen, SentSeen, ReceiverSeen,
            KeptSeen

LEMMA FlushSeen ==
  ASSUME TypeInv, ReceiveInv, MatchInv, Flush
  PROVE  Promise!ReceiveBody
<1>1. /\ UNCHANGED <<spc, sbuf, claimed, disk>> /\ rpc = "flushing" /\ rpc' = "verified"
      /\ pending = << >> /\ ~diskError
  BY DEF Flush, senderVars, fileVars
<1>2. UNCHANGED <<SenderSeen, SentSeen>>
  BY <1>1, SenderRests
<1>3. claimed = rread /\ spc = "sent"
  BY <1>1 DEF MatchInv
<1>4. disk = claimed
  BY <1>1, <1>3, ConcatEmptySeq DEF ReceiveInv, TypeInv
<1>5. /\ ReceiverSeen = "body" /\ ReceiverSeen' = "verified" /\ KeptSeen' = SentSeen
      /\ SenderSeen = "sent"
  BY <1>1, <1>3, <1>4 DEF SenderSeen, SentSeen, ReceiverSeen, KeptSeen
<1> QED BY <1>2, <1>5
        DEF Promise!ReceiveBody, Promise!ReceiverGoes, SenderSeen, SentSeen, ReceiverSeen,
            KeptSeen

\* The steps that Transfer does not see.
LEMMA UnseenSteps ==
  ASSUME TypeInv, ReceiveInv, Step, ~(\E n \in 1..Window : WriteSome(n)), ~SenderQuits,
         ~ReceiverQuits, ~ReadRequest, ~Flush
  PROVE  UNCHANGED Seen
<1> USE DEF sourceVars, senderVars, receiverVars, fileVars
<1>1. CASE \/ \E n \in 1..CHUNK_SIZE : ReadChunk(n)
           \/ Digest \/ Written
           \/ \E b \in Byte : ForeignByte(b)
           \/ \E s \in {sread, << >>, original} : ForeignDigest(s)
  <2>1. UNCHANGED <<rpc, disk>>
    BY <1>1 DEF ReadChunk, Digest, Written, ForeignByte, ForeignDigest
  <2>2. SenderSeen = "streaming" /\ SenderSeen' = "streaming" /\ UNCHANGED SentSeen
    BY <1>1 DEF ReadChunk, Digest, Written, ForeignByte, ForeignDigest, SenderSeen, SentSeen
  <2> QED BY <2>1, <2>2, ReceiverRests DEF Seen
<1>2. CASE \/ \E n \in 1..Window : ReadSome(n)
           \/ ReadLength \/ Save \/ Compare
  <2>1. UNCHANGED <<spc, sbuf, claimed, disk>>
    BY <1>2 DEF ReadSome, ReadLength, Save, Compare
  <2>2. UNCHANGED <<ReceiverSeen, KeptSeen>>
    BY <1>2, <2>1 DEF ReadSome, ReadLength, lengthRead, Save, Compare, digestRead, chunkRead,
       ReceiverSeen, KeptSeen
  <2> QED BY <2>1, <2>2, SenderRests DEF Seen
<1>3. CASE DiskWrite \/ \E n \in 0..CHUNK_SIZE : DiskFull(n)
  <2>1. UNCHANGED <<spc, sbuf, claimed, rpc>> /\ pending # << >>
    BY <1>3 DEF DiskWrite, DiskFull
  <2>2. rpc # "verified"
    BY <2>1 DEF ReceiveInv
  <2>3. UNCHANGED <<ReceiverSeen, KeptSeen>>
    BY <2>1, <2>2 DEF ReceiverSeen, KeptSeen
  <2> QED BY <2>1, <2>3, SenderRests DEF Seen
<1>4. CASE (\E c \in Contents : Edit(c)) \/ UNCHANGED vars
  <2>1. UNCHANGED <<spc, sbuf, claimed, rpc, disk>>
    BY <1>4 DEF Edit, vars
  <2> QED BY <2>1, SenderRests, ReceiverRests DEF Seen
<1> QED BY <1>1, <1>2, <1>3, <1>4 DEF Step

LEMMA StepSeen ==
  ASSUME FInv, MatchInv, TypeInv', Step
  PROVE  Promise!Next
<1>1. Promise!Grow
  BY StaysSo DEF FInv, Promise!Grow
<1>2. \/ UNCHANGED Seen
      \/ Promise!OpenFile \/ Promise!FinishBody \/ Promise!SenderFails
      \/ Promise!ReadHeader \/ Promise!ReceiveBody \/ Promise!ReceiveBodyFails
  BY OpenSeen, SenderQuitSeen, ReceiverQuitSeen, HeaderSeen, FlushSeen, UnseenSteps DEF FInv
<1> QED BY <1>1, <1>2
        DEF Promise!Next, Seen, SenderSeen, SentSeen, ReceiverSeen, KeptSeen

LEMMA InitSeen ==
  ASSUME Init
  PROVE  Promise!Init
<1>1. TypeInv /\ sbuf \in ForeignFrames
  BY FInit, RequestTyped DEF Init, FInv
<1>2. sbuf # << >>
  BY <1>1, FrameTyped, EmptySeq, SizesAssumption
<1> QED BY <1>2 DEF Init, Promise!Init

\* The stream of a file is what Transfer takes it for: nothing is verified before the
\* sender has finished, with anything but what it finished with, and neither end gives
\* up without a reason (transfer.rs:313-345, 462-499; protocol.rs:60-100).
THEOREM PromiseKept ==
  ASSUME NoByteIsDigest
  PROVE  Spec => KeepsPromise
<1>1. FInv /\ MatchInv /\ (FInv /\ MatchInv)' /\ [Next]_vars
        => [Promise!Next]_(Promise!vars)
  BY Steps, StepSeen DEF FInv
<1>2. Init => Promise!Init
  BY InitSeen
<1> QED BY <1>1, <1>2, Matched, PTL DEF Spec, KeepsPromise, Promise!Spec
=============================================================================
