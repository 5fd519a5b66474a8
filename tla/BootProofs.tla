----------------------------- MODULE BootProofs -----------------------------
(* Proofs about Boot, for every set of images and every number of kills,     *)
(* resets and damaged bytes.                                                 *)
EXTENDS Boot, TLAPS
-----------------------------------------------------------------------------
(* The inductive invariant *)

\* Every word that can be read from the line: those of the protocol, those of
\* the images, and junk.
LineWords ==
    {SOH, Junk} \cup {<<"num", n>> : n \in Numbers} \cup {<<"szcrc", n>> : n \in Numbers}
      \cup {crc32(m.code, m.n) : m \in Images} \cup UNION {Range(m.code) : m \in Images}

LineBytes == LineWords \X (1 .. 4)

Faults == [kill : Nat, late : Nat, reset : Nat, noise : Nat]

\* The states simple_boot and receive_image are in, and what they hold.
Held ==
    /\ uPc \in {"idle", "sleep", "header", "soh", "size", "code", "body", "ack", "ok", "panic"}
    /\ img \in Images
    /\ pPc \in {"soh", "size", "cksum", "ack", "image", "eot", "ran"}
    /\ size \in Numbers /\ cksum \in LineWords
    /\ mem \in Seq(LineWords) /\ ran \in Seq(Seq(LineWords))

\* Nothing but whole or damaged words of the protocol and the images is under
\* way, in either direction.
LinesOK == toPi \in Seq(LineBytes) /\ toUnix \in Seq(LineBytes)

\* Words are stored only while some of the size announced are missing.
Fits ==
    /\ pPc = "image" => 4 * Len(mem) < size
    /\ pPc = "eot" => 4 * Len(mem) < size + 4

\* The pi branches to one image per power cycle.
OncePerBoot ==
    /\ faults \in Faults /\ faults.reset <= MaxResets
    /\ Len(ran) <= faults.reset + (IF pPc = "ran" THEN 1 ELSE 0)

IInv == Held /\ LinesOK /\ Fits /\ OncePerBoot /\ RunsWholeImages
-----------------------------------------------------------------------------
(* Words, bytes and lines *)

LEMMA NumbersType == Numbers \subseteq Nat /\ 0 \in Numbers
  <1>1. Huge \in Nat
    BY DEF Huge
  <1>2. QED
    BY <1>1, BootAssumption DEF Numbers, Sizes

LEMMA ProtocolWords ==
    /\ {SOH, ACK, NAK, EOT, Junk} \subseteq LineWords
    /\ \A n \in Numbers : <<"num", n>> \in LineWords /\ <<"szcrc", n>> \in LineWords
    /\ \A m \in Images : <<"num", m.n>> \in LineWords /\ crc32(m.code, m.n) \in LineWords
  <1>1. {5, 6, 7} \subseteq Numbers /\ \A m \in Images : m.n \in Numbers
    BY DEF Numbers, Sizes
  <1>2. QED
    BY <1>1 DEF LineWords, SOH, ACK, NAK, EOT, Junk

\* An image is a sequence of words the line may carry.
LEMMA CodeWords ==
    ASSUME NEW m \in Images
    PROVE  m.code \in Seq(LineWords)
  <1>1. m.code \in Seq(Range(m.code))
    BY ImageAssumption
  <1>2. Range(m.code) \subseteq LineWords
    BY DEF LineWords
  <1>3. QED
    BY <1>1, <1>2

\* A checksum on the line is that of an image, and a number is one in use:
\* junk, the one product of damage, is neither.
LEMMA WordGood ==
    ASSUME NEW w \in LineWords
    PROVE  /\ w[1] = "crc" => \E i \in Images : w = crc32(i.code, i.n)
           /\ w[1] = "num" => w[2] \in Numbers
  <1>1. CASE w \in {SOH, Junk}
    BY <1>1 DEF SOH, Junk
  <1>2. CASE \E n \in Numbers : w = <<"num", n>> \/ w = <<"szcrc", n>>
    BY <1>2
  <1>3. CASE \E m \in Images : w = crc32(m.code, m.n)
    BY <1>3 DEF crc32
  <1>4. CASE \E m \in Images : w \in Range(m.code)
    BY <1>4, ImageAssumption
  <1>5. QED
    BY <1>1, <1>2, <1>3, <1>4 DEF LineWords

\* The bytes of words of the line.
LEMMA BytesType ==
    ASSUME NEW ws \in Seq(LineWords)
    PROVE  Bytes(ws) \in Seq(LineBytes)
  <1>1. Len(ws) \in Nat
    OBVIOUS
  <1>2. ASSUME NEW k \in 1 .. 4 * Len(ws)
        PROVE  <<ws[((k - 1) \div 4) + 1], ((k - 1) % 4) + 1>> \in LineBytes
    <2>1. ((k - 1) \div 4) + 1 \in 1 .. Len(ws) /\ ((k - 1) % 4) + 1 \in 1 .. 4
      BY <1>1
    <2>2. ws[((k - 1) \div 4) + 1] \in LineWords
      BY <2>1
    <2>3. QED
      BY <2>1, <2>2 DEF LineBytes
  <1>3. Bytes(ws) \in [1 .. 4 * Len(ws) -> LineBytes]
    BY <1>2 DEF Bytes
  <1>4. 4 * Len(ws) \in Nat
    BY <1>1
  <1>5. QED
    BY <1>3, <1>4

\* get_uint takes a word of the line, or junk, and leaves a line.
LEMMA GetUint ==
    ASSUME NEW line \in Seq(LineBytes), HasWord(line)
    PROVE  get_uint(line) \in LineWords /\ After(line) \in Seq(LineBytes)
  <1>1. Len(line) \in Nat /\ Len(line) >= 4
    BY DEF HasWord
  <1>2. line[1] \in LineBytes
    BY <1>1
  <1>3. line[1][1] \in LineWords
    BY <1>2 DEF LineBytes
  <1>4. get_uint(line) \in LineWords
    BY <1>3, ProtocolWords DEF get_uint
  <1>5. After(line) \in Seq(LineBytes)
    BY <1>1 DEF After
  <1>6. QED
    BY <1>4, <1>5

\* A number read as a size is one in use.
LEMMA SizeRead ==
    ASSUME NEW w \in LineWords
    PROVE  AsSize(w) \subseteq Numbers
  BY WordGood DEF AsSize, Numbers, Sizes

\* What my-install has in hand to send, whole or cut short.
LEMMA SentType ==
    ASSUME Held
    PROVE  /\ Header \in Seq(LineBytes) /\ Body \in Seq(LineBytes)
           /\ Bytes(<<NAK>>) \in Seq(LineBytes)
           /\ \A k \in 0 .. Len(Pending) : SubSeq(Pending, 1, k) \in Seq(LineBytes)
  <1>1. img \in Images
    BY DEF Held
  <1>2. <<SOH, <<"num", img.n>>, crc32(img.code, img.n)>> \in Seq(LineWords)
    BY <1>1, ProtocolWords
  <1>3. <<ACK>> \o img.code \o <<EOT>> \in Seq(LineWords)
    <2>1. <<ACK>> \in Seq(LineWords) /\ <<EOT>> \in Seq(LineWords)
      BY ProtocolWords
    <2>2. QED
      BY <1>1, <2>1, CodeWords
  <1>4. <<NAK>> \in Seq(LineWords)
    BY ProtocolWords
  <1>5. Header \in Seq(LineBytes) /\ Body \in Seq(LineBytes)
    BY <1>2, <1>3, BytesType DEF Header, Body
  <1>6. Bytes(<<NAK>>) \in Seq(LineBytes)
    BY <1>4, BytesType
  <1>7. Pending \in Seq(LineBytes)
    BY <1>5 DEF Pending
  <1>8. \A k \in 0 .. Len(Pending) : SubSeq(Pending, 1, k) \in Seq(LineBytes)
    BY <1>7
  <1>9. QED
    BY <1>5, <1>6, <1>8

LEMMA Delivered ==
    ASSUME LinesOK, NEW b \in Seq(LineBytes)
    PROVE  Deliver(b) \in Seq(LineBytes)
  BY DEF LinesOK, Deliver
-----------------------------------------------------------------------------
(* Every step keeps the invariant *)

\* What is said to unix is made of words of the line.
LEMMA Said ==
    ASSUME LinesOK, NEW ws \in Seq(LineWords), Say(ws)
    PROVE  toUnix' \in Seq(LineBytes)
  <1>1. Bytes(ws) \in Seq(LineBytes)
    BY BytesType
  <1>2. QED
    BY <1>1 DEF LinesOK, Say

LEMMA EmptyLine ==
    /\ <<>> \in Seq(LineBytes) /\ <<>> \in Seq(LineWords) /\ <<>> \in Seq(Seq(LineWords))
    /\ Len(<<>>) = 0 /\ DOMAIN <<>> = {}
  OBVIOUS

LEMMA OneWord ==
    ASSUME NEW w \in LineWords
    PROVE  <<w>> \in Seq(LineWords)
  OBVIOUS

\* A byte less, or one of junk in its place, is still a line.
LEMMA NoisyType ==
    ASSUME NEW line \in Seq(LineBytes), line # <<>>, NEW l \in Noisy(line)
    PROVE  l \in Seq(LineBytes)
  <1>1. Tail(line) \in Seq(LineBytes)
    OBVIOUS
  <1>2. <<<<Junk, 1>>>> \in Seq(LineBytes)
    <2>1. <<Junk, 1>> \in LineBytes
      BY ProtocolWords DEF LineBytes
    <2>2. QED
      BY <2>1
  <1>3. <<<<Junk, 1>>>> \o Tail(line) \in Seq(LineBytes)
    BY <1>1, <1>2
  <1>4. QED
    BY <1>1, <1>3 DEF Noisy

LEMMA SecondKeeps ==
    ASSUME IInv, Second
    PROVE  faults' \in Faults /\ faults'.reset = faults.reset
  BY DEF IInv, OncePerBoot, Faults, Second

\* A step of unix that leaves the pi alone.
LEMMA UnixKeeps ==
    ASSUME IInv, UNCHANGED piVars,
           uPc' \in {"idle", "sleep", "header", "soh", "size", "code", "body", "ack", "ok", "panic"},
           img' \in Images, toPi' \in Seq(LineBytes), toUnix' \in Seq(LineBytes),
           faults' \in Faults, faults'.reset = faults.reset
    PROVE  IInv'
  <1>1. UNCHANGED <<pPc, size, cksum, mem, ran>>
    BY DEF piVars
  <1>2. Held'
    BY <1>1 DEF IInv, Held
  <1>3. LinesOK'
    BY DEF LinesOK
  <1>4. Fits' /\ RunsWholeImages'
    BY <1>1 DEF IInv, Fits, RunsWholeImages
  <1>5. OncePerBoot'
    BY <1>1 DEF IInv, OncePerBoot
  <1>6. QED
    BY <1>2, <1>3, <1>4, <1>5 DEF IInv

LEMMA ExpectKeeps ==
    ASSUME IInv, NEW at, NEW v, NEW next \in {"size", "code", "body", "ok"}, expect(at, v, next)
    PROVE  IInv'
  <1>1. toUnix' \in Seq(LineBytes)
    BY GetUint DEF IInv, LinesOK, expect
  <1>2. toPi' \in Seq(LineBytes)
    <2>1. Deliver(Bytes(<<NAK>>)) \in Seq(LineBytes)
      BY SentType, Delivered DEF IInv
    <2>2. QED
      BY <2>1 DEF expect, IInv, LinesOK
  <1>3. /\ UNCHANGED piVars /\ UNCHANGED img /\ UNCHANGED faults
        /\ uPc' \in {next, "panic"}
    BY DEF expect
  <1>4. faults' \in Faults /\ faults'.reset = faults.reset /\ img' \in Images
    BY <1>3 DEF IInv, OncePerBoot, Held
  <1>5. QED
    BY <1>1, <1>2, <1>3, <1>4, UnixKeeps

LEMMA UnixNext ==
    ASSUME IInv, Install \/ UnixStep \/ Kill
    PROVE  IInv'
  <1> USE DEF unixVars
  <1>1. /\ img \in Images /\ toPi \in Seq(LineBytes) /\ toUnix \in Seq(LineBytes)
        /\ faults \in Faults
    BY DEF IInv, Held, LinesOK, OncePerBoot
  <1>2. CASE Install
    <2>1. toUnix' \in Seq(LineBytes)
      BY <1>1, <1>2, EmptyLine DEF Install
    <2>2. QED
      BY <1>1, <1>2, <2>1, UnixKeeps DEF Install
  <1>3. CASE Wake
    BY <1>1, <1>3, UnixKeeps, SecondKeeps DEF Wake
  <1>4. CASE SendHeader
    <2>1. Deliver(Header) \in Seq(LineBytes)
      BY SentType, Delivered DEF IInv
    <2>2. QED
      BY <1>1, <1>4, <2>1, UnixKeeps DEF SendHeader
  <1>5. CASE ExpectSoh
    BY <1>5, ExpectKeeps DEF ExpectSoh
  <1>6. CASE ExpectSize
    BY <1>6, ExpectKeeps DEF ExpectSize
  <1>7. CASE ExpectCksum
    BY <1>7, ExpectKeeps DEF ExpectCksum
  <1>8. CASE ExpectAck
    BY <1>8, ExpectKeeps DEF ExpectAck
  <1>9. CASE SendBody
    <2>1. Deliver(Body) \in Seq(LineBytes)
      BY SentType, Delivered DEF IInv
    <2>2. QED
      BY <1>1, <1>9, <2>1, UnixKeeps DEF SendBody
  <1>10. CASE Timeout
    BY <1>1, <1>10, EmptyLine, UnixKeeps, SecondKeeps DEF Timeout
  <1>11. CASE Kill
    <2>1. PICK k \in 0 .. Len(Pending) : toPi' = Deliver(SubSeq(Pending, 1, k))
      BY <1>11 DEF Kill
    <2>2. toPi' \in Seq(LineBytes)
      BY <2>1, SentType, Delivered DEF IInv
    <2>3. faults' \in Faults /\ faults'.reset = faults.reset
      BY <1>1, <1>11 DEF Kill, Faults
    <2>4. QED
      BY <1>1, <1>11, <2>2, <2>3, UnixKeeps DEF Kill
  <1>12. QED
    BY <1>2, <1>3, <1>4, <1>5, <1>6, <1>7, <1>8, <1>9, <1>10, <1>11 DEF UnixStep

\* The image that receive_image accepts is one of those my-install was given:
\* the checksum it compares with came from the line.
LEMMA AcceptedIsAnImage ==
    ASSUME Held, NEW w, Accept(w)
    PROVE  \E m \in Images : mem = m.code
  <1>1. cksum \in LineWords /\ cksum = crc32(mem, size)
    BY DEF Held, Accept
  <1>2. cksum[1] = "crc"
    BY <1>1 DEF crc32
  <1>3. PICK i \in Images : cksum = crc32(i.code, i.n)
    BY <1>1, <1>2, WordGood
  <1>4. QED
    BY <1>1, <1>3 DEF crc32

LEMMA PiNext ==
    ASSUME IInv, PiStep
    PROVE  IInv'
  <1> USE DEF unixVars, PiKeeps
  <1>1. /\ Held /\ LinesOK /\ Fits /\ OncePerBoot /\ RunsWholeImages
        /\ toPi \in Seq(LineBytes) /\ size \in Nat /\ mem \in Seq(LineWords)
        /\ Len(mem) \in Nat
    BY NumbersType DEF IInv, Held, LinesOK
  <1>2. ASSUME HasWord(toPi)
        PROVE  Word \in LineWords /\ After(toPi) \in Seq(LineBytes)
    BY <1>1, <1>2, GetUint DEF Word
  <1>3. <<NAK>> \in Seq(LineWords) /\ <<ACK>> \in Seq(LineWords)
    BY OneWord, ProtocolWords
  <1>4. CASE GetSoh
    <2>1. LinesOK'
      BY <1>1, <1>2, <1>3, <1>4, Said DEF GetSoh, Take, LinesOK
    <2>2. Held'
      BY <1>1, <1>4 DEF GetSoh, Held, Take
    <2>3. Fits' /\ OncePerBoot' /\ RunsWholeImages'
      BY <1>1, <1>4 DEF GetSoh, Fits, OncePerBoot, RunsWholeImages, Take
    <2>4. QED
      BY <2>1, <2>2, <2>3 DEF IInv
  <1>5. CASE GetSize
    <2>1. LinesOK'
      BY <1>1, <1>2, <1>5 DEF GetSize, Take, LinesOK
    <2>2. Held'
      BY <1>1, <1>2, <1>5, SizeRead DEF GetSize, Held, Take
    <2>3. Fits' /\ OncePerBoot' /\ RunsWholeImages'
      BY <1>1, <1>5 DEF GetSize, Fits, OncePerBoot, RunsWholeImages, Take
    <2>4. QED
      BY <2>1, <2>2, <2>3 DEF IInv
  <1>6. CASE GetCksum
    <2>1. LinesOK'
      <3>1. <<SOH, <<"szcrc", size>>, Word>> \in Seq(LineWords)
        <4>1. SOH \in LineWords /\ <<"szcrc", size>> \in LineWords /\ Word \in LineWords
          BY <1>1, <1>2, <1>6, ProtocolWords DEF GetCksum, Take, Held
        <4>2. QED
          BY <4>1
      <3>2. QED
        BY <1>1, <1>2, <1>6, <3>1, Said DEF GetCksum, Take, LinesOK
    <2>2. Held'
      BY <1>1, <1>2, <1>6 DEF GetCksum, Held, Take
    <2>3. Fits' /\ OncePerBoot' /\ RunsWholeImages'
      BY <1>1, <1>6 DEF GetCksum, Fits, OncePerBoot, RunsWholeImages, Take
    <2>4. QED
      BY <2>1, <2>2, <2>3 DEF IInv
  <1>7. CASE GetAck
    <2>1. LinesOK'
      BY <1>1, <1>2, <1>3, <1>7, Said DEF GetAck, Take, LinesOK
    <2>2. Held'
      BY <1>1, <1>7, EmptyLine DEF GetAck, Held, Take
    <2>3. Fits'
      BY <1>1, <1>7 DEF GetAck, Fits, Take
    <2>4. OncePerBoot' /\ RunsWholeImages'
      BY <1>1, <1>7 DEF GetAck, OncePerBoot, RunsWholeImages, Take
    <2>5. QED
      BY <2>1, <2>2, <2>3, <2>4 DEF IInv
  <1>8. CASE GetWord
    <2>1. LinesOK'
      BY <1>1, <1>2, <1>8 DEF GetWord, Take, LinesOK
    <2>2. Held'
      <3>1. mem' \in Seq(LineWords)
        <4>1. Append(mem, Word) \in Seq(LineWords)
          BY <1>1, <1>2, <1>8 DEF GetWord, Take
        <4>2. QED
          BY <1>1, <1>8, <4>1 DEF GetWord
      <3>2. pPc' \in {"image", "eot"}
        BY <1>8 DEF GetWord, Take
      <3>3. QED
        BY <1>1, <1>8, <3>1, <3>2 DEF GetWord, Held
    <2>3. Fits'
      <3>1. CASE size = Huge
        BY <1>1, <1>8, <3>1 DEF GetWord, Fits, Take
      <3>2. CASE size # Huge
        <4>1. 4 * Len(mem) < size
          BY <1>1, <1>8 DEF Fits, GetWord, Take
        <4>2. Len(mem') = Len(mem) + 1 /\ size' = size
          BY <1>1, <1>8, <3>2 DEF GetWord
        <4>3. Left(Len(mem) + 1) # 0 => 4 * (Len(mem) + 1) < size
          BY <1>1, <4>1 DEF Left
        <4>4. pPc' = IF Left(Len(mem) + 1) = 0 THEN "eot" ELSE "image"
          BY <1>8, <3>2 DEF GetWord
        <4>5. QED
          BY <1>1, <4>1, <4>2, <4>3, <4>4 DEF Fits
      <3>3. QED
        BY <3>1, <3>2
    <2>4. OncePerBoot' /\ RunsWholeImages'
      BY <1>1, <1>8 DEF GetWord, OncePerBoot, RunsWholeImages, Take
    <2>5. QED
      BY <2>1, <2>2, <2>3, <2>4 DEF IInv
  <1>9. CASE GetEot
    <2>1. LinesOK'
      BY <1>1, <1>2, <1>3, <1>9, Said, EmptyLine DEF GetEot, LinesOK
    <2>2. Held'
      <3>1. ran \in Seq(Seq(LineWords)) /\ Append(ran, mem) \in Seq(Seq(LineWords))
        BY <1>1 DEF Held
      <3>2. ran' \in Seq(Seq(LineWords))
        BY <1>9, <3>1 DEF GetEot
      <3>3. pPc' \in {"ran", "soh"}
        BY <1>9 DEF GetEot
      <3>4. QED
        BY <1>1, <1>9, <3>2, <3>3 DEF GetEot, Held
    <2>3. Fits'
      BY <1>9 DEF GetEot, Fits
    <2>4. OncePerBoot'
      <3>1. ran \in Seq(Seq(LineWords)) /\ Len(Append(ran, mem)) = Len(ran) + 1
        BY <1>1 DEF Held
      <3>2. QED
        BY <1>1, <1>9, <3>1 DEF GetEot, OncePerBoot, Faults
    <2>5. RunsWholeImages'
      <3>1. CASE ran' = ran
        BY <1>1, <3>1 DEF RunsWholeImages
      <3>2. CASE Accept(Word) /\ ran' = Append(ran, mem)
        <4>1. \E m \in Images : mem = m.code
          BY <1>1, <3>2, AcceptedIsAnImage
        <4>2. ran \in Seq(Seq(LineWords))
          BY <1>1 DEF Held
        <4>3. QED
          <5>1. ASSUME NEW i \in DOMAIN ran'
                PROVE  \E m \in Images : ran'[i] = m.code
            <6>1. CASE i \in DOMAIN ran
              <7>1. ran'[i] = ran[i]
                BY <3>2, <4>2, <6>1
              <7>2. QED
                BY <1>1, <6>1, <7>1 DEF RunsWholeImages
            <6>2. CASE i \notin DOMAIN ran
              <7>1. ran'[i] = mem
                BY <3>2, <4>2, <5>1, <6>2
              <7>2. QED
                BY <4>1, <7>1
            <6>3. QED
              BY <6>1, <6>2
          <5>2. QED
            BY <5>1 DEF RunsWholeImages
      <3>3. QED
        BY <1>9, <3>1, <3>2 DEF GetEot
    <2>6. QED
      BY <2>1, <2>2, <2>3, <2>4, <2>5 DEF IInv
  <1>10. QED
    BY <1>4, <1>5, <1>6, <1>7, <1>8, <1>9 DEF PiStep

LEMMA FaultNext ==
    ASSUME IInv, Reset \/ Noise
    PROVE  IInv'
  <1> USE DEF unixVars, piVars
  <1>1. CASE Reset
    <2>1. Held' /\ LinesOK' /\ Fits' /\ RunsWholeImages'
      BY <1>1 DEF IInv, Held, LinesOK, Fits, RunsWholeImages, Reset
    <2>2. OncePerBoot'
      <3>1. /\ faults \in Faults /\ ran \in Seq(Seq(LineWords)) /\ MaxResets \in Nat
            /\ Len(ran) <= faults.reset + (IF pPc = "ran" THEN 1 ELSE 0)
        BY BootAssumption DEF IInv, OncePerBoot, Held
      <3>2. /\ faults' \in Faults /\ faults'.reset = faults.reset + 1
            /\ faults'.reset <= MaxResets
        BY <1>1, <3>1 DEF Reset, Faults
      <3>3. QED
        BY <1>1, <3>1, <3>2 DEF Reset, OncePerBoot, Faults
    <2>3. QED
      BY <2>1, <2>2 DEF IInv
  <1>2. CASE Noise
    <2>1. toPi' \in Seq(LineBytes) /\ toUnix' \in Seq(LineBytes)
      BY <1>2, NoisyType DEF IInv, LinesOK, Noise
    <2>2. faults' \in Faults /\ faults'.reset = faults.reset
      BY <1>2 DEF IInv, OncePerBoot, Faults, Noise
    <2>3. QED
      BY <1>2, <2>1, <2>2, UnixKeeps DEF IInv, Held, Noise
  <1>3. QED
    BY <1>1, <1>2

\* The invariant holds from power on, through every step of either side.
LEMMA Inductive == Spec => []IInv
  <1>1. Init => IInv
    <2>1. SUFFICES ASSUME Init PROVE IInv
      OBVIOUS
    <2>2. Held /\ LinesOK /\ Fits /\ RunsWholeImages
      BY <2>1, EmptyLine, ProtocolWords, NumbersType
         DEF Init, Held, LinesOK, Fits, RunsWholeImages
    <2>3. OncePerBoot
      BY <2>1, EmptyLine, BootAssumption DEF Init, OncePerBoot, Faults
    <2>4. QED
      BY <2>2, <2>3 DEF IInv
  <1>2. IInv /\ [Next]_vars => IInv'
    <2>1. SUFFICES ASSUME IInv, [Next]_vars PROVE IInv'
      OBVIOUS
    <2>2. CASE UNCHANGED vars
      BY <2>1, <2>2 DEF vars, IInv, Held, LinesOK, Fits, OncePerBoot, RunsWholeImages
    <2>3. QED
      BY <2>1, <2>2, UnixNext, PiNext, FaultNext DEF Next
  <1>3. QED
    BY <1>1, <1>2, PTL DEF Spec

\* Every variable of the two sides has its type; in particular receive_image
\* never stores a word past the size announced, and the pi branches at most
\* once per power cycle.
THEOREM TypeCorrect == Spec => []TypeOK
  <1>1. IInv => TypeOK
    <2>1. SUFFICES ASSUME IInv PROVE TypeOK
      OBVIOUS
    <2>2. \A line \in {toPi, toUnix} : \A i \in DOMAIN line : line[i][2] \in 1 .. 4
      <3>1. toPi \in Seq(LineBytes) /\ toUnix \in Seq(LineBytes)
        BY <2>1 DEF IInv, LinesOK
      <3> TAKE line \in {toPi, toUnix}
      <3> TAKE i \in DOMAIN line
      <3>2. line \in Seq(LineBytes)
        BY <3>1
      <3>3. line[i] \in LineBytes
        BY <3>2
      <3>4. QED
        BY <3>3 DEF LineBytes
    <2>3. Len(ran) <= MaxResets + 1
      <3>1. MaxResets \in Nat
        BY BootAssumption
      <3>2. /\ ran \in Seq(Seq(LineWords)) /\ faults \in Faults /\ faults.reset <= MaxResets
            /\ Len(ran) <= faults.reset + (IF pPc = "ran" THEN 1 ELSE 0)
        BY <2>1, Zenon DEF IInv, Held, OncePerBoot
      <3>3. Len(ran) \in Nat /\ faults.reset \in Nat
        BY <3>2 DEF Faults
      <3> DEFINE n == Len(ran)
                 k == faults.reset
      <3>4. n \in Nat /\ k \in Nat /\ k <= MaxResets /\ (n <= k + 1 \/ n <= k + 0)
        BY <3>2, <3>3, Zenon
      <3> HIDE DEF n, k
      <3>5. n <= MaxResets + 1
        BY <3>1, <3>4
      <3>6. QED
        BY <3>5 DEF n
    <2>4. size \in Nat /\ Len(mem) \in Nat
      BY <2>1, NumbersType DEF IInv, Held
    <2>5. pPc \in {"image", "eot"} => 4 * Len(mem) < size + 4
      BY <2>1, <2>4 DEF IInv, Fits
    <2>6. QED
      BY <2>1, <2>2, <2>3, <2>5 DEF IInv, Held, TypeOK
  <1>2. QED
    BY <1>1, Inductive, PTL

\* The bootloader never branches to a mixture of images: receive_image returns
\* ACK only for the words of one image, however many calls of my-install were
\* killed half-way and whatever the line lost or garbled.
THEOREM OnlyWholeImagesRun == Spec => []RunsWholeImages
  <1>1. IInv => RunsWholeImages
    BY DEF IInv
  <1>2. QED
    BY <1>1, Inductive, PTL
-----------------------------------------------------------------------------
(* Success is reported for the image that runs *)

\* The checksum of the image being shipped.
Mine == crc32(img.code, img.n)

\* The words of the pi's answer that simple_boot has matched in this call.
Matched == CASE uPc = "size" -> 1
             [] uPc = "code" -> 2
             [] uPc \in {"body", "ack"} -> 3
             [] OTHER -> 0

\* The bytes under way to unix are those of whole words.
Aligned == Len(toUnix) % 4 = 0

\* A line out of step has lost the rest of a word to noise, and no more.
LostBytes == faults.noise <= MaxNoise /\ (~Aligned => 4 - (Len(toUnix) % 4) <= faults.noise)

\* Counted from the end of the line, all bytes but perhaps the first are in
\* their places.
InPlace == \A k \in 2 .. Len(toUnix) : toUnix[k][2] = 4 - ((Len(toUnix) - k) % 4)

\* Until receive_image is done with a header it has echoed, the echo of the
\* checksum is the last thing it said.
Echoed ==
    pPc \in {"ack", "image", "eot"} /\ Aligned =>
        /\ Len(toUnix) > 0 => toUnix[Len(toUnix)] = <<cksum, 4>>
        /\ Len(toUnix) = 0 /\ Matched = 3 => cksum = Mine

\* The third word of the answer is this image's checksum, the fourth is ACK.
Pair ==
    /\ Aligned /\ Len(toUnix) >= 16 - 4 * Matched
    /\ Matched < 3 => toUnix[12 - 4 * Matched] = <<Mine, 4>>
    /\ toUnix[16 - 4 * Matched] = <<ACK, 4>>

\* This call of simple_boot has returned, or is bound to unless it is stopped.
Won == uPc = "ok" \/ (Running /\ Pair)

\* No other image's checksum is on its way to the bootloader, or held by it.
LineOurs == \A k \in DOMAIN toPi : toPi[k][1][1] = "crc" => toPi[k][1] = Mine
HeldOurs == pPc \in {"ack", "image", "eot"} /\ cksum[1] = "crc" => cksum = Mine

\* Once it has won, the image runs, and a bootloader that is started again has
\* nothing to branch to but that image.
Runs == Won => /\ ran # <<>> /\ Last(ran) = img.code
               /\ pPc = "ran" \/ (LineOurs /\ HeldOurs)

SInv == LostBytes /\ InPlace /\ Echoed /\ Runs

\* The bytes of words: the last of each word, and the places of all.
LEMMA BytesOf ==
    ASSUME NEW ws \in Seq(LineWords)
    PROVE  /\ Len(Bytes(ws)) = 4 * Len(ws)
           /\ \A k \in 1 .. 4 * Len(ws) : /\ Bytes(ws)[k][2] = ((k - 1) % 4) + 1
                                         /\ \E j \in 1 .. Len(ws) : Bytes(ws)[k][1] = ws[j]
           /\ \A j \in 1 .. Len(ws) : Bytes(ws)[4 * j] = <<ws[j], 4>>
  <1>1. Len(ws) \in Nat /\ 4 * Len(ws) \in Nat
    OBVIOUS
  <1>2. Bytes(ws) \in Seq(LineBytes) /\ DOMAIN Bytes(ws) = 1 .. 4 * Len(ws)
    BY BytesType DEF Bytes
  <1>3. Len(Bytes(ws)) = 4 * Len(ws)
    BY <1>1, <1>2
  <1>4. ASSUME NEW k \in 1 .. 4 * Len(ws)
        PROVE  /\ Bytes(ws)[k] = <<ws[((k - 1) \div 4) + 1], ((k - 1) % 4) + 1>>
               /\ ((k - 1) \div 4) + 1 \in 1 .. Len(ws)
    BY <1>1 DEF Bytes
  <1>5. ASSUME NEW j \in 1 .. Len(ws)
        PROVE  Bytes(ws)[4 * j] = <<ws[j], 4>>
    <2>1. 4 * j \in 1 .. 4 * Len(ws) /\ ((4 * j - 1) \div 4) + 1 = j /\ ((4 * j - 1) % 4) + 1 = 4
      BY <1>1
    <2>2. QED
      BY <1>4, <2>1
  <1>6. ASSUME NEW k \in 1 .. 4 * Len(ws)
        PROVE  /\ Bytes(ws)[k][2] = ((k - 1) % 4) + 1
               /\ \E j \in 1 .. Len(ws) : Bytes(ws)[k][1] = ws[j]
    <2>1. PICK j \in 1 .. Len(ws) : Bytes(ws)[k] = <<ws[j], ((k - 1) % 4) + 1>>
      BY <1>4
    <2>2. QED
      BY <2>1
  <1>7. QED
    BY <1>3, <1>5, <1>6

LEMMA ConcatLine ==
    ASSUME NEW S, NEW s \in Seq(S), NEW t \in Seq(S)
    PROVE  /\ Len(s \o t) = Len(s) + Len(t)
           /\ \A k \in 1 .. Len(s) : (s \o t)[k] = s[k]
           /\ \A k \in 1 .. Len(t) : (s \o t)[Len(s) + k] = t[k]
  OBVIOUS

LEMMA AfterOf ==
    ASSUME NEW S, NEW s \in Seq(S), HasWord(s)
    PROVE  /\ Len(s) \in Nat /\ Len(s) >= 4 /\ Len(After(s)) = Len(s) - 4
           /\ \A k \in 1 .. Len(s) - 4 : After(s)[k] = s[k + 4]
  <1>1. Len(s) \in Nat /\ Len(s) >= 4
    BY DEF HasWord
  <1>2. Len(After(s)) = Len(s) - 4
    <2> DEFINE n == Len(s)
               r == Len(SubSeq(s, 5, n))
    <2>1. r = IF 5 <= n THEN n - 5 + 1 ELSE 0
      BY <1>1
    <2>2. n \in Nat /\ n >= 4 /\ Len(After(s)) = r
      BY <1>1 DEF After
    <2> HIDE DEF n, r
    <2>3. r = n - 4
      BY <2>1, <2>2
    <2>4. QED
      BY <2>2, <2>3 DEF n
  <1>3. ASSUME NEW k \in 1 .. Len(s) - 4
        PROVE  After(s)[k] = s[k + 4]
    <2>1. 5 + k - 1 = k + 4 /\ k \in 1 .. Len(s) - 5 + 1
      BY <1>1
    <2>2. QED
      BY <1>1, <2>1 DEF After
  <1>4. QED
    BY <1>1, <1>2, <1>3

\* What saying words does to the line.
LEMMA SayLine ==
    ASSUME LinesOK, NEW ws \in Seq(LineWords), Say(ws)
    PROVE  /\ Len(toUnix) \in Nat /\ Len(toUnix') = Len(toUnix) + 4 * Len(ws)
           /\ \A k \in 1 .. Len(toUnix) : toUnix'[k] = toUnix[k]
           /\ \A j \in 1 .. Len(ws) : toUnix'[Len(toUnix) + 4 * j] = <<ws[j], 4>>
           /\ Aligned' <=> Aligned
           /\ InPlace => InPlace'
           /\ LostBytes /\ faults' = faults => LostBytes'
  <1> DEFINE n == Len(toUnix)
             m == Len(ws)
             b == Bytes(ws)
  <1>1. toUnix \in Seq(LineBytes) /\ n \in Nat /\ m \in Nat
    BY DEF LinesOK
  <1>2. b \in Seq(LineBytes) /\ Len(b) = 4 * m
    BY BytesType, BytesOf
  <1>3. toUnix' = toUnix \o b
    BY DEF Say
  <1>4. Len(toUnix') = n + 4 * m
    BY <1>1, <1>2, <1>3, ConcatLine
  <1>5. \A k \in 1 .. n : toUnix'[k] = toUnix[k]
    BY <1>1, <1>2, <1>3, ConcatLine
  <1>6. \A k \in 1 .. 4 * m : toUnix'[n + k] = b[k]
    BY <1>1, <1>2, <1>3, ConcatLine
  <1>7. ASSUME NEW j \in 1 .. m
        PROVE  toUnix'[n + 4 * j] = <<ws[j], 4>>
    <2>1. 4 * j \in 1 .. 4 * m /\ b[4 * j] = <<ws[j], 4>>
      BY <1>1, BytesOf
    <2>2. QED
      BY <1>6, <2>1
  <1>8. \A k \in 1 .. 4 * m : b[k][2] = ((k - 1) % 4) + 1
    BY BytesOf
  <1> HIDE DEF n, m, b
  <1>9. (n + 4 * m) % 4 = n % 4
    BY <1>1
  <1>10. Aligned' <=> Aligned
    BY <1>4, <1>9 DEF Aligned, n
  <1>11. ASSUME LostBytes, faults' = faults
         PROVE  LostBytes'
    BY <1>4, <1>9, <1>10, <1>11 DEF LostBytes, n
  <1>12. ASSUME InPlace, Aligned \/ ~Aligned
         PROVE  InPlace'
    <2>1. ASSUME NEW k \in 2 .. n + 4 * m
          PROVE  toUnix'[k][2] = 4 - ((n + 4 * m - k) % 4)
      <3>1. CASE k <= n
        <4>1. (n + 4 * m - k) % 4 = (n - k) % 4
          BY <1>1
        <4>2. QED
          BY <1>1, <1>5, <1>12, <3>1, <4>1 DEF InPlace, n
      <3>2. CASE k > n
        <4>1. k - n \in 1 .. 4 * m /\ k = n + (k - n)
          BY <1>1, <3>2
        <4>2. toUnix'[k][2] = ((k - n - 1) % 4) + 1
          BY <1>6, <1>8, <4>1
        <4>3. 4 - ((n + 4 * m - k) % 4) = ((k - n - 1) % 4) + 1
          BY <1>1, <4>1
        <4>4. QED
          BY <4>2, <4>3
      <3>3. QED
        BY <1>1, <3>1, <3>2
    <2>2. ASSUME NEW k \in 2 .. Len(toUnix')
          PROVE  toUnix'[k][2] = 4 - ((Len(toUnix') - k) % 4)
      <3>1. k \in 2 .. n + 4 * m
        BY ONLY <1>4, k \in 2 .. Len(toUnix')
      <3>2. toUnix'[k][2] = 4 - ((n + 4 * m - k) % 4)
        BY <2>1, <3>1
      <3>3. QED
        BY <1>1, <1>4, <3>1, <3>2
    <2>3. QED
      BY ONLY <2>2 DEF InPlace
  <1>13. QED
    BY <1>1, <1>4, <1>5, <1>7, <1>10, <1>11, <1>12 DEF n, m

\* What reading a word does to the line.
LEMMA AfterLine ==
    ASSUME LinesOK, HasWord(toUnix), toUnix' = After(toUnix)
    PROVE  /\ Len(toUnix) \in Nat /\ Len(toUnix) >= 4 /\ Len(toUnix') = Len(toUnix) - 4
           /\ \A k \in 1 .. Len(toUnix) - 4 : toUnix'[k] = toUnix[k + 4]
           /\ Aligned' <=> Aligned
           /\ InPlace => InPlace'
           /\ LostBytes /\ faults' = faults => LostBytes'
  <1> DEFINE n == Len(toUnix)
  <1>1. toUnix \in Seq(LineBytes) /\ n \in Nat /\ n >= 4
    BY DEF LinesOK, HasWord
  <1>2. Len(toUnix') = n - 4 /\ \A k \in 1 .. n - 4 : toUnix'[k] = toUnix[k + 4]
    BY <1>1, AfterOf
  <1> HIDE DEF n
  <1>3. (n - 4) % 4 = n % 4
    BY <1>1
  <1>4. Aligned' <=> Aligned
    BY <1>2, <1>3 DEF Aligned, n
  <1>5. ASSUME LostBytes, faults' = faults
        PROVE  LostBytes'
    BY <1>2, <1>3, <1>4, <1>5 DEF LostBytes, n
  <1>6. ASSUME InPlace
        PROVE  InPlace'
    <2>1. ASSUME NEW k \in 2 .. n - 4
          PROVE  toUnix'[k][2] = 4 - ((n - 4 - k) % 4)
      <3>1. k + 4 \in 2 .. n /\ n - (k + 4) = n - 4 - k /\ k \in 1 .. n - 4
        BY <1>1
      <3>2. toUnix[k + 4][2] = 4 - ((n - (k + 4)) % 4)
        BY <1>6, <3>1 DEF InPlace, n
      <3>3. QED
        BY <1>2, <3>1, <3>2
    <2>2. QED
      BY <1>2, <2>1 DEF InPlace
  <1>7. QED
    BY <1>1, <1>2, <1>4, <1>5, <1>6 DEF n

\* A word that is read as it was sent was read in step.
LEMMA ReadInStep ==
    ASSUME LinesOK, InPlace, HasWord(toUnix), NEW v, v # Junk, get_uint(toUnix) = v
    PROVE  Aligned /\ toUnix[4] = <<v, 4>>
  <1> DEFINE n == Len(toUnix)
  <1>1. n \in Nat /\ n >= 4
    BY DEF LinesOK, HasWord
  <1>2. toUnix[4] = <<v, 4>>
    BY DEF get_uint
  <1>3. toUnix[4][2] = 4
    BY <1>2
  <1>4. 4 = 4 - ((n - 4) % 4)
    BY <1>1, <1>3 DEF InPlace
  <1> HIDE DEF n
  <1>5. n % 4 = 0
    BY <1>1, <1>4
  <1>6. QED
    BY <1>2, <1>5 DEF Aligned, n

\* The words told apart.
LEMMA WordsDiffer ==
    /\ SOH # Junk /\ ACK # Junk /\ SOH # ACK /\ NAK # ACK
    /\ \A n : <<"szcrc", n>> # Junk /\ <<"szcrc", n>> # ACK /\ <<"szcrc", n>>[1] # "crc"
    /\ SOH[1] # "crc" /\ ACK[1] # "crc" /\ NAK[1] # "crc" /\ EOT[1] # "crc" /\ Junk[1] # "crc"
    /\ Mine # Junk /\ Mine[1] = "crc" /\ <<"num", img.n>>[1] # "crc"
  <1>1. /\ SOH[1] = "soh" /\ ACK[1] = "num" /\ NAK[1] = "num" /\ EOT[1] = "num" /\ Junk[1] = "junk"
        /\ ACK[2] = 5 /\ NAK[2] = 6
        /\ Mine[1] = "crc" /\ \A n : <<"szcrc", n>>[1] = "szcrc" /\ <<"num", n>>[1] = "num"
    BY DEF SOH, ACK, NAK, EOT, Junk, Mine, crc32
  <1>2. QED
    BY <1>1

LEMMA MatchedType == Matched \in 0 .. 3
  BY DEF Matched

\* Nothing that is said wins, unless it is an ACK right after the checksum.
LEMMA NothingWon ==
    ASSUME LinesOK, NEW ws \in Seq(LineWords), Say(ws), UNCHANGED <<uPc, img>>,
           \A j \in 1 .. Len(ws) : ws[j] = ACK => j > 1 /\ ws[j - 1][1] # "crc"
    PROVE  Won' => Won
  <1> DEFINE n == Len(toUnix)
             m == Len(ws)
             e == Matched
             q == 16 - 4 * e
  <1>1. n \in Nat /\ m \in Nat /\ e \in 0 .. 3 /\ q \in Nat
    BY MatchedType, SayLine
  <1>2. Matched' = e /\ Mine' = Mine /\ (Running' <=> Running)
    BY DEF Matched, Mine, Running
  <1>3. SUFFICES ASSUME Pair' PROVE Pair
    BY <1>2 DEF Won
  <1>4. /\ Aligned /\ Len(toUnix') = n + 4 * m
        /\ \A k \in 1 .. n : toUnix'[k] = toUnix[k]
        /\ \A j \in 1 .. m : toUnix'[n + 4 * j] = <<ws[j], 4>>
    BY <1>3, SayLine DEF Pair
  <1>5. /\ n + 4 * m >= q
        /\ e < 3 => toUnix'[q - 4] = <<Mine, 4>>
        /\ toUnix'[q] = <<ACK, 4>>
    <2>1. 12 - 4 * e = q - 4
      BY <1>1
    <2>2. QED
      BY <1>2, <1>3, <1>4, <2>1 DEF Pair
  <1>6. CASE q <= n
    <2>1. q \in 1 .. n /\ (e < 3 => q - 4 \in 1 .. n) /\ 12 - 4 * e = q - 4
      BY <1>1, <1>6
    <2>2. toUnix[q] = <<ACK, 4>> /\ (e < 3 => toUnix[q - 4] = <<Mine, 4>>)
      BY <1>4, <1>5, <2>1
    <2>3. QED
      BY <1>4, <1>6, <2>1, <2>2 DEF Pair
  <1>7. CASE q > n
    <2> DEFINE j == (q - n) \div 4
    <2>1. n % 4 = 0
      BY <1>4 DEF Aligned
    <2>2. j \in 1 .. m /\ q = n + 4 * j
      <3> HIDE DEF n, m, e
      <3>1. QED
        BY <1>1, <1>5, <1>7, <2>1
    <2> HIDE DEF j
    <2>3. toUnix'[q] = <<ws[j], 4>>
      BY <1>4, <2>2
    <2>4. ws[j] = ACK
      BY <1>5, <2>3
    <2>5. j > 1 /\ ws[j - 1][1] # "crc"
      BY <2>2, <2>4
    <2>6. j - 1 \in 1 .. m /\ q - 4 = n + 4 * (j - 1) /\ e < 3
      <3> HIDE DEF n, m, e
      <3>1. QED
        BY <1>1, <2>2, <2>5
    <2>7. toUnix'[q - 4] = <<ws[j - 1], 4>>
      BY <1>4, <2>6
    <2>8. ws[j - 1] = Mine
      BY <1>5, <2>6, <2>7
    <2>9. QED
      BY <2>5, <2>8, WordsDiffer
  <1>8. QED
    BY <1>1, <1>6, <1>7

\* A line to unix that is left alone.
LEMMA QuietLine ==
    ASSUME UNCHANGED toUnix, faults'.noise = faults.noise, LostBytes, InPlace
    PROVE  LostBytes' /\ InPlace' /\ (Aligned' <=> Aligned)
  BY DEF LostBytes, InPlace, Aligned

LEMMA QuietWon ==
    ASSUME UNCHANGED <<toUnix, uPc, img>>
    PROVE  Won' <=> Won
  BY DEF Won, Running, Pair, Aligned, Matched, Mine

\* A word taken from the line to the pi leaves no checksum there that was not.
LEMMA PiReads ==
    ASSUME LinesOK, HasWord(toPi), toPi' = After(toPi), img' = img, LineOurs
    PROVE  LineOurs' /\ (Word[1] = "crc" => Word = Mine)
  <1>1. /\ toPi \in Seq(LineBytes) /\ Len(toPi) \in Nat /\ Len(toPi) >= 4
        /\ Len(toPi') = Len(toPi) - 4
        /\ \A k \in 1 .. Len(toPi) - 4 : toPi'[k] = toPi[k + 4]
    BY AfterOf DEF LinesOK
  <1>2. toPi' \in Seq(LineBytes) /\ DOMAIN toPi' = 1 .. Len(toPi) - 4
    BY <1>1, GetUint
  <1>3. ASSUME NEW k \in DOMAIN toPi', toPi'[k][1][1] = "crc"
        PROVE  toPi'[k][1] = Mine
    <2>1. k + 4 \in DOMAIN toPi /\ toPi'[k] = toPi[k + 4]
      BY <1>1, <1>2
    <2>2. QED
      BY <1>3, <2>1 DEF LineOurs
  <1>4. LineOurs'
    BY <1>3 DEF LineOurs, Mine
  <1>5. Word[1] = "crc" => Word = Mine
    <2>1. 1 \in DOMAIN toPi
      BY <1>1
    <2>2. Word = Junk \/ Word = toPi[1][1]
      BY DEF Word, get_uint
    <2>3. QED
      BY <2>1, <2>2, WordsDiffer DEF LineOurs
  <1>6. QED
    BY <1>4, <1>5

\* A step of receive_image that branches nowhere.
LEMMA RunsOn ==
    ASSUME Runs, Won' => Won, pPc # "ran", UNCHANGED <<img, ran>>,
           LineOurs => LineOurs', LineOurs /\ HeldOurs => HeldOurs'
    PROVE  Runs'
  BY DEF Runs

\* The words of a step of receive_image that the line may carry.
LEMMA Answers ==
    ASSUME Held, HasWord(toPi), LinesOK
    PROVE  /\ <<NAK>> \in Seq(LineWords) /\ <<ACK>> \in Seq(LineWords)
           /\ <<SOH, <<"szcrc", size>>, Word>> \in Seq(LineWords)
  <1>1. {SOH, NAK, ACK, <<"szcrc", size>>} \subseteq LineWords
    BY ProtocolWords DEF Held
  <1>2. Word \in LineWords
    BY GetUint DEF Word, LinesOK
  <1>3. QED
    BY <1>1, <1>2

\* receive_image gives up on what it is reading.
LEMMA NakSteps ==
    ASSUME IInv, SInv, HasWord(toPi), toPi' = After(toPi), Say(<<NAK>>), pPc' = "soh",
           pPc # "ran", UNCHANGED <<ran, uPc, img, faults>>
    PROVE  SInv'
  <1>1. Held /\ LinesOK /\ LostBytes /\ InPlace /\ Echoed /\ Runs
    BY DEF IInv, SInv
  <1>2. <<NAK>> \in Seq(LineWords)
    BY <1>1, Answers
  <1>3. LostBytes' /\ InPlace'
    BY <1>1, <1>2, SayLine
  <1>4. Won' => Won
    <2>1. \A j \in 1 .. Len(<<NAK>>) : <<NAK>>[j] # ACK
      BY WordsDiffer
    <2>2. QED
      BY <1>1, <1>2, <2>1, NothingWon
  <1>5. LineOurs => LineOurs'
    BY <1>1, PiReads
  <1>6. Runs' /\ Echoed'
    <2>1. HeldOurs' /\ Echoed'
      BY DEF HeldOurs, Echoed
    <2>2. QED
      BY <1>1, <1>4, <1>5, <2>1, RunsOn
  <1>7. QED
    BY <1>3, <1>6 DEF SInv

\* receive_image reads a word and says nothing.
LEMMA SilentSteps ==
    ASSUME IInv, SInv, HasWord(toPi), toPi' = After(toPi), UNCHANGED <<toUnix, ran, uPc, img, faults>>,
           pPc # "ran",
           pPc' \in {"ack", "image", "eot"} => pPc \in {"ack", "image", "eot"} /\ cksum' = cksum
    PROVE  SInv'
  <1>1. LinesOK /\ LostBytes /\ InPlace /\ Echoed /\ Runs
    BY DEF IInv, SInv
  <1>2. LostBytes' /\ InPlace' /\ (Aligned' <=> Aligned)
    BY <1>1, QuietLine
  <1>3. Won' => Won
    BY QuietWon
  <1>4. LineOurs => LineOurs'
    BY <1>1, PiReads
  <1>5. HeldOurs => HeldOurs'
    BY DEF HeldOurs, Mine
  <1>6. Echoed'
    BY <1>1, <1>2 DEF Echoed, Matched, Mine
  <1>7. Runs'
    BY <1>1, <1>3, <1>4, <1>5, RunsOn
  <1>8. QED
    BY <1>2, <1>6, <1>7 DEF SInv

\* The echo of a header: its last word is what receive_image now holds.
LEMMA EchoStep ==
    ASSUME IInv, SInv, GetCksum
    PROVE  SInv'
  <1> DEFINE ws == <<SOH, <<"szcrc", size>>, Word>>
  <1>1. Held /\ LinesOK /\ LostBytes /\ InPlace /\ Echoed /\ Runs
    BY DEF IInv, SInv
  <1>2. /\ HasWord(toPi) /\ toPi' = After(toPi) /\ cksum' = Word /\ Say(ws)
        /\ pPc = "cksum" /\ pPc' = "ack" /\ UNCHANGED <<ran, uPc, img, faults>>
    BY DEF GetCksum, Take, PiKeeps, unixVars
  <1>3. /\ ws \in Seq(LineWords) /\ Len(ws) = 3 /\ ws[1] = SOH /\ ws[2] = <<"szcrc", size>>
        /\ ws[3] = Word
    BY <1>1, <1>2, Answers
  <1> HIDE DEF ws
  <1>4. LostBytes' /\ InPlace'
    BY <1>1, <1>2, <1>3, SayLine
  <1>5. Won' => Won
    <2>1. ASSUME NEW j \in 1 .. Len(ws), ws[j] = ACK
          PROVE  j > 1 /\ ws[j - 1][1] # "crc"
      <3>1. j = 3
        <4>1. j = 1 \/ j = 2 \/ j = 3
          BY <1>3
        <4>2. SOH # ACK /\ <<"szcrc", size>> # ACK
          BY WordsDiffer
        <4>3. QED
          BY <1>3, <2>1, <4>1, <4>2
      <3>2. QED
        BY <1>3, <3>1, WordsDiffer
    <2>2. QED
      BY <1>1, <1>2, <1>3, <2>1, NothingWon
  <1>6. LineOurs => LineOurs' /\ HeldOurs'
    BY <1>1, <1>2, PiReads DEF HeldOurs, Mine
  <1>7. Echoed'
    <2>1. /\ Len(toUnix) \in Nat /\ Len(toUnix') = Len(toUnix) + 4 * Len(ws)
          /\ \A j \in 1 .. Len(ws) : toUnix'[Len(toUnix) + 4 * j] = <<ws[j], 4>>
      BY <1>1, <1>2, <1>3, SayLine
    <2>2. 3 \in 1 .. Len(ws) /\ toUnix'[Len(toUnix) + 4 * 3] = <<ws[3], 4>>
      BY <1>3, <2>1
    <2>3. toUnix'[Len(toUnix')] = <<cksum', 4>> /\ Len(toUnix') # 0
      <3>1. Len(toUnix') = Len(toUnix) + 12 /\ 4 * 3 = 12
        BY <1>3, <2>1
      <3>2. QED
        BY <1>2, <1>3, <2>1, <2>2, <3>1
    <2>4. QED
      BY <2>3 DEF Echoed
  <1>8. Runs'
    BY <1>1, <1>2, <1>5, <1>6, RunsOn
  <1>9. QED
    BY <1>4, <1>7, <1>8 DEF SInv

\* ACK is said: if it completes the answer that simple_boot waits for, the
\* checksum it follows is that of the image accepted.
LEMMA AcceptStep ==
    ASSUME IInv, SInv, pPc = "eot", HasWord(toPi), Accept(Word), Say(<<ACK>>), toPi' = <<>>,
           pPc' = "ran", ran' = Append(ran, mem), UNCHANGED <<uPc, img, faults>>
    PROVE  SInv'
  <1> DEFINE n == Len(toUnix)
             e == Matched
             ws == <<ACK>>
  <1>1. Held /\ LinesOK /\ LostBytes /\ InPlace /\ Echoed /\ Runs
    BY DEF IInv, SInv
  <1>2. ws \in Seq(LineWords) /\ Len(ws) = 1 /\ ws[1] = ACK
    BY <1>1, Answers
  <1>3. LostBytes' /\ InPlace'
    BY <1>1, <1>2, SayLine
  <1>4. Echoed'
    BY DEF Echoed
  <1>5. ASSUME Won'
        PROVE  cksum = Mine
    <2>1. CASE Won
      <3>1. LineOurs /\ HeldOurs
        BY <1>1, <2>1 DEF Runs
      <3>2. cksum[1] = "crc"
        BY DEF Accept, crc32
      <3>3. QED
        BY <3>1, <3>2 DEF HeldOurs
    <2>2. CASE ~Won
      <3>1. Matched' = e /\ Mine' = Mine /\ (Running' <=> Running)
        BY DEF Matched, Mine, Running
      <3>2. Pair' /\ ~Pair /\ Running
        BY <1>5, <2>2, <3>1 DEF Won
      <3>3. n \in Nat /\ e \in 0 .. 3 /\ Len(toUnix') = n + 4
        <4>1. n \in Nat /\ Len(toUnix') = n + 4 * Len(ws)
          BY <1>1, <1>2, SayLine
        <4>2. QED
          BY <1>2, <4>1, MatchedType
      <3>4. Aligned /\ \A k \in 1 .. n : toUnix'[k] = toUnix[k]
        BY <1>1, <1>2, <3>2, SayLine DEF Pair
      <3>5. /\ n + 4 >= 16 - 4 * e
            /\ e < 3 => toUnix'[12 - 4 * e] = <<Mine, 4>>
            /\ toUnix'[16 - 4 * e] = <<ACK, 4>>
        BY <3>1, <3>2, <3>3 DEF Pair
      <3>6. e < 3 => 12 - 4 * e \in 1 .. n /\ toUnix[12 - 4 * e] = <<Mine, 4>>
        BY <3>3, <3>4, <3>5
      <3>7. n < 16 - 4 * e
        <4>1. SUFFICES ASSUME n >= 16 - 4 * e PROVE FALSE
          BY <3>3
        <4>2. 16 - 4 * e \in 1 .. n
          BY <3>3, <4>1
        <4>3. toUnix[16 - 4 * e] = <<ACK, 4>>
          BY <3>4, <3>5, <4>2
        <4>4. QED
          BY <3>2, <3>4, <3>6, <4>1, <4>3 DEF Pair
      <3>8. n % 4 = 0
        BY <3>4 DEF Aligned
      <3>9. n = 12 - 4 * e
        <4> HIDE DEF n, e
        <4>1. QED
          BY <3>3, <3>5, <3>7, <3>8
      <3>10. CASE e < 3
        <4>1. toUnix[n] = <<Mine, 4>> /\ n > 0
          BY <3>3, <3>6, <3>9, <3>10
        <4>2. toUnix[n] = <<cksum, 4>>
          BY <1>1, <3>4, <4>1 DEF Echoed
        <4>3. QED
          BY <4>1, <4>2
      <3>11. CASE e = 3
        <4>1. n = 0
          BY <3>9, <3>11
        <4>2. QED
          BY <1>1, <3>4, <3>11, <4>1 DEF Echoed
      <3>12. QED
        BY <3>3, <3>10, <3>11
    <2>3. QED
      BY <2>1, <2>2
  <1>6. Runs'
    <2>1. SUFFICES ASSUME Won' PROVE ran' # <<>> /\ Last(ran') = img.code
      BY DEF Runs
    <2>2. mem = img.code
      BY <1>5, <2>1 DEF Accept, Mine, crc32
    <2>3. ran \in Seq(Seq(LineWords)) /\ mem \in Seq(LineWords)
      BY <1>1 DEF Held
    <2>4. ran' # <<>> /\ Last(ran') = mem
      BY <2>3 DEF Last
    <2>5. QED
      BY <2>2, <2>4
  <1>7. QED
    BY <1>3, <1>4, <1>6 DEF SInv

LEMMA SPiNext ==
    ASSUME IInv, SInv, PiStep
    PROVE  SInv'
  <1> USE DEF PiKeeps, unixVars
  <1>1. CASE GetSoh
    <2>1. /\ pPc = "soh" /\ HasWord(toPi) /\ toPi' = After(toPi)
          /\ UNCHANGED <<ran, uPc, img, faults>>
          /\ (pPc' = "size" /\ UNCHANGED toUnix) \/ (pPc' = "soh" /\ Say(<<NAK>>))
      BY <1>1 DEF GetSoh, Take
    <2>2. QED
      BY <2>1, NakSteps, SilentSteps
  <1>2. CASE GetSize
    BY <1>2, SilentSteps DEF GetSize, Take
  <1>3. CASE GetCksum
    BY <1>3, EchoStep
  <1>4. CASE GetAck
    <2>1. /\ pPc = "ack" /\ HasWord(toPi) /\ toPi' = After(toPi)
          /\ UNCHANGED <<ran, uPc, img, faults, cksum>>
          /\ UNCHANGED toUnix \/ (pPc' = "soh" /\ Say(<<NAK>>))
      BY <1>4 DEF GetAck, Take
    <2>2. QED
      BY <2>1, NakSteps, SilentSteps
  <1>5. CASE GetWord
    BY <1>5, SilentSteps DEF GetWord, Take
  <1>6. CASE GetEot
    <2>1. CASE Accept(Word) /\ Say(<<ACK>>) /\ toPi' = <<>> /\ pPc' = "ran" /\ ran' = Append(ran, mem)
      BY <1>6, <2>1, AcceptStep DEF GetEot
    <2>2. CASE Say(<<NAK>>) /\ toPi' = After(toPi) /\ pPc' = "soh" /\ UNCHANGED ran
      BY <1>6, <2>2, NakSteps DEF GetEot
    <2>3. QED
      BY <1>6, <2>1, <2>2 DEF GetEot
  <1>7. QED
    BY <1>1, <1>2, <1>3, <1>4, <1>5, <1>6 DEF PiStep

\* A call of simple_boot that is over has won nothing.
LEMMA Stopped ==
    ASSUME uPc' = "panic"
    PROVE  Runs' /\ Matched' = 0
  BY DEF Runs, Won, Running, Matched

\* What is left of the echo when simple_boot has read a word.
LEMMA EchoLeft ==
    ASSUME LinesOK, Echoed, HasWord(toUnix), toUnix' = After(toUnix), UNCHANGED <<pPc, cksum, img>>,
           Matched' = 3 => Aligned /\ toUnix[4] = <<Mine, 4>>
    PROVE  Echoed'
  <1> DEFINE n == Len(toUnix)
  <1>1. SUFFICES ASSUME pPc \in {"ack", "image", "eot"}, Aligned'
                 PROVE  /\ Len(toUnix') > 0 => toUnix'[Len(toUnix')] = <<cksum, 4>>
                        /\ Len(toUnix') = 0 /\ Matched' = 3 => cksum = Mine
    BY DEF Echoed, Mine
  <1>2. /\ n \in Nat /\ n >= 4 /\ Len(toUnix') = n - 4 /\ Aligned
        /\ \A k \in 1 .. n - 4 : toUnix'[k] = toUnix[k + 4]
    BY <1>1, AfterLine
  <1>3. toUnix[n] = <<cksum, 4>>
    BY <1>1, <1>2 DEF Echoed
  <1>4. ASSUME n - 4 > 0
        PROVE  toUnix'[n - 4] = <<cksum, 4>>
    <2>1. n - 4 \in 1 .. n - 4 /\ (n - 4) + 4 = n
      BY <1>2, <1>4
    <2>2. QED
      BY <1>2, <1>3, <2>1
  <1>5. ASSUME n - 4 = 0, Matched' = 3
        PROVE  cksum = Mine
    <2>1. n = 4
      <3> HIDE DEF n
      <3>1. QED
        BY <1>2, <1>5
    <2>2. <<cksum, 4>> = <<Mine, 4>>
      BY <1>3, <1>5, <2>1
    <2>3. QED
      BY <2>2
  <1>6. QED
    BY <1>2, <1>4, <1>5

\* simple_boot finds the word it expects and goes on: it had won before if it
\* has won now.
LEMMA ExpectOn ==
    ASSUME IInv, SInv, NEW v, v # Junk, HasWord(toUnix), toUnix' = After(toUnix),
           get_uint(toUnix) = v, UNCHANGED <<toPi, img, piVars, faults>>,
           Running, uPc' # "ok", Matched < 3, Matched' = Matched + 1, Matched = 2 => v = Mine
    PROVE  SInv'
  <1> DEFINE n == Len(toUnix)
             e == Matched
  <1>1. /\ LinesOK /\ LostBytes /\ InPlace /\ Echoed /\ Runs
        /\ UNCHANGED <<pPc, cksum, mem, ran>>
    BY DEF IInv, SInv, piVars
  <1>2. Aligned /\ toUnix[4] = <<v, 4>>
    BY <1>1, ReadInStep
  <1>3. /\ n \in Nat /\ n >= 4 /\ Len(toUnix') = n - 4 /\ LostBytes' /\ InPlace'
        /\ \A k \in 1 .. n - 4 : toUnix'[k] = toUnix[k + 4]
    BY <1>1, AfterLine
  <1>4. e \in 0 .. 2 /\ Mine' = Mine
    BY MatchedType DEF Mine
  <1>5. Echoed'
    <2>1. Matched' = 3 => Aligned /\ toUnix[4] = <<Mine, 4>>
      BY <1>2, <1>4
    <2>2. QED
      BY <1>1, <2>1, EchoLeft
  <1>6. Pair' => Pair
    <2>1. SUFFICES ASSUME Pair' PROVE Pair
      OBVIOUS
    <2>2. /\ n - 4 >= 16 - 4 * (e + 1)
          /\ e + 1 < 3 => toUnix'[12 - 4 * (e + 1)] = <<Mine, 4>>
          /\ toUnix'[16 - 4 * (e + 1)] = <<ACK, 4>>
      BY <1>3, <1>4, <2>1 DEF Pair
    <2>3. n >= 16 - 4 * e
      BY <1>3, <1>4, <2>2
    <2>4. toUnix[16 - 4 * e] = <<ACK, 4>>
      <3>1. 16 - 4 * (e + 1) \in 1 .. n - 4 /\ (16 - 4 * (e + 1)) + 4 = 16 - 4 * e
        BY <1>3, <1>4, <2>2
      <3>2. QED
        BY <1>3, <2>2, <3>1
    <2>5. toUnix[12 - 4 * e] = <<Mine, 4>>
      <3>1. CASE e = 2
        <4>1. 12 - 4 * e = 4
          BY <3>1
        <4>2. QED
          BY <1>2, <3>1, <4>1
      <3>2. CASE e < 2
        <4>1. /\ 12 - 4 * (e + 1) \in 1 .. n - 4 /\ (12 - 4 * (e + 1)) + 4 = 12 - 4 * e
              /\ e + 1 < 3
          BY <1>3, <1>4, <2>2, <3>2
        <4>2. QED
          BY <1>3, <2>2, <4>1
      <3>3. QED
        BY <1>4, <3>1, <3>2
    <2>6. QED
      BY <1>2, <2>3, <2>4, <2>5 DEF Pair
  <1>7. Won' => Won
    BY <1>6 DEF Won
  <1>8. Runs'
    BY <1>1, <1>7 DEF Runs, LineOurs, HeldOurs, Mine
  <1>9. QED
    BY <1>3, <1>5, <1>8 DEF SInv

\* The answer simple_boot has been waiting for.
LEMMA AckStep ==
    ASSUME IInv, SInv, uPc = "ack", uPc' = "ok", HasWord(toUnix), toUnix' = After(toUnix),
           get_uint(toUnix) = ACK, UNCHANGED <<toPi, img, piVars, faults>>
    PROVE  SInv'
  <1>1. /\ LinesOK /\ LostBytes /\ InPlace /\ Echoed /\ Runs
        /\ UNCHANGED <<pPc, cksum, mem, ran>>
    BY DEF IInv, SInv, piVars
  <1>2. Aligned /\ toUnix[4] = <<ACK, 4>>
    BY <1>1, ReadInStep, WordsDiffer
  <1>3. LostBytes' /\ InPlace' /\ Len(toUnix) >= 4
    BY <1>1, AfterLine
  <1>4. Matched = 3 /\ Matched' = 0 /\ 16 - 4 * 3 = 4
    BY DEF Matched
  <1>5. Won
    BY <1>2, <1>3, <1>4 DEF Won, Running, Pair
  <1>6. Runs'
    BY <1>1, <1>5 DEF Runs, LineOurs, HeldOurs, Mine
  <1>7. Echoed'
    BY <1>1, <1>4, EchoLeft
  <1>8. QED
    BY <1>3, <1>6, <1>7 DEF SInv

\* A word that is not the one expected ends the call.
LEMMA ExpectOff ==
    ASSUME IInv, SInv, HasWord(toUnix), toUnix' = After(toUnix), uPc' = "panic",
           UNCHANGED <<img, piVars, faults>>
    PROVE  SInv'
  <1>1. LinesOK /\ LostBytes /\ InPlace /\ Echoed /\ UNCHANGED <<pPc, cksum>>
    BY DEF IInv, SInv, piVars
  <1>2. LostBytes' /\ InPlace'
    BY <1>1, AfterLine
  <1>3. Runs' /\ Matched' = 0
    BY Stopped
  <1>4. Echoed'
    BY <1>1, <1>3, EchoLeft
  <1>5. QED
    BY <1>2, <1>3, <1>4 DEF SInv

\* A step of unix that reads nothing.
LEMMA SendKeeps ==
    ASSUME IInv, SInv, UNCHANGED <<toUnix, img, piVars>>, faults'.noise = faults.noise,
           \/ uPc' = "panic"
           \/ uPc' # "ok" /\ Running /\ Matched' = Matched /\ (LineOurs /\ pPc # "ran" => LineOurs')
    PROVE  SInv'
  <1>1. /\ LinesOK /\ LostBytes /\ InPlace /\ Echoed /\ Runs
        /\ UNCHANGED <<pPc, cksum, mem, ran>>
    BY DEF IInv, SInv, piVars
  <1>2. LostBytes' /\ InPlace' /\ (Aligned' <=> Aligned)
    BY <1>1, QuietLine
  <1>3. Matched' # 3 \/ Matched' = Matched
    BY Stopped
  <1>4. Echoed'
    BY <1>1, <1>2, <1>3 DEF Echoed, Mine
  <1>5. Runs'
    <2>1. CASE uPc' = "panic"
      BY <2>1, Stopped
    <2>2. CASE uPc' # "ok" /\ Running /\ Matched' = Matched /\ (LineOurs /\ pPc # "ran" => LineOurs')
      <3>1. Pair' => Pair
        BY <1>2, <2>2 DEF Pair, Mine
      <3>2. Won' => Won
        BY <2>2, <3>1 DEF Won
      <3>3. HeldOurs => HeldOurs'
        BY <1>1 DEF HeldOurs, Mine
      <3>4. QED
        BY <1>1, <2>2, <3>2, <3>3 DEF Runs
    <2>3. QED
      BY <2>1, <2>2
  <1>6. QED
    BY <1>2, <1>4, <1>5 DEF SInv

\* Words sent whose only checksum is that of the image shipped.
LEMMA SentOurs ==
    ASSUME LinesOK, LineOurs, NEW ws \in Seq(LineWords), toPi' = Deliver(Bytes(ws)), img' = img,
           \A j \in 1 .. Len(ws) : ws[j][1] = "crc" => ws[j] = Mine
    PROVE  LineOurs'
  <1> DEFINE b == Bytes(ws)
             n == Len(toPi)
             m == 4 * Len(ws)
  <1>1. /\ toPi \in Seq(LineBytes) /\ n \in Nat /\ b \in Seq(LineBytes) /\ Len(b) = m /\ m \in Nat
        /\ \A k \in 1 .. m : \E j \in 1 .. Len(ws) : b[k][1] = ws[j]
    BY BytesType, BytesOf DEF LinesOK
  <1> HIDE DEF b, m
  <1>2. CASE toPi' = toPi
    BY <1>2 DEF LineOurs, Mine
  <1>3. CASE toPi' = toPi \o b
    <2>1. ASSUME NEW k \in DOMAIN toPi', toPi'[k][1][1] = "crc"
          PROVE  toPi'[k][1] = Mine
      <3>1. k \in 1 .. n + m
        BY <1>1, <1>3
      <3>2. CASE k \in 1 .. n
        <4>1. toPi'[k] = toPi[k] /\ k \in DOMAIN toPi
          BY <1>1, <1>3, <3>2, ConcatLine
        <4>2. QED
          BY <2>1, <4>1 DEF LineOurs
      <3>3. CASE k \notin 1 .. n
        <4>1. k - n \in 1 .. m /\ n + (k - n) = k
          BY <1>1, <3>1, <3>3
        <4>2. toPi'[n + (k - n)] = b[k - n]
          BY <1>1, <1>3, <4>1, ConcatLine
        <4>3. PICK j \in 1 .. Len(ws) : b[k - n][1] = ws[j]
          BY <1>1, <4>1
        <4>4. toPi'[k][1] = ws[j]
          BY <4>1, <4>2, <4>3
        <4>5. QED
          BY <2>1, <4>4
      <3>4. QED
        BY <3>2, <3>3
    <2>2. QED
      BY <2>1 DEF LineOurs, Mine
  <1>4. QED
    BY <1>2, <1>3 DEF Deliver, b

LEMMA SUnixNext ==
    ASSUME IInv, SInv, NoForeignCksums, StaleMax < 16, Install \/ UnixStep \/ Kill
    PROVE  SInv'
  <1>1. /\ Held /\ LinesOK /\ LostBytes /\ InPlace /\ Echoed /\ Runs
        /\ faults \in Faults /\ img \in Images
    BY DEF IInv, SInv, Held, OncePerBoot
  <1>2. CASE Install
    <2>1. /\ uPc' = "sleep" /\ UNCHANGED <<pPc, cksum, mem, ran, faults>>
          /\ toUnix' = <<>> \/ (UNCHANGED toUnix /\ Len(toUnix) <= StaleMax)
      BY <1>2 DEF Install, piVars
    <2>2. Len(toUnix') < 16 /\ Matched' = 0
      <3>1. Len(toUnix) \in Nat /\ StaleMax \in Nat
        BY <1>1, BootAssumption DEF LinesOK
      <3>2. Len(<<>>) = 0
        BY EmptyLine
      <3>3. Len(toUnix') < 16
        BY <2>1, <3>1, <3>2
      <3>4. QED
        BY <2>1, <3>3 DEF Matched
    <2>3. ~Won'
      <3>1. Len(toUnix') \in Nat
        BY <1>1, <2>1, EmptyLine DEF LinesOK
      <3>2. ~Pair'
        BY <2>2, <3>1 DEF Pair
      <3>3. QED
        BY <2>1, <3>2 DEF Won
    <2>4. LostBytes' /\ InPlace' /\ Echoed'
      <3>1. CASE UNCHANGED toUnix
        BY <1>1, <2>1, <2>2, <3>1 DEF LostBytes, InPlace, Echoed, Aligned
      <3>2. CASE toUnix' = <<>>
        <4>1. Len(toUnix') = 0
          BY <3>2, EmptyLine
        <4>2. Aligned' /\ LostBytes' /\ InPlace'
          BY <1>1, <2>1, <4>1 DEF LostBytes, InPlace, Aligned
        <4>3. Echoed'
          BY <2>2, <4>1 DEF Echoed
        <4>4. QED
          BY <4>2, <4>3
      <3>3. QED
        BY <2>1, <3>1, <3>2
    <2>5. QED
      BY <2>3, <2>4 DEF SInv, Runs
  <1>3. CASE Wake
    <2>1. faults'.noise = faults.noise
      BY <1>1, <1>3 DEF Wake, Second, Faults
    <2>2. /\ uPc = "sleep" /\ UNCHANGED <<toPi, toUnix, img, piVars>>
          /\ uPc' = "panic" \/ uPc' = "header"
      BY <1>3 DEF Wake
    <2>3. Running /\ (uPc' = "header" => Matched' = Matched) /\ (LineOurs => LineOurs')
      BY <2>2 DEF Running, Matched, LineOurs, Mine
    <2>4. QED
      BY <2>1, <2>2, <2>3, SendKeeps
  <1>4. CASE SendHeader
    <2> DEFINE ws == <<SOH, <<"num", img.n>>, Mine>>
    <2>1. ws \in Seq(LineWords) /\ Len(ws) = 3 /\ ws[1] = SOH /\ ws[2] = <<"num", img.n>> /\ ws[3] = Mine
      BY <1>1, ProtocolWords DEF Mine
    <2>2. toPi' = Deliver(Bytes(ws)) /\ uPc = "header" /\ uPc' = "soh"
          /\ UNCHANGED <<toUnix, img, piVars, faults>>
      BY <1>4 DEF SendHeader, Header, Mine
    <2> HIDE DEF ws
    <2>3. ASSUME NEW j \in 1 .. Len(ws), ws[j][1] = "crc"
          PROVE  ws[j] = Mine
      <3>1. j = 1 \/ j = 2 \/ j = 3
        BY <2>1
      <3>2. QED
        BY <2>1, <2>3, <3>1, WordsDiffer
    <2>4. LineOurs => LineOurs'
      BY <1>1, <2>1, <2>2, <2>3, SentOurs
    <2>5. Running /\ Matched' = Matched
      BY <2>2 DEF Running, Matched
    <2>6. QED
      BY <2>2, <2>4, <2>5, SendKeeps
  <1>5. CASE SendBody
    <2> DEFINE ws == <<ACK>> \o img.code \o <<EOT>>
    <2>1. img.code \in Seq(LineWords) /\ <<ACK>> \in Seq(LineWords) /\ <<EOT>> \in Seq(LineWords)
      BY <1>1, CodeWords, ProtocolWords
    <2>2. ws \in Seq(LineWords) /\ Len(ws) = Len(img.code) + 2
      BY <2>1
    <2>3. ASSUME NEW j \in 1 .. Len(ws), ws[j][1] = "crc"
          PROVE  ws[j] = Mine
      <3>1. j = 1 => ws[j] = ACK
        BY <2>1, <2>2
      <3>2. j = Len(img.code) + 2 => ws[j] = EOT
        BY <2>1, <2>2
      <3>3. j \notin {1, Len(img.code) + 2} => j - 1 \in 1 .. Len(img.code) /\ ws[j] = img.code[j - 1]
        BY <2>1, <2>2
      <3>4. j \notin {1, Len(img.code) + 2}
        BY <2>3, <3>1, <3>2, WordsDiffer
      <3>5. ws[j] \in Range(img.code)
        BY <2>1, <3>3, <3>4 DEF Range
      <3>6. QED
        BY <1>1, <2>3, <3>5 DEF NoForeignCksums, Mine
    <2>4. /\ toPi' = Deliver(Bytes(ws)) /\ uPc = "body" /\ uPc' = "ack"
          /\ UNCHANGED <<toUnix, img, piVars, faults>>
      BY <1>5 DEF SendBody, Body
    <2> HIDE DEF ws
    <2>5. LineOurs => LineOurs'
      BY <1>1, <2>2, <2>3, <2>4, SentOurs
    <2>6. Running /\ Matched' = Matched
      BY <2>4 DEF Running, Matched
    <2>7. QED
      BY <2>4, <2>5, <2>6, SendKeeps
  <1>6. ASSUME NEW at, NEW v, NEW next, expect(at, v, next), v # Junk, next # "ok",
               uPc = at => Running /\ Matched < 3 /\ (Matched = 2 => v = Mine),
               uPc = at /\ uPc' = next => Matched' = Matched + 1
        PROVE  SInv'
    <2>1. CASE get_uint(toUnix) = v
      BY <1>6, <2>1, ExpectOn DEF expect
    <2>2. CASE get_uint(toUnix) # v
      BY <1>6, <2>2, ExpectOff DEF expect
    <2>3. QED
      BY <2>1, <2>2
  <1>7. CASE ExpectSoh
    <2>1. /\ uPc = "soh" => Running /\ Matched < 3 /\ (Matched = 2 => SOH = Mine)
          /\ uPc = "soh" /\ uPc' = "size" => Matched' = Matched + 1
      BY DEF Running, Matched
    <2>2. QED
      BY <1>6, <1>7, <2>1, WordsDiffer DEF ExpectSoh
  <1>8. CASE ExpectSize
    <2>1. /\ uPc = "size" => Running /\ Matched < 3 /\ (Matched = 2 => <<"szcrc", img.n>> = Mine)
          /\ uPc = "size" /\ uPc' = "code" => Matched' = Matched + 1
      BY DEF Running, Matched
    <2>2. <<"szcrc", img.n>> # Junk
      BY WordsDiffer
    <2>3. QED
      BY <1>6, <1>8, <2>1, <2>2 DEF ExpectSize
  <1>9. CASE ExpectCksum
    <2>1. /\ uPc = "code" => Running /\ Matched < 3
          /\ uPc = "code" /\ uPc' = "body" => Matched' = Matched + 1
      BY DEF Running, Matched
    <2>2. Mine # Junk /\ expect("code", Mine, "body")
      BY <1>9, WordsDiffer DEF ExpectCksum, Mine
    <2>3. QED
      BY <1>6, <2>1, <2>2
  <1>10. CASE ExpectAck
    BY <1>10, AckStep, ExpectOff DEF ExpectAck, expect
  <1>11. CASE Timeout
    <2>1. faults'.noise = faults.noise
      BY <1>1, <1>11 DEF Timeout, Second, Faults
    <2>2. uPc' = "panic" /\ toUnix' = <<>> /\ Len(toUnix') = 0
      BY <1>11, EmptyLine DEF Timeout
    <2>3. Runs' /\ Matched' = 0
      BY <2>2, Stopped
    <2>4. LostBytes' /\ InPlace'
      BY <1>1, <2>1, <2>2 DEF LostBytes, InPlace, Aligned
    <2>5. Echoed'
      BY <2>2, <2>3 DEF Echoed
    <2>6. QED
      BY <2>3, <2>4, <2>5 DEF SInv
  <1>12. CASE Kill
    <2>1. faults'.noise = faults.noise
      BY <1>1, <1>12 DEF Kill, Faults
    <2>2. QED
      BY <1>12, <2>1, SendKeeps DEF Kill
  <1>13. QED
    BY <1>2, <1>3, <1>4, <1>5, <1>7, <1>8, <1>9, <1>10, <1>11, <1>12 DEF UnixStep

LEMMA OneLess ==
    ASSUME NEW n \in Nat, n > 0
    PROVE  n % 4 \in 0 .. 3 /\ (n - 1) % 4 = IF n % 4 = 0 THEN 3 ELSE (n % 4) - 1
  OBVIOUS

\* A damaged line: its first byte is gone, or is one of junk.
LEMMA NoisyLine ==
    ASSUME NEW line \in Seq(LineBytes), line # <<>>, NEW l \in Noisy(line)
    PROVE  /\ Len(line) \in Nat /\ Len(line) > 0 /\ l \in Seq(LineBytes)
           /\ \/ Len(l) = Len(line) - 1 /\ \A k \in 1 .. Len(l) : l[k] = line[k + 1]
              \/ /\ Len(l) = Len(line) /\ l[1] = <<Junk, 1>>
                 /\ \A k \in 2 .. Len(l) : l[k] = line[k]
  <1>1. Len(line) \in Nat /\ Len(line) > 0 /\ l \in Seq(LineBytes)
    BY NoisyType
  <1>2. CASE l = Tail(line)
    BY <1>1, <1>2
  <1>3. CASE l = <<<<Junk, 1>>>> \o Tail(line)
    <2> DEFINE t == Tail(line)
               h == <<<<Junk, 1>>>>
    <2>1. /\ t \in Seq(LineBytes) /\ Len(t) = Len(line) - 1
          /\ \A k \in 1 .. Len(line) - 1 : t[k] = line[k + 1]
      BY <1>1
    <2>2. h \in Seq(LineBytes) /\ Len(h) = 1 /\ h[1] = <<Junk, 1>>
      BY ProtocolWords DEF LineBytes
    <2> HIDE DEF t, h
    <2>3. l = h \o t
      BY <1>3 DEF t, h
    <2>4. /\ Len(l) = Len(h) + Len(t)
          /\ \A k \in 1 .. Len(h) : l[k] = h[k]
          /\ \A k \in 1 .. Len(t) : l[Len(h) + k] = t[k]
      <3>1. /\ Len(h \o t) = Len(h) + Len(t)
            /\ \A k \in 1 .. Len(h) : (h \o t)[k] = h[k]
            /\ \A k \in 1 .. Len(t) : (h \o t)[Len(h) + k] = t[k]
        <4>1. h \in Seq(LineBytes) /\ t \in Seq(LineBytes)
          BY <2>1, <2>2
        <4>2. QED
          BY ONLY <4>1, ConcatLine
      <3>2. QED
        BY <2>3, <3>1, Zenon
    <2>5. Len(l) = Len(line) /\ l[1] = <<Junk, 1>>
      BY <1>1, <2>1, <2>2, <2>4
    <2>6. ASSUME NEW k \in 2 .. Len(l)
          PROVE  l[k] = line[k]
      <3>1. k - 1 \in 1 .. Len(line) - 1 /\ 1 + (k - 1) = k /\ (k - 1) + 1 = k
        BY <1>1, <2>5
      <3>2. l[1 + (k - 1)] = t[k - 1] /\ t[k - 1] = line[(k - 1) + 1]
        BY <2>1, <2>2, <2>4, <3>1
      <3>3. QED
        BY <3>1, <3>2
    <2>7. QED
      BY <1>1, <2>5, <2>6
  <1>4. QED
    BY <1>2, <1>3 DEF Noisy

LEMMA SFaultNext ==
    ASSUME IInv, SInv, MaxNoise < 4, Reset \/ Noise
    PROVE  SInv'
  <1>1. /\ Held /\ LinesOK /\ LostBytes /\ InPlace /\ Echoed /\ Runs
        /\ faults \in Faults /\ toUnix \in Seq(LineBytes) /\ toPi \in Seq(LineBytes)
        /\ MaxNoise \in Nat
    BY BootAssumption DEF IInv, SInv, OncePerBoot, LinesOK
  <1>2. CASE Reset
    <2>1. /\ faults'.noise = faults.noise /\ toPi' = <<>> /\ pPc' = "soh"
          /\ UNCHANGED <<toUnix, uPc, img, ran>>
      BY <1>1, <1>2 DEF Reset, Faults, unixVars
    <2>2. LostBytes' /\ InPlace'
      BY <1>1, <2>1, QuietLine
    <2>3. LineOurs' /\ HeldOurs' /\ Echoed'
      BY <2>1, EmptyLine DEF LineOurs, HeldOurs, Echoed
    <2>4. Won' => Won
      BY <2>1, QuietWon
    <2>5. Runs'
      BY <1>1, <2>1, <2>3, <2>4 DEF Runs
    <2>6. QED
      BY <2>2, <2>3, <2>5 DEF SInv
  <1>3. CASE Noise
    <2>1. /\ faults'.noise = faults.noise + 1 /\ faults.noise \in Nat /\ faults.noise < MaxNoise
          /\ UNCHANGED <<uPc, img, pPc, size, cksum, mem, ran>>
      BY <1>1, <1>3 DEF Noise, Faults, unixVars, piVars
    <2>2. HeldOurs => HeldOurs'
      BY <2>1 DEF HeldOurs, Mine
    <2>3. CASE toPi # <<>> /\ toPi' \in Noisy(toPi) /\ UNCHANGED toUnix
      <3>1. LostBytes'
        <4>1. Len(toUnix) % 4 \in 0 .. 3
          BY <1>1
        <4>2. QED
          BY <1>1, <2>1, <2>3, <4>1 DEF LostBytes, Aligned
      <3>2. InPlace' /\ Echoed'
        BY <1>1, <2>1, <2>3 DEF InPlace, Echoed, Aligned, Matched, Mine
      <3>3. Won' => Won
        BY <2>1, <2>3, QuietWon
      <3>4. LineOurs => LineOurs'
        <4>1. SUFFICES ASSUME LineOurs, NEW k \in DOMAIN toPi', toPi'[k][1][1] = "crc"
                       PROVE  toPi'[k][1] = Mine
          BY <2>1 DEF LineOurs, Mine
        <4>2. /\ Len(toPi) \in Nat /\ Len(toPi) > 0 /\ toPi' \in Seq(LineBytes)
              /\ \/ Len(toPi') = Len(toPi) - 1 /\ \A i \in 1 .. Len(toPi') : toPi'[i] = toPi[i + 1]
                 \/ /\ Len(toPi') = Len(toPi) /\ toPi'[1] = <<Junk, 1>>
                    /\ \A i \in 2 .. Len(toPi') : toPi'[i] = toPi[i]
          BY <1>1, <2>3, NoisyLine
        <4>3. k \in 1 .. Len(toPi') /\ DOMAIN toPi = 1 .. Len(toPi)
          BY <1>1, <4>2
        <4>4. toPi'[k] = <<Junk, 1>> \/ \E i \in DOMAIN toPi : toPi'[k] = toPi[i]
          <5>1. CASE Len(toPi') = Len(toPi) - 1 /\ \A i \in 1 .. Len(toPi') : toPi'[i] = toPi[i + 1]
            <6>1. toPi'[k] = toPi[k + 1] /\ k \in 1 .. Len(toPi) - 1
              BY <4>3, <5>1
            <6>2. k + 1 \in 1 .. Len(toPi)
              BY <4>2, <6>1
            <6>3. k + 1 \in DOMAIN toPi
              BY <4>3, <6>2
            <6>4. QED
              BY <6>1, <6>3
          <5>2. CASE /\ Len(toPi') = Len(toPi) /\ toPi'[1] = <<Junk, 1>>
                     /\ \A i \in 2 .. Len(toPi') : toPi'[i] = toPi[i]
            <6>1. k = 1 \/ k \in 2 .. Len(toPi')
              <7>1. k \in 1 .. Len(toPi)
                BY <4>3, <5>2
              <7>2. k = 1 \/ k \in 2 .. Len(toPi)
                BY <4>2, <7>1
              <7>3. QED
                BY <5>2, <7>2
            <6>2. QED
              BY <4>3, <5>2, <6>1
          <5>3. QED
            BY <4>2, <5>1, <5>2
        <4>5. CASE toPi'[k] = <<Junk, 1>>
          <5>1. toPi'[k][1] = Junk
            BY <4>5
          <5>2. QED
            BY <4>1, <5>1, WordsDiffer
        <4>6. CASE \E i \in DOMAIN toPi : toPi'[k] = toPi[i]
          BY <4>1, <4>6 DEF LineOurs
        <4>7. QED
          BY <4>4, <4>5, <4>6
      <3>5. Runs'
        BY <1>1, <2>1, <2>2, <3>3, <3>4 DEF Runs
      <3>6. QED
        BY <3>1, <3>2, <3>5 DEF SInv
    <2>4. CASE toUnix # <<>> /\ toUnix' \in Noisy(toUnix) /\ UNCHANGED toPi
      <3> DEFINE n == Len(toUnix)
      <3>1. /\ n \in Nat /\ n > 0 /\ toUnix' \in Seq(LineBytes)
            /\ \/ Len(toUnix') = n - 1 /\ \A k \in 1 .. Len(toUnix') : toUnix'[k] = toUnix[k + 1]
               \/ /\ Len(toUnix') = n /\ toUnix'[1] = <<Junk, 1>>
                  /\ \A k \in 2 .. Len(toUnix') : toUnix'[k] = toUnix[k]
        BY <1>1, <2>4, NoisyLine
      <3>2. LineOurs => LineOurs'
        BY <2>1, <2>4 DEF LineOurs, Mine
      <3>3. faults'.noise <= MaxNoise
        BY <1>1, <2>1
      <3>4. n % 4 # 0 => 4 - (n % 4) <= faults.noise
        BY <1>1 DEF LostBytes, Aligned
      <3>5. CASE Len(toUnix') = n - 1 /\ \A k \in 1 .. Len(toUnix') : toUnix'[k] = toUnix[k + 1]
        <4>1. (n - 1) % 4 # 0 /\ 4 - ((n - 1) % 4) <= faults.noise + 1
          <5> DEFINE f == faults.noise
          <5>1. f \in Nat /\ f <= 2 /\ (n % 4 # 0 => 4 - (n % 4) <= f)
            BY <1>1, <2>1, <3>4
          <5> HIDE DEF n, f
          <5>2. (n - 1) % 4 # 0 /\ 4 - ((n - 1) % 4) <= f + 1
            <6>1. n % 4 \in 0 .. 3 /\ (n - 1) % 4 = IF n % 4 = 0 THEN 3 ELSE (n % 4) - 1
              BY <3>1, OneLess
            <6>2. QED
              BY <5>1, <6>1
          <5>3. QED
            BY <5>2 DEF f
        <4>2. ~Aligned' /\ LostBytes'
          BY <2>1, <3>3, <3>5, <4>1 DEF LostBytes, Aligned
        <4>3. InPlace'
          <5>1. ASSUME NEW k \in 2 .. n - 1
                PROVE  toUnix'[k][2] = 4 - ((n - 1 - k) % 4)
            <6>1. k \in 1 .. n - 1 /\ k + 1 \in 2 .. n /\ n - (k + 1) = n - 1 - k
              BY <3>1
            <6>2. toUnix[k + 1][2] = 4 - ((n - (k + 1)) % 4)
              BY <1>1, <6>1 DEF InPlace
            <6>3. QED
              BY <3>5, <6>1, <6>2
          <5>2. QED
            BY <3>5, <5>1 DEF InPlace
        <4>4. Echoed' /\ ~Pair'
          BY <4>2 DEF Echoed, Pair
        <4>5. Won' => Won
          BY <2>1, <4>4 DEF Won
        <4>6. Runs'
          BY <1>1, <2>1, <2>2, <3>2, <4>5 DEF Runs
        <4>7. QED
          BY <4>2, <4>3, <4>4, <4>6 DEF SInv
      <3>6. CASE /\ Len(toUnix') = n /\ toUnix'[1] = <<Junk, 1>>
                 /\ \A k \in 2 .. Len(toUnix') : toUnix'[k] = toUnix[k]
        <4>1. /\ n % 4 \in 0 .. 3 /\ (Aligned' <=> Aligned) /\ (Aligned => n >= 4)
              /\ Matched' = Matched /\ Mine' = Mine /\ (Running' <=> Running)
          BY <2>1, <3>1, <3>6 DEF Aligned, Matched, Mine, Running
        <4>2. LostBytes'
          <5>1. n % 4 # 0 => 4 - (n % 4) <= faults.noise + 1
            BY <2>1, <3>4, <4>1
          <5>2. QED
            BY <2>1, <3>3, <3>6, <5>1 DEF LostBytes, Aligned
        <4>3. InPlace'
          BY <1>1, <3>1, <3>6 DEF InPlace
        <4>4. Echoed'
          <5>1. SUFFICES ASSUME pPc \in {"ack", "image", "eot"}, Aligned
                         PROVE  n > 0 => toUnix'[n] = <<cksum, 4>>
            BY <2>1, <3>1, <3>6, <4>1 DEF Echoed
          <5>2. n \in 2 .. n
            BY <3>1, <4>1, <5>1
          <5>3. QED
            BY <1>1, <3>1, <3>6, <5>1, <5>2 DEF Echoed
        <4>5. Pair' => Pair
          <5>1. SUFFICES ASSUME Pair' PROVE Pair
            OBVIOUS
          <5>2. /\ Aligned /\ n >= 16 - 4 * Matched
                /\ Matched < 3 => toUnix'[12 - 4 * Matched] = <<Mine, 4>>
                /\ toUnix'[16 - 4 * Matched] = <<ACK, 4>>
            BY <3>6, <4>1, <5>1 DEF Pair
          <5>3. 16 - 4 * Matched \in 2 .. n /\ (Matched < 3 => 12 - 4 * Matched \in 2 .. n)
            BY <3>1, <5>2, MatchedType
          <5>4. QED
            BY <3>6, <5>2, <5>3 DEF Pair
        <4>6. Won' => Won
          BY <2>1, <4>1, <4>5 DEF Won
        <4>7. Runs'
          BY <1>1, <2>1, <2>2, <3>2, <4>6 DEF Runs
        <4>8. QED
          BY <4>2, <4>3, <4>4, <4>7 DEF SInv
      <3>7. QED
        BY <3>1, <3>5, <3>6
    <2>5. QED
      BY <1>3, <2>3, <2>4 DEF Noise
  <1>4. QED
    BY <1>2, <1>3

\* When my-install reports success the pi has branched to the image this call
\* shipped, not to one left over from an earlier, interrupted call: for all
\* images that do not hold another's checksum, any kills, timeouts and power
\* cycles, as long as the tty keeps fewer bytes than a whole answer (four
\* words) and the line damages fewer than the bytes of a word.
THEOREM SuccessIsThisImageCorrect ==
    ASSUME NoForeignCksums, StaleMax < 16, MaxNoise < 4
    PROVE  Spec => []SuccessIsThisImage
  <1>1. Init => SInv
    <2>1. SUFFICES ASSUME Init PROVE SInv
      OBVIOUS
    <2>2. Len(toUnix) = 0 /\ faults.noise = 0 /\ MaxNoise \in Nat /\ pPc = "soh" /\ uPc = "idle"
      BY <2>1, EmptyLine, BootAssumption DEF Init
    <2>3. QED
      BY <2>2 DEF SInv, LostBytes, Aligned, InPlace, Echoed, Runs, Won, Running
  <1>2. IInv /\ SInv /\ [Next]_vars => SInv'
    <2>1. SUFFICES ASSUME IInv, SInv, [Next]_vars PROVE SInv'
      OBVIOUS
    <2>2. CASE UNCHANGED vars
      BY <2>1, <2>2 DEF vars, SInv, LostBytes, Aligned, InPlace, Echoed, Runs, Won, Running, Pair,
                        Matched, Mine, LineOurs, HeldOurs
    <2>3. QED
      BY <2>1, <2>2, SUnixNext, SPiNext, SFaultNext DEF Next
  <1>3. SInv => SuccessIsThisImage
    BY DEF SInv, Runs, Won, SuccessIsThisImage
  <1>4. QED
    BY <1>1, <1>2, <1>3, Inductive, PTL DEF Spec
=============================================================================
