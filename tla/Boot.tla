-------------------------------- MODULE Boot --------------------------------
(* Shipping a kernel image over the serial line: simple_boot of the unix     *)
(* side (run by my-install) and receive_image of the pi's bootloader.  A     *)
(* 32-bit word crosses the line as four bytes, and each side takes the next  *)
(* four it finds: a word cut short shifts the framing of all that follow.    *)
(* A word is a tuple: <<"soh">>, <<"num", n>> (sizes; ACK, NAK and EOT are   *)
(* the numbers 5, 6 and 7), <<"crc", size, code>>, <<"szcrc", size>>,        *)
(* <<"code", c>>, or <<"junk">> for bytes of different words; an image may   *)
(* hold any of them.  Checksums of different data differ, and junk equals no *)
(* word a side waits for.                                                    *)
(* Operators whose names begin with M and a capital are faulty variants of   *)
(* the definition that follows them: they test the properties.               *)
EXTENDS Integers, Sequences, SequencesExt, FiniteSets

CONSTANTS
    Images,       \* the images given to my-install: [n |-> bytes, code |-> words]
    StaleMax,     \* unread bytes of an earlier my-install that the tty may keep
    CutWords,     \* may my-install be killed in the middle of a word?
    MaxKills,     \* bound on kills of my-install
    MaxLate,      \* bound on seconds that pass while the pi has work to do
    MaxResets,    \* bound on power cycles of the pi
    MaxNoise,     \* bound on bytes lost or garbled on the line
    LineMax       \* bound on bytes waiting for the pi when my-install starts

ASSUME BootAssumption ==
    /\ CutWords \in BOOLEAN
    /\ {MaxKills, MaxLate, MaxResets, MaxNoise, LineMax, StaleMax} \subseteq Nat
    /\ \A m \in Images : m.n \in Nat

VARIABLES
    toPi, toUnix,    \* the bytes under way: <<word, which of its four bytes>>
    uPc, img,        \* where simple_boot is, and the image it ships
    pPc,             \* where the bootloader is
    size, cksum,     \* the header receive_image has read
    mem,             \* the words at ARMBASE
    ran,             \* the images the pi has branched to, in order
    faults           \* [kill, late, reset, noise]

unixVars == <<uPc, img>>
piVars   == <<pPc, size, cksum, mem, ran>>
vars     == <<toPi, toUnix, uPc, img, pPc, size, cksum, mem, ran, faults>>
-----------------------------------------------------------------------------
(* Words and bytes *)

SOH == <<"soh">>
ACK == <<"num", 5>>
NAK == <<"num", 6>>
EOT == <<"num", 7>>
Junk == <<"junk">>
Huge == 2^28

crc32(code, n) == <<"crc", n, code>>

\* The bytes of words: byte k is one of the four of word (k - 1) \div 4 + 1.
Bytes(words) == [k \in 1 .. 4 * Len(words) |->
                   <<words[((k - 1) \div 4) + 1], ((k - 1) % 4) + 1>>]

\* get_uint: the next four bytes of a line, and the line after them.
HasWord(line) == Len(line) >= 4
get_uint(line) == IF \A j \in 1 .. 4 : line[j] = <<line[1][1], j>>
                  THEN line[1][1] ELSE Junk
After(line) == SubSeq(line, 5, Len(line))

\* The values a word may have when it is read as a size.
Sizes == {m.n : m \in Images} \cup {0, Huge}
Numbers == Sizes \cup {5, 6, 7}

\* Images are data: a word of one that happens to be a checksum is that of an
\* image, and one that reads as a number of the protocol is one in use.
ASSUME ImageAssumption ==
    \A m \in Images :
        /\ m.code \in Seq(Range(m.code))
        /\ \A w \in Range(m.code) :
             /\ w[1] = "crc" => \E i \in Images : w = crc32(i.code, i.n)
             /\ w[1] = "num" => w[2] \in Numbers
AsSize(w) == CASE w[1] = "num" -> {w[2]}
               [] w[1] = "soh" -> {Huge}
               [] OTHER -> Sizes

\* The line delivers to a running bootloader; what reaches a pi that has
\* branched to its image is the image's own input.
Deliver(bytes) == IF pPc = "ran" THEN toPi ELSE toPi \o bytes
-----------------------------------------------------------------------------
(* Unix: simple-boot.c, install.c *)

Running == uPc \notin {"idle", "ok", "panic"}

Header == Bytes(<<SOH, <<"num", img.n>>, crc32(img.code, img.n)>>)
Body   == Bytes(<<ACK>> \o img.code \o <<EOT>>)

\* A second is enough for the pi to deal with all it has been sent, except
\* for MaxLate times.
PiReady == pPc # "ran" /\ HasWord(toPi)
Second ==
    /\ PiReady => faults.late < MaxLate
    /\ faults' = IF PiReady THEN [faults EXCEPT !.late = @ + 1] ELSE faults

\* my-install: read the image, open the tty, sleep for a second.  The loop that
\* would drain the tty after that is compiled out.
Install ==
    /\ ~Running /\ Len(toPi) <= LineMax
    /\ img' \in Images
    /\ uPc' = "sleep"
    /\ \/ toUnix # <<>> /\ Len(toUnix) <= StaleMax /\ UNCHANGED toUnix
       \/ toUnix' = <<>>
    /\ UNCHANGED <<toPi, piVars, faults>>

\* simple_boot refuses an image that is not a whole number of words.
Wake ==
    /\ uPc = "sleep" /\ Second
    /\ uPc' = IF img.n % 4 = 0 THEN "header" ELSE "panic"
    /\ UNCHANGED <<toPi, toUnix, img, piVars>>

SendHeader ==
    /\ uPc = "header"
    /\ toPi' = Deliver(Header)
    /\ uPc' = "soh"
    /\ UNCHANGED <<toUnix, img, piVars, faults>>

\* expect: a word that is not v is answered with NAK, and my-install dies.
MExpectAny(at, v, next) ==
    /\ uPc = at /\ HasWord(toUnix)
    /\ toUnix' = After(toUnix)
    /\ uPc' = next
    /\ UNCHANGED <<toPi, img, piVars, faults>>
expect(at, v, next) ==
    /\ uPc = at /\ HasWord(toUnix)
    /\ toUnix' = After(toUnix)
    /\ \/ /\ get_uint(toUnix) = v
          /\ uPc' = next /\ UNCHANGED toPi
       \/ /\ get_uint(toUnix) # v
          /\ uPc' = "panic" /\ toPi' = Deliver(Bytes(<<NAK>>))
    /\ UNCHANGED <<img, piVars, faults>>

ExpectSoh   == expect("soh", SOH, "size")
ExpectSize  == expect("size", <<"szcrc", img.n>>, "code")
ExpectCksum == expect("code", crc32(img.code, img.n), "body")
ExpectAck   == expect("ack", ACK, "ok")

SendBody ==
    /\ uPc = "body"
    /\ toPi' = Deliver(Body)
    /\ uPc' = "ack"
    /\ UNCHANGED <<toUnix, img, piVars, faults>>

\* get_byte: no byte within a second (VTIME).  The bytes of an unfinished word
\* are gone.
Timeout ==
    /\ uPc \in {"soh", "size", "code", "ack"} /\ ~HasWord(toUnix)
    /\ Second
    /\ uPc' = "panic" /\ toUnix' = <<>>
    /\ UNCHANGED <<toPi, img, piVars>>

\* The user or the system ends my-install, perhaps part of the way through
\* what it is sending.
Pending == CASE uPc = "header" -> Header [] uPc = "body" -> Body [] OTHER -> <<>>
Kill ==
    /\ Running /\ faults.kill < MaxKills
    /\ \E k \in 0 .. Len(Pending) :
          /\ CutWords \/ k % 4 = 0
          /\ toPi' = Deliver(SubSeq(Pending, 1, k))
    /\ faults' = [faults EXCEPT !.kill = @ + 1]
    /\ uPc' = "panic"
    /\ UNCHANGED <<toUnix, img, piVars>>

UnixStep == \/ Wake \/ SendHeader \/ ExpectSoh \/ ExpectSize \/ ExpectCksum
            \/ SendBody \/ ExpectAck \/ Timeout
-----------------------------------------------------------------------------
(* Pi: bootloader.c.  receive_image reads one word per step; its result is   *)
(* sent and, unless it is ACK, notmain calls it again.                       *)

Take(at) == pPc = at /\ HasWord(toPi) /\ toPi' = After(toPi)
Word     == get_uint(toPi)
Say(words) == toUnix' = toUnix \o Bytes(words)
PiKeeps == UNCHANGED <<unixVars, faults>>

GetSoh ==
    /\ Take("soh")
    /\ \/ Word = SOH /\ pPc' = "size" /\ UNCHANGED toUnix
       \/ Word # SOH /\ pPc' = "soh" /\ Say(<<NAK>>)
    /\ UNCHANGED <<size, cksum, mem, ran>> /\ PiKeeps

GetSize ==
    /\ Take("size")
    /\ size' \in AsSize(Word)
    /\ pPc' = "cksum"
    /\ UNCHANGED <<cksum, mem, ran, toUnix>> /\ PiKeeps

\* The checksum is echoed as it was read; what is read as junk is echoed as junk.
GetCksum ==
    /\ Take("cksum")
    /\ cksum' = Word
    /\ Say(<<SOH, <<"szcrc", size>>, Word>>)
    /\ pPc' = "ack"
    /\ UNCHANGED <<size, mem, ran>> /\ PiKeeps

\* The words still to come: the loop runs while i < size, i += 4.
MLeft(n) == (size - 4 * n + 4) \div 4
Left(n) == (size - 4 * n + 3) \div 4

MGetAckAny ==
    /\ Take("ack")
    /\ mem' = <<>>
    /\ pPc' = IF size = 0 THEN "eot" ELSE "image"
    /\ UNCHANGED <<size, cksum, ran, toUnix>> /\ PiKeeps
GetAck ==
    /\ Take("ack")
    /\ \/ /\ Word = ACK /\ mem' = <<>> /\ UNCHANGED toUnix
          /\ pPc' = IF size = 0 THEN "eot" ELSE "image"
       \/ /\ Word # ACK /\ pPc' = "soh" /\ Say(<<NAK>>) /\ UNCHANGED mem
    /\ UNCHANGED <<size, cksum, ran>> /\ PiKeeps

\* A Huge image outlasts every session: its words are not recorded.
GetWord ==
    /\ Take("image")
    /\ IF size = Huge THEN UNCHANGED <<mem, pPc>>
       ELSE /\ mem' = Append(mem, Word)
            /\ pPc' = IF Left(Len(mem) + 1) = 0 THEN "eot" ELSE "image"
    /\ UNCHANGED <<size, cksum, ran, toUnix>> /\ PiKeeps

MAccept(w) == w = EOT
Accept(w) == w = EOT /\ crc32(mem, size) = cksum

\* The last word and the check; on ACK notmain branches to the image.
GetEot ==
    /\ pPc = "eot" /\ HasWord(toPi)
    /\ \/ /\ Accept(Word) /\ Say(<<ACK>>) /\ toPi' = <<>>
          /\ pPc' = "ran" /\ ran' = Append(ran, mem)
       \/ /\ ~Accept(Word) /\ Say(<<NAK>>) /\ toPi' = After(toPi)
          /\ pPc' = "soh" /\ UNCHANGED ran
    /\ UNCHANGED <<size, cksum, mem>> /\ PiKeeps

PiStep == GetSoh \/ GetSize \/ GetCksum \/ GetAck \/ GetWord \/ GetEot

Noisy(line) == {Tail(line), <<<<Junk, 1>>>> \o Tail(line)}

\* Power on: the bootloader again, with empty FIFOs (uart_init).
Reset ==
    /\ faults.reset < MaxResets
    /\ faults' = [faults EXCEPT !.reset = @ + 1]
    /\ pPc' = "soh" /\ toPi' = <<>>
    /\ UNCHANGED <<toUnix, unixVars, size, cksum, mem, ran>>

\* The line loses a byte or garbles it.  Which byte of a word makes no
\* difference to the words that are read.
Noise ==
    /\ faults.noise < MaxNoise
    /\ faults' = [faults EXCEPT !.noise = @ + 1]
    /\ \/ toPi # <<>> /\ toPi' \in Noisy(toPi) /\ UNCHANGED toUnix
       \/ toUnix # <<>> /\ toUnix' \in Noisy(toUnix) /\ UNCHANGED toPi
    /\ UNCHANGED <<unixVars, piVars>>
-----------------------------------------------------------------------------
Init ==
    /\ toPi = <<>> /\ toUnix = <<>>
    /\ uPc = "idle" /\ img \in Images
    /\ pPc = "soh" /\ size = 0 /\ cksum = Junk /\ mem = <<>> /\ ran = <<>>
    /\ faults = [kill |-> 0, late |-> 0, reset |-> 0, noise |-> 0]

Next == Install \/ UnixStep \/ Kill \/ PiStep \/ Reset \/ Noise

Spec == Init /\ [][Next]_vars

\* Both programs keep running, and the user starts my-install again whenever
\* it has failed.
FairSpec == /\ Spec
            /\ WF_vars(Install) /\ WF_vars(UnixStep) /\ WF_vars(PiStep)
-----------------------------------------------------------------------------
(* Properties *)

\* Every variable has its type, and the words at ARMBASE fit the size read.
TypeOK ==
    /\ uPc \in {"idle", "sleep", "header", "soh", "size", "code", "body", "ack", "ok", "panic"}
    /\ img \in Images
    /\ pPc \in {"soh", "size", "cksum", "ack", "image", "eot", "ran"}
    /\ size \in Numbers
    /\ \A line \in {toPi, toUnix} : \A i \in DOMAIN line : line[i][2] \in 1 .. 4
    /\ Len(ran) <= MaxResets + 1
    /\ pPc \in {"image", "eot"} => 4 * Len(mem) < size + 4

\* The pi never branches to a mixture: what it runs is, word for word, one of
\* the images my-install was given, whatever was killed, lost or resent.
RunsWholeImages == \A i \in DOMAIN ran : \E m \in Images : ran[i] = m.code

\* No image holds, among its words, the checksum of another one.
NoForeignCksums ==
    \A m \in Images : \A w \in Range(m.code) :
        w[1] = "crc" => w = crc32(m.code, m.n)

\* When simple_boot returns, the pi has branched to the very image this call
\* shipped, and not to one of an earlier, interrupted call.  It is meant for
\* images of which none holds another's checksum (NoForeignCksums).
SuccessIsThisImage == uPc = "ok" => ran # <<>> /\ Last(ran) = img.code

\* However my-install is interrupted, starting it again gets an image running.
Recovers == <>(ran # <<>>)
=============================================================================
