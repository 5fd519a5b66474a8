--------------------------- MODULE ShellLinkProofs ---------------------------
(* Proofs about ShellLink, for all images, texts, addresses and numbers of   *)
(* faults.  The invariant describes the conversation: what is on the line    *)
(* and where the pi is, for each place where the unix shell may be.          *)
EXTENDS ShellLink, SequenceTheorems, TLAPS
-----------------------------------------------------------------------------
(* What the line carries *)

Ops == {"ls", "cat", "run", "echo", "echo0", "reboot", "load"}
LineOf(op) == <<<<"line", op>>>>
Num == {"num"} \X (0 .. Width - 1)
Received == Chars \cup {ACK, NAK}
Junk == <<"junk">>
Word == Num \cup ({"code"} \X STRING) \cup {crc32(Words(m)) : m \in Images}
            \cup {Junk}

IsHeader(s) == Len(s) = 4 /\ {s[1], s[2], s[3]} \subseteq Num

\* On its way to the pi is a command line alone, which a pi in its shell will
\* read, or words; load_code finds nothing or a whole header.
Carried ==
    \/ /\ toPi \in Seq(Word)
       /\ pPc = "header" => toPi = <<>> \/ IsHeader(toPi)
    \/ pPc = "shell" /\ \E op \in Ops : toPi = LineOf(op)

\* load_code: the header it has accepted, and what it has stored.
Loading ==
    /\ got \in Seq(Word) /\ hdr.addr \in 0 .. Width - 1 /\ hdr.nbytes \in Nat
    /\ got = <<>> \/ 4 * Len(got) <= hdr.nbytes
    /\ pPc = "body" =>
         /\ InRange(hdr.addr, hdr.nbytes) /\ hdr.nbytes % 4 = 0
         /\ hdr.cksum \in Word
         /\ got # <<>> => hdr.addr + 4 * Len(got) < MAX_ADDRESS + 4
-----------------------------------------------------------------------------
(* The matcher *)

\* With p characters of the marker matched, no marker ends among the first n
\* characters of s.
Clean(p, s, n) ==
    /\ p = 1 => ~(n >= 2 /\ s[1] = "M" /\ s[2] = "n")
    /\ p = 2 => ~(n >= 1 /\ s[1] = "n")
    /\ \A i \in 1 .. n - 2 : ~(s[i] = "C" /\ s[i + 1] = "M" /\ s[i + 2] = "n")

\* No file and no program prints the marker itself: nothing in the protocol
\* would tell it from the end of the reply.
MarkerFree == \A t \in Texts \cup ProgramTexts : Clean(0, t, Len(t))

\* The rest of a reply: a pi back in its shell has printed the marker last, one
\* that has gone, or runs a program that never ends, has not printed it.
Rest(p, s) == IF pPc = "shell" THEN Clean(p, s, Len(s) - 1) ELSE Clean(p, s, Len(s))
-----------------------------------------------------------------------------
(* The conversation *)

AtReady ==
    /\ toPi = <<>>
    /\ \/ pPc = "boot"  /\ toUnix = <<>> /\ pos = 0
       \/ pPc = "shell" /\ toUnix = ready /\ pos = 0
       \/ pPc = "shell" /\ toUnix = <<"n">> /\ pos = 1
       \/ pPc = "dead"  /\ toUnix \in {Panicked, <<"n">>, <<>>} /\ pos = 0

AtPrompt == toPi = <<>> /\ toUnix = <<>> /\ pPc = "shell" /\ pos = 0

\* The line has been sent and not been read.
Asked(ops) == pPc = "shell" /\ toUnix = <<>> /\ pos = 0 /\ \E op \in ops : toPi = LineOf(op)

Answered == pPc \in {"shell", "dead", "looping"} /\ toPi = <<>>

AtUntil ==
    \/ Asked({"ls", "cat", "run"})
    \/ pPc = "running" /\ toPi = <<>> /\ toUnix = <<>> /\ pos = 0
    \/ Answered /\ Rest(pos, toUnix)

AtLine == \/ Asked({"echo", "echo0"})
          \/ pPc = "shell" /\ toPi = <<>> /\ toUnix \in {<<>>, <<"x", "n">>} /\ pos = 0

AtReboot == \/ Asked({"reboot"})
            \/ pPc = "dead" /\ toPi = <<>> /\ toUnix = pi_done /\ pos = 0

AtAck1 == /\ img \in Images /\ pos = 0
          /\ \/ Asked({"load"})
             \/ pPc = "header" /\ toPi = <<>> /\ toUnix = <<ACK>>

\* The checksum is that of the image, unless the line garbled it.
Sum(x) == x \in {Junk, crc32(Words(img))}
AtAck2 ==
    /\ img \in Images /\ pos = 0
    /\ \/ pPc = "header" /\ toUnix = <<>> /\ IsHeader(toPi) /\ Sum(toPi[4])
       \/ pPc = "body"   /\ toUnix = <<ACK>> /\ toPi = <<>> /\ got = <<>> /\ Sum(hdr.cksum)
       \/ pPc = "shell"  /\ toUnix = <<NAK>> /\ toPi = <<>>

\* The words of the image are stored or on the line, then the pi has refused
\* them, or branches to the program, whose output follows the ACK.
AtAck3 ==
    /\ img \in Images /\ pos = 0
    /\ \/ /\ pPc = "body" /\ toUnix = <<>> /\ Sum(hdr.cksum) /\ toPi \in Seq(Word)
          /\ Len(got) + Len(toPi) = Len(Words(img)) + 1
       \/ /\ pPc \in {"shell", "dead"} /\ toUnix # <<>> /\ Head(toUnix) # ACK
          /\ toPi \in Seq(Word)
       \/ pPc = "running" /\ toPi = <<>> /\ toUnix = <<ACK>>
       \/ Answered /\ toUnix # <<>> /\ Head(toUnix) = ACK /\ Rest(0, Tail(toUnix))

AtOff == pPc = "dead" /\ toUnix = <<>>

Talk ==
    /\ uPc = "ready" => AtReady
    /\ uPc \in {"prompt", "fgets", "wait"} => AtPrompt
    /\ uPc = "until" => AtUntil
    /\ uPc = "rline" => AtLine
    /\ uPc = "reboot" => AtReboot
    /\ uPc = "ack1" => AtAck1
    /\ uPc = "ack2" => AtAck2
    /\ uPc = "ack3" => AtAck3
    /\ uPc = "off" => AtOff

Typed ==
    /\ uPc \in Ended \cup {"ready", "prompt", "fgets", "wait", "until", "rline",
                           "reboot", "ack1", "ack2", "ack3"}
    /\ pPc \in {"boot", "shell", "running", "looping", "dead", "header", "body"}
    /\ pos \in 0 .. 2 /\ (uPc = "ready" => pos \in 0 .. 1)
    /\ done \in BOOLEAN /\ high \in BOOLEAN /\ toUnix \in Seq(Received)

IInv == MarkerFree /\ Typed /\ Carried /\ Loading /\ LoadSafe /\ Talk
-----------------------------------------------------------------------------
(* Sequences *)

LEMMA Single ==
    ASSUME NEW x
    PROVE  /\ <<x>> # <<>> /\ Len(<<x>>) = 1 /\ <<x>>[1] = x
           /\ Head(<<x>>) = x /\ Tail(<<x>>) = <<>>
  OBVIOUS

LEMMA Pair ==
    ASSUME NEW x, NEW y
    PROVE  /\ <<x, y>> # <<>> /\ Len(<<x, y>>) = 2
           /\ <<x, y>>[1] = x /\ <<x, y>>[2] = y
           /\ Head(<<x, y>>) = x /\ Tail(<<x, y>>) = <<y>>
  <1>1. Tail(<<x, y>>) = <<y>>
    OBVIOUS
  <1>2. QED
    BY <1>1

LEMMA ConcatEmpty ==
    ASSUME NEW S, NEW s \in Seq(S)
    PROVE  <<>> \o s = s /\ s \o <<>> = s
  BY ConcatEmptySeq

LEMMA TailType ==
    ASSUME NEW S, NEW s \in Seq(S), s # <<>>
    PROVE  /\ Tail(s) \in Seq(S) /\ Head(s) \in S /\ Head(s) = s[1]
           /\ Len(s) \in Nat /\ Len(s) > 0 /\ Len(Tail(s)) = Len(s) - 1
           /\ \A i \in 1 .. Len(s) - 1 : Tail(s)[i] = s[i + 1]
  OBVIOUS

LEMMA ModSmall ==
    ASSUME NEW n \in Nat, NEW k \in Nat, n < k
    PROVE  n % k = n
  OBVIOUS

\* The matcher at one character: a marker that it sees was the last thing
\* printed by a pi in its shell, and otherwise the rest is as clean as before.
LEMMA CleanStep ==
    ASSUME NEW p \in 0 .. 2, NEW s \in Seq(Received), s # <<>>, NEW n \in Int,
           n <= Len(s), n >= Len(s) - 1, Clean(p, s, n)
    PROVE  /\ s[1] = "C" /\ p = 0 => Clean(1, Tail(s), n - 1)
           /\ s[1] = "M" /\ p = 1 => Clean(2, Tail(s), n - 1)
           /\ s[1] = "n" /\ p = 2 => Tail(s) = <<>> /\ n = Len(s) - 1
           /\ Clean(0, Tail(s), n - 1)
  <1> DEFINE t == Tail(s)
  <1>1. /\ t \in Seq(Received) /\ Len(t) = Len(s) - 1 /\ Len(s) \in Nat /\ Len(s) > 0
        /\ \A i \in 1 .. Len(s) - 1 : t[i] = s[i + 1]
    BY TailType
  <1> HIDE DEF t
  <1>2. Len(t) = 0 => t = <<>>
    BY <1>1
  <1>3. \A i \in 1 .. (n - 1) - 2 : ~(t[i] = "C" /\ t[i + 1] = "M" /\ t[i + 2] = "n")
    <2>1. ASSUME NEW i \in 1 .. (n - 1) - 2
          PROVE  ~(t[i] = "C" /\ t[i + 1] = "M" /\ t[i + 2] = "n")
      <3>1. /\ i + 1 \in 1 .. n - 2 /\ i \in 1 .. Len(s) - 1
            /\ i + 1 \in 1 .. Len(s) - 1 /\ i + 2 \in 1 .. Len(s) - 1
            /\ i + 1 + 1 = i + 2 /\ i + 1 + 2 = i + 2 + 1
        BY <1>1
      <3>2. ~(s[i + 1] = "C" /\ s[i + 1 + 1] = "M" /\ s[i + 1 + 2] = "n")
        BY <3>1 DEF Clean
      <3>3. QED
        BY <1>1, <3>1, <3>2
    <2>2. QED
      BY <2>1
  <1>4. s[1] = "C" /\ p = 0 => Clean(1, t, n - 1)
    <2>1. SUFFICES ASSUME s[1] = "C", n - 1 >= 2, t[1] = "M", t[2] = "n" PROVE FALSE
      BY <1>3 DEF Clean
    <2>2. 1 \in 1 .. n - 2 /\ t[1] = s[1 + 1] /\ t[2] = s[1 + 2]
      BY <1>1, <2>1
    <2>3. QED
      BY <2>1, <2>2 DEF Clean
  <1>5. s[1] = "M" /\ p = 1 => Clean(2, t, n - 1)
    <2>1. SUFFICES ASSUME s[1] = "M", p = 1, n - 1 >= 1, t[1] = "n" PROVE FALSE
      BY <1>3 DEF Clean
    <2>2. n >= 2 /\ t[1] = s[2]
      BY <1>1, <2>1
    <2>3. QED
      BY <2>1, <2>2 DEF Clean
  <1>6. s[1] = "n" /\ p = 2 => t = <<>> /\ n = Len(s) - 1
    BY <1>1, <1>2 DEF Clean
  <1>7. Clean(0, t, n - 1)
    BY <1>3 DEF Clean
  <1>8. QED
    BY <1>4, <1>5, <1>6, <1>7 DEF t

\* A clean text followed by the marker: only its end is a marker.
LEMMA CleanReply ==
    ASSUME NEW t \in Seq(Received), Clean(0, t, Len(t))
    PROVE  /\ t \o cmd_done \in Seq(Received)
           /\ Clean(0, t \o cmd_done, Len(t \o cmd_done) - 1)
  <1> DEFINE c == cmd_done
             u == t \o c
  <1>1. c \in Seq(Received) /\ Len(c) = 3 /\ c[1] = "C" /\ c[2] = "M" /\ c[3] = "n"
    BY DEF cmd_done, Received, Chars
  <1> HIDE DEF c
  <1>2. /\ u \in Seq(Received) /\ Len(u) = Len(t) + 3 /\ Len(t) \in Nat
        /\ \A i \in 1 .. Len(t) : u[i] = t[i]
        /\ u[Len(t) + 1] = c[1] /\ u[Len(t) + 2] = c[2]
    <2>1. \A i \in 1 .. Len(t) + Len(c) : u[i] = IF i <= Len(t) THEN t[i] ELSE c[i - Len(t)]
      BY <1>1, ConcatProperties
    <2>2. u \in Seq(Received) /\ Len(u) = Len(t) + Len(c)
      BY <1>1, ConcatProperties
    <2>5. Len(t) \in Nat
      OBVIOUS
    <2> HIDE DEF u
    <2>3. Len(t) + 1 \in 1 .. Len(t) + Len(c) /\ Len(t) + 2 \in 1 .. Len(t) + Len(c)
      BY <1>1, <2>5
    <2>4. QED
      BY <1>1, <2>1, <2>2, <2>3, <2>5
  <1> HIDE DEF u
  <1>3. ASSUME NEW i \in 1 .. Len(t), u[i] = "C", u[i + 1] = "M", u[i + 2] = "n"
        PROVE  FALSE
    <2>1. CASE i + 2 <= Len(t)
      <3>1. i \in 1 .. Len(t) - 2 /\ i + 1 \in 1 .. Len(t) /\ i + 2 \in 1 .. Len(t)
        BY <1>2, <2>1
      <3>2. QED
        BY <1>2, <1>3, <3>1 DEF Clean
    <2>2. CASE i + 2 = Len(t) + 1
      BY <1>1, <1>2, <1>3, <2>2
    <2>3. CASE i + 2 = Len(t) + 2
      BY <1>1, <1>2, <1>3, <2>3
    <2>4. QED
      BY <1>2, <2>1, <2>2, <2>3
  <1>4. Len(u) - 1 - 2 = Len(t)
    BY <1>2
  <1>5. Clean(0, u, Len(u) - 1)
    BY <1>3, <1>4 DEF Clean
  <1>6. QED
    BY <1>2, <1>5 DEF u, c
-----------------------------------------------------------------------------
(* The unix shell *)

\* What the pi has and what is on its way to it are as before.
LEMMA PiSideKept ==
    ASSUME Carried, Loading, LoadSafe, UNCHANGED <<piVars, toPi>>
    PROVE  Carried' /\ Loading' /\ LoadSafe'
  BY DEF Carried, Loading, LoadSafe, piVars

\* Nothing comes after a shell that has ended.
LEMMA EndsTalk ==
    ASSUME Typed, uPc' \in Ended \ {"off"}, UNCHANGED <<pos, done, toUnix, piVars>>
    PROVE  Typed' /\ Talk'
  BY DEF Typed, Talk, Ended, piVars

LEMMA AwaitReadyStep ==
    ASSUME IInv, AwaitReady
    PROVE  IInv'
  <1>1. /\ uPc = "ready" /\ toUnix # <<>> /\ pos' = Match(ready)
        /\ uPc' = (IF Seen(ready) THEN "prompt" ELSE "ready")
        /\ toUnix' = Tail(toUnix) /\ UNCHANGED <<img, done, sa_flags, toPi, piVars>>
    BY DEF AwaitReady, echo_until, Unix
  <1>2. AtReady /\ Typed
    BY <1>1 DEF IInv, Talk
  <1>3. ready = <<"R", "n">> /\ Len(ready) = 2 /\ ready[1] = "R" /\ ready[2] = "n"
    BY Pair DEF ready
  <1>4. UNCHANGED <<pPc, toPi, high>> /\ toPi = <<>>
    BY <1>1, <1>2 DEF piVars, AtReady
  <1>9. <<"n">> \in Seq(Received) /\ <<>> \in Seq(Received)
    BY DEF Received, Chars
  <1>5. CASE toUnix = ready /\ pos = 0 /\ pPc = "shell"
    <2>1. Head(toUnix) = "R" /\ Tail(toUnix) = <<"n">>
      BY <1>5, Pair DEF ready
    <2>2. uPc' = "ready" /\ pos' = 1 /\ toUnix' = <<"n">>
      BY <1>1, <1>3, <1>5, <2>1 DEF Match, Seen
    <2>5. AtReady'
      BY <1>4, <1>5, <2>2 DEF AtReady
    <2>6. Typed'
      BY <1>1, <1>2, <1>4, <1>9, <2>2 DEF Typed
    <2>3. Typed' /\ Talk'
      BY <2>2, <2>5, <2>6 DEF Talk
    <2>4. QED
      BY <1>1, <2>3, PiSideKept DEF IInv
  <1>6. CASE toUnix = <<"n">> /\ pos = 1 /\ pPc = "shell"
    <2>1. Head(toUnix) = "n" /\ Tail(toUnix) = <<>>
      BY <1>6, Single
    <2>2. uPc' = "prompt" /\ pos' = 0 /\ toUnix' = <<>>
      BY <1>1, <1>3, <1>6, <2>1 DEF Match, Seen
    <2>3. Typed' /\ Talk'
      BY <1>1, <1>2, <1>4, <1>6, <2>2 DEF Typed, Talk, AtPrompt, piVars
    <2>4. QED
      BY <1>1, <2>3, PiSideKept DEF IInv
  <1>7. CASE toUnix \in {Panicked, <<"n">>} /\ pos = 0 /\ pPc = "dead"
    <2>1. Head(toUnix) # "R" /\ Tail(toUnix) \in {<<"n">>, <<>>}
      <3>1. /\ Head(<<"x", "n">>) = "x" /\ Tail(<<"x", "n">>) = <<"n">>
            /\ Head(<<"n">>) = "n" /\ Tail(<<"n">>) = <<>>
        BY Pair, Single
      <3>2. QED
        BY <1>7, <3>1, Zenon DEF Panicked
    <2>2. uPc' = "ready" /\ pos' = 0 /\ toUnix' \in {<<"n">>, <<>>}
      BY <1>1, <1>3, <1>7, <2>1 DEF Match, Seen
    <2>3. Typed' /\ Talk'
      BY <1>1, <1>2, <1>4, <1>7, <1>9, <2>2 DEF Typed, Talk, AtReady
    <2>4. QED
      BY <1>1, <2>3, PiSideKept DEF IInv
  <1>8. QED
    BY <1>1, <1>2, <1>5, <1>6, <1>7 DEF AtReady

LEMMA AwaitDoneStep ==
    ASSUME IInv, AwaitDone
    PROVE  IInv'
  <1>1. /\ uPc = "until" /\ toUnix # <<>> /\ pos' = Match(cmd_done)
        /\ uPc' = (IF Seen(cmd_done) THEN "prompt" ELSE "until")
        /\ toUnix' = Tail(toUnix) /\ UNCHANGED <<img, done, sa_flags, toPi, piVars>>
    BY DEF AwaitDone, echo_until, Unix
  <1>2. AtUntil /\ Typed /\ UNCHANGED <<pPc, toPi, done, high>>
    BY <1>1 DEF IInv, Talk, piVars
  <1>3. Answered /\ Rest(pos, toUnix) /\ pos \in 0 .. 2 /\ toUnix \in Seq(Received)
    BY <1>1, <1>2 DEF AtUntil, Asked, Typed
  <1>4. PICK n \in Int : /\ pPc = "shell" => n = Len(toUnix) - 1
                         /\ pPc # "shell" => n = Len(toUnix)
    <2>1. Len(toUnix) \in Int /\ Len(toUnix) - 1 \in Int
      BY <1>3
    <2>2. QED
      BY <2>1
  <1>5. /\ Len(cmd_done) = 3 /\ cmd_done[1] = "C" /\ cmd_done[2] = "M" /\ cmd_done[3] = "n"
    BY DEF cmd_done
  <1> DEFINE t == Tail(toUnix)
  <1>6. /\ toUnix[1] = "C" /\ pos = 0 => Clean(1, t, n - 1)
        /\ toUnix[1] = "M" /\ pos = 1 => Clean(2, t, n - 1)
        /\ toUnix[1] = "n" /\ pos = 2 => t = <<>> /\ n = Len(toUnix) - 1
        /\ Clean(0, t, n - 1)
    <2>1. Clean(pos, toUnix, n) /\ n <= Len(toUnix) /\ n >= Len(toUnix) - 1
      BY <1>3, <1>4 DEF Rest
    <2>2. QED
      BY <1>1, <1>3, <2>1, CleanStep
  <1>7. t \in Seq(Received) /\ Len(t) = Len(toUnix) - 1 /\ Head(toUnix) = toUnix[1] /\ Len(toUnix) \in Nat
    BY <1>1, <1>3, TailType
  <1> HIDE DEF t
  <1>8. /\ pPc = "shell" => n - 1 = Len(t) - 1
        /\ pPc # "shell" => n - 1 = Len(t)
    BY <1>4, <1>7
  <1>9. CASE pos = 2 /\ toUnix[1] = "n"
    <2>1. uPc' = "prompt" /\ pos' = 0
      BY <1>1, <1>5, <1>7, <1>9 DEF Seen, Match
    <2>2. t = <<>> /\ n = Len(toUnix) - 1
      BY <1>6, <1>9
    <2>5. pPc = "shell"
      BY <1>4, <1>7, <2>2
    <2>3. Typed' /\ Talk'
      BY <1>1, <1>2, <1>3, <1>7, <2>1, <2>2, <2>5 DEF t, Typed, Talk, AtPrompt, Answered
    <2>4. QED
      BY <1>1, <2>3, PiSideKept DEF IInv
  <1>10. CASE ~(pos = 2 /\ toUnix[1] = "n")
    <2>1. uPc' = "until" /\ pos' = (IF toUnix[1] = cmd_done[pos + 1] THEN pos + 1 ELSE 0)
      BY <1>1, <1>3, <1>5, <1>7, <1>10 DEF Seen, Match
    <2>2. pos' \in 0 .. 2 /\ Clean(pos', t, n - 1)
      BY <1>3, <1>5, <1>6, <1>10, <2>1
    <2>3. toUnix' = t /\ Rest(pos, toUnix)'
      BY <1>1, <1>2, <1>8, <2>2 DEF t, Rest
    <2>4. Typed' /\ Talk'
      BY <1>1, <1>2, <1>3, <1>7, <2>1, <2>2, <2>3 DEF Typed, Talk, AtUntil, Answered
    <2>5. QED
      BY <1>1, <2>4, PiSideKept DEF IInv
  <1>11. QED
    BY <1>9, <1>10

\* A line is sent to a pi that waits for one.
LEMMA LineSent ==
    ASSUME IInv, AtPrompt, NEW op \in Ops, Send(LineOf(op)), UNCHANGED <<pos, toUnix, piVars>>
    PROVE  /\ Carried' /\ Loading' /\ LoadSafe' /\ Asked({op})' /\ toUnix' = <<>> /\ pos' = 0
  <1>1. toPi' = LineOf(op)
    BY DEF AtPrompt, Send, LineOf
  <1>2. pPc' = "shell" /\ toUnix' = <<>> /\ pos' = 0
    BY DEF AtPrompt, piVars
  <1>3. Carried'
    BY <1>1, <1>2 DEF Carried
  <1>4. Loading' /\ LoadSafe'
    BY DEF IInv, Loading, LoadSafe, piVars
  <1>5. QED
    BY <1>1, <1>2, <1>3, <1>4 DEF Asked

LEMMA LoopStep ==
    ASSUME IInv, Loop
    PROVE  IInv'
  <1>1. /\ uPc = "prompt" /\ UNCHANGED <<img, done, sa_flags, pos, toUnix, piVars>>
        /\ \/ uPc' = "fgets" /\ UNCHANGED toPi
           \/ uPc' = "reboot" /\ Send(LineOf("reboot"))
    BY DEF Loop, Unix, LineOf
  <1>2. AtPrompt /\ Typed /\ Carried /\ Loading /\ LoadSafe
    BY <1>1 DEF IInv, Talk
  <1>3. CASE uPc' = "fgets" /\ UNCHANGED toPi
    <2>1. Typed' /\ Talk'
      BY <1>1, <1>2, <1>3 DEF Typed, Talk, AtPrompt, piVars
    <2>2. QED
      BY <1>1, <1>2, <1>3, <2>1, PiSideKept DEF IInv
  <1>4. CASE uPc' = "reboot" /\ Send(LineOf("reboot"))
    <2>1. Carried' /\ Loading' /\ LoadSafe' /\ Asked({"reboot"})'
      BY <1>1, <1>2, <1>4, LineSent DEF Ops
    <2>2. Typed' /\ Talk'
      BY <1>1, <1>2, <1>4, <2>1 DEF Typed, Talk, AtReboot, piVars
    <2>3. QED
      BY <2>1, <2>2 DEF IInv
  <1>5. QED
    BY <1>1, <1>3, <1>4

LEMMA LocalStep ==
    ASSUME IInv, TypeLocal \/ ChildEnds
    PROVE  IInv'
  <1>1. /\ uPc \in {"fgets", "wait"} /\ uPc' \in {"prompt", "wait", "exit"}
        /\ UNCHANGED <<img, done, sa_flags, pos, toPi, toUnix, piVars>>
    BY DEF TypeLocal, ChildEnds, Unix
  <1>2. AtPrompt /\ Typed /\ Carried /\ Loading /\ LoadSafe
    BY <1>1 DEF IInv, Talk
  <1>3. Typed' /\ Talk'
    BY <1>1, <1>2 DEF Typed, Talk, AtPrompt, piVars, Ended
  <1>4. QED
    BY <1>1, <1>2, <1>3, PiSideKept DEF IInv

LEMMA BuiltinStep ==
    ASSUME IInv, TypeBuiltin
    PROVE  IInv'
  <1>1. PICK op \in DOMAIN Builtins :
             /\ Send(LineOf(op))
             /\ uPc' = Builtins[op] \/ (op = "echo" /\ uPc' = "panic")
    BY DEF TypeBuiltin, Unix, LineOf
  <1>2. uPc = "fgets" /\ UNCHANGED <<img, done, sa_flags, pos, toUnix, piVars>>
    BY DEF TypeBuiltin, Unix
  <1>3. AtPrompt /\ Typed
    BY <1>2 DEF IInv, Talk
  <1>4. /\ op \in {"ls", "cat", "run", "echo", "echo0", "reboot"}
        /\ Builtins[op] = CASE op \in {"ls", "cat", "run"} -> "until"
                            [] op \in {"echo", "echo0"} -> "rline"
                            [] op = "reboot" -> "reboot"
    BY DEF Builtins
  <1>5. Carried' /\ Loading' /\ LoadSafe' /\ Asked({op})'
    BY <1>1, <1>2, <1>3, <1>4, LineSent DEF Ops
  <1>6. CASE op \in {"ls", "cat", "run"}
    <2>1. uPc' = "until" /\ AtUntil'
      BY <1>1, <1>4, <1>5, <1>6 DEF AtUntil, Asked
    <2>2. QED
      BY <1>2, <1>3, <1>5, <2>1 DEF IInv, Typed, Talk, piVars
  <1>7. CASE op \in {"echo", "echo0"} /\ uPc' = "rline"
    <2>1. AtLine'
      BY <1>5, <1>7 DEF AtLine, Asked
    <2>2. QED
      BY <1>2, <1>3, <1>5, <1>7, <2>1 DEF IInv, Typed, Talk, piVars
  <1>8. CASE op = "reboot"
    <2>1. uPc' = "reboot" /\ AtReboot'
      BY <1>1, <1>4, <1>5, <1>8 DEF AtReboot, Asked
    <2>2. QED
      BY <1>2, <1>3, <1>5, <2>1 DEF IInv, Typed, Talk, piVars
  <1>9. CASE uPc' = "panic"
    BY <1>2, <1>3, <1>5, <1>9, EndsTalk DEF IInv, Ended
  <1>10. QED
    BY <1>1, <1>4, <1>6, <1>7, <1>8, <1>9

LEMMA LoadStep ==
    ASSUME IInv, TypeLoad
    PROVE  IInv'
  <1>1. /\ uPc = "fgets" /\ Send(LineOf("load"))
        /\ uPc' = "panic" \/ (uPc' = "ack1" /\ img' \in Images)
        /\ UNCHANGED <<done, sa_flags, pos, toUnix, piVars>>
    BY DEF TypeLoad, LineOf
  <1>2. AtPrompt /\ Typed
    BY <1>1 DEF IInv, Talk
  <1>3. Carried' /\ Loading' /\ LoadSafe' /\ Asked({"load"})' /\ pos' = 0
    BY <1>1, <1>2, LineSent DEF Ops
  <1>4. CASE uPc' = "panic"
    BY <1>1, <1>2, <1>3, <1>4, EndsTalk DEF IInv, Ended
  <1>5. CASE uPc' = "ack1" /\ img' \in Images
    BY <1>1, <1>2, <1>3, <1>5 DEF IInv, Typed, Talk, piVars, AtAck1
  <1>6. QED
    BY <1>1, <1>4, <1>5

\* expect_val: what is read is the first word of the reply.
LEMMA Expects ==
    ASSUME IInv, NEW at, NEW next, NEW words, expect_val(at, next, words)
    PROVE  /\ uPc = at /\ toUnix # <<>> /\ toUnix' = Tail(toUnix)
           /\ \/ Head(toUnix) = ACK /\ uPc' = next /\ toPi' = toPi \o words
              \/ Head(toUnix) # ACK /\ uPc' = "panic" /\ toPi' = toPi
           /\ UNCHANGED <<img, done, sa_flags, pos, pPc, hdr, got, high, ran>>
           /\ toUnix' \in Seq(Received)
  <1>1. /\ uPc = at /\ toUnix # <<>> /\ toUnix' = Tail(toUnix)
        /\ \/ Head(toUnix) = ACK /\ uPc' = next /\ toPi' = toPi \o words
           \/ Head(toUnix) # ACK /\ uPc' = "panic" /\ toPi' = toPi
        /\ UNCHANGED <<img, done, sa_flags, pos, pPc, hdr, got, high, ran>>
    BY DEF expect_val, Unix, Send, piVars
  <1>2. toUnix' \in Seq(Received)
    BY <1>1, TailType DEF IInv, Typed
  <1>3. QED
    BY <1>1, <1>2

\* A word that is not ACK ends the shell.
LEMMA Refusal ==
    ASSUME IInv, uPc' = "panic", toUnix' \in Seq(Received),
           UNCHANGED <<img, done, sa_flags, pos, toPi, pPc, hdr, got, high, ran>>
    PROVE  IInv'
  <1>1. Typed' /\ Talk'
    BY DEF IInv, Typed, Talk, Ended
  <1>2. Carried' /\ Loading' /\ LoadSafe'
    BY PiSideKept DEF IInv, piVars
  <1>3. QED
    BY <1>1, <1>2 DEF IInv

\* The words of an image, and of its header.
LEMMA ImageWords ==
    ASSUME NEW m \in Images
    PROVE  /\ Words(m) \in Seq(Word) /\ Len(Words(m)) \in Nat \ {0} /\ Len(Words(m)) >= 2
           /\ Append(Words(m), EOT) \in Seq(Word)
           /\ Len(Append(Words(m), EOT)) = Len(Words(m)) + 1
           /\ \A w \in {<<"num", m.version>>, <<"num", m.addr>>, <<"num", m.nbytes>>} : w \in Num
           /\ crc32(Words(m)) \in Word
  <1> DEFINE a == <<"num", m.version>>
             b == <<"num", m.addr>>
             c == m.code
  <1>1. /\ {m.version, m.addr, m.nbytes} \subseteq 0 .. Width - 1
        /\ c \in Seq(({"num"} \X (0 .. Width - 1)) \cup ({"code"} \X STRING))
    BY LinkAssumption
  <1>2. a \in Num /\ b \in Num /\ <<"num", m.nbytes>> \in Num
    BY <1>1 DEF Num
  <1>3. Num \subseteq Word /\ (({"num"} \X (0 .. Width - 1)) \cup ({"code"} \X STRING)) \subseteq Word
    BY Zenon DEF Word, Num
  <1>4. c \in Seq(Word)
    BY <1>1, <1>3, SeqMonotonic
  <1>5. EOT \in Word
    <2>1. 7 \in 0 .. Width - 1
      BY LinkAssumption
    <2>2. QED
      BY <1>3, <2>1 DEF EOT, Num
  <1> HIDE DEF a, b, c
  <1>6. PICK ab : ab = <<a, b>>
    OBVIOUS
  <1>7. ab \in Seq(Word) /\ Len(ab) = 2
    BY <1>2, <1>3, <1>6
  <1>8. Words(m) = ab \o c
    BY <1>6 DEF Words, a, b, c
  <1>9. Words(m) \in Seq(Word) /\ Len(Words(m)) = 2 + Len(c)
    <2>1. ab \o c \in Seq(Word) /\ Len(ab \o c) = Len(ab) + Len(c)
      BY <1>4, <1>7, ConcatProperties
    <2>2. QED
      BY <1>7, <1>8, <2>1
  <1>10. Len(c) \in Nat
    BY <1>4
  <1>11. crc32(Words(m)) \in Word
    BY DEF Word
  <1>12. PICK ws \in Seq(Word) : ws = Words(m)
    BY <1>9
  <1>13. Append(ws, EOT) \in Seq(Word) /\ Len(Append(ws, EOT)) = Len(ws) + 1
    BY <1>5
  <1>14. QED
    BY <1>2, <1>9, <1>10, <1>11, <1>12, <1>13 DEF a, b

LEMMA SendHeaderStep ==
    ASSUME IInv, SendHeader
    PROVE  IInv'
  <1> DEFINE hd == <<<<"num", img.version>>, <<"num", img.addr>>,
                     <<"num", img.nbytes>>, crc32(Words(img))>>
  <1>1. /\ uPc = "ack1" /\ toUnix # <<>> /\ toUnix' = Tail(toUnix)
        /\ \/ Head(toUnix) = ACK /\ uPc' = "ack2" /\ toPi' = toPi \o hd
           \/ Head(toUnix) # ACK /\ uPc' = "panic" /\ toPi' = toPi
        /\ UNCHANGED <<img, done, sa_flags, pos, pPc, hdr, got, high, ran>>
        /\ toUnix' \in Seq(Received)
    BY Expects DEF SendHeader
  <1>2. /\ img \in Images /\ pos = 0 /\ pPc = "header" /\ toPi = <<>> /\ toUnix = <<ACK>>
    BY <1>1 DEF IInv, Talk, AtAck1, Asked
  <1>3. Head(toUnix) = ACK /\ Tail(toUnix) = <<>>
    BY <1>2, Single
  <1>4. /\ <<"num", img.version>> \in Num /\ <<"num", img.addr>> \in Num
        /\ <<"num", img.nbytes>> \in Num /\ crc32(Words(img)) \in Word /\ Num \subseteq Word
    BY <1>2, ImageWords, Zenon DEF Word
  <1>5. /\ hd \in Seq(Word) /\ IsHeader(hd) /\ hd[4] = crc32(Words(img))
    <2>1. PICK a \in Num, b \in Num, c \in Num, d \in Word :
               /\ a = <<"num", img.version>> /\ b = <<"num", img.addr>>
               /\ c = <<"num", img.nbytes>> /\ d = crc32(Words(img))
      BY <1>4
    <2>2. a \in Word /\ b \in Word /\ c \in Word
      BY <1>4
    <2>3. /\ <<a, b, c, d>> \in Seq(Word) /\ Len(<<a, b, c, d>>) = 4
          /\ <<a, b, c, d>>[1] = a /\ <<a, b, c, d>>[2] = b
          /\ <<a, b, c, d>>[3] = c /\ <<a, b, c, d>>[4] = d
      BY <2>2
    <2>4. hd = <<a, b, c, d>>
      BY <2>1
    <2> HIDE DEF hd
    <2>5. QED
      BY <2>1, <2>3, <2>4, Zenon DEF IsHeader
  <1> HIDE DEF hd
  <1>6. uPc' = "ack2" /\ toPi' = hd /\ toUnix' = <<>>
    BY <1>1, <1>2, <1>3, <1>5, ConcatEmpty
  <1>7. Carried'
    BY <1>5, <1>6 DEF Carried
  <1>8. Loading' /\ LoadSafe'
    BY <1>1 DEF IInv, Loading, LoadSafe
  <1>9. AtAck2'
    BY <1>1, <1>2, <1>5, <1>6 DEF AtAck2, Sum
  <1>10. Typed' /\ Talk'
    BY <1>1, <1>6, <1>9 DEF IInv, Typed, Talk
  <1>11. QED
    BY <1>7, <1>8, <1>10 DEF IInv

LEMMA SendBodyStep ==
    ASSUME IInv, SendBody
    PROVE  IInv'
  <1> DEFINE ws == Append(Words(img), EOT)
  <1>1. /\ uPc = "ack2" /\ toUnix # <<>> /\ toUnix' = Tail(toUnix)
        /\ \/ Head(toUnix) = ACK /\ uPc' = "ack3" /\ toPi' = toPi \o ws
           \/ Head(toUnix) # ACK /\ uPc' = "panic" /\ toPi' = toPi
        /\ UNCHANGED <<img, done, sa_flags, pos, pPc, hdr, got, high, ran>>
        /\ toUnix' \in Seq(Received)
    BY Expects DEF SendBody
  <1>2. CASE Head(toUnix) # ACK
    BY <1>1, <1>2, Refusal
  <1>3. CASE Head(toUnix) = ACK
    <2>1. NAK # ACK /\ Head(<<NAK>>) = NAK /\ Tail(<<ACK>>) = <<>>
      BY Single DEF NAK, ACK
    <2>2. /\ img \in Images /\ pos = 0 /\ pPc = "body" /\ toUnix = <<ACK>>
          /\ toPi = <<>> /\ got = <<>> /\ Sum(hdr.cksum)
      BY <1>1, <1>3, <2>1 DEF IInv, Talk, AtAck2
    <2>3. ws \in Seq(Word) /\ Len(ws) = Len(Words(img)) + 1
      BY <2>2, ImageWords
    <2> HIDE DEF ws
    <2>4. uPc' = "ack3" /\ toPi' = ws /\ toUnix' = <<>>
      BY <1>1, <1>3, <2>1, <2>2, <2>3, ConcatEmpty
    <2>5. Carried'
      BY <1>1, <2>2, <2>3, <2>4 DEF Carried
    <2>6. Loading' /\ LoadSafe'
      BY <1>1 DEF IInv, Loading, LoadSafe
    <2>7. Len(got) + Len(ws) = Len(Words(img)) + 1
      BY <2>2, <2>3, ImageWords
    <2>8. AtAck3'
      BY <1>1, <2>2, <2>3, <2>4, <2>7 DEF AtAck3, Sum
    <2>9. Typed' /\ Talk'
      BY <1>1, <2>4, <2>8 DEF IInv, Typed, Talk
    <2>10. QED
      BY <2>5, <2>6, <2>9 DEF IInv
  <1>4. QED
    BY <1>2, <1>3

LEMMA SentStep ==
    ASSUME IInv, Sent
    PROVE  IInv'
  <1>1. /\ uPc = "ack3" /\ toUnix # <<>> /\ toUnix' = Tail(toUnix)
        /\ \/ Head(toUnix) = ACK /\ uPc' = "until" /\ toPi' = toPi \o <<>>
           \/ Head(toUnix) # ACK /\ uPc' = "panic" /\ toPi' = toPi
        /\ UNCHANGED <<img, done, sa_flags, pos, pPc, hdr, got, high, ran>>
        /\ toUnix' \in Seq(Received)
    BY Expects DEF Sent
  <1>2. CASE Head(toUnix) # ACK
    BY <1>1, <1>2, Refusal
  <1>3. CASE Head(toUnix) = ACK
    <2>1. /\ toPi = <<>> /\ pos = 0 /\ Tail(<<ACK>>) = <<>>
          /\ \/ pPc = "running" /\ toUnix = <<ACK>>
             \/ Answered /\ Rest(0, Tail(toUnix))
      BY <1>1, <1>3, Single DEF IInv, Talk, AtAck3, Answered
    <2>2. uPc' = "until" /\ toPi' = <<>>
      BY <1>1, <1>3, <2>1
    <2>3. AtUntil'
      BY <1>1, <2>1, <2>2 DEF AtUntil, Answered, Rest
    <2>4. Typed' /\ Talk'
      BY <1>1, <2>2, <2>3 DEF IInv, Typed, Talk
    <2>5. Carried' /\ Loading' /\ LoadSafe'
      BY <1>1, <2>1, <2>2, PiSideKept DEF IInv, piVars
    <2>6. QED
      BY <2>4, <2>5 DEF IInv
  <1>4. QED
    BY <1>2, <1>3

\* A line of two characters that ends with a newline is read whole.
LEMMA WholeLine ==
    ASSUME NEW x, x # "n", toUnix = <<x, "n">>
    PROVE  /\ LineEnd = 2 /\ SubSeq(toUnix, LineEnd + 1, Len(toUnix)) = <<>>
           /\ SubSeq(toUnix, 1, LineEnd) = toUnix
  <1>1. Len(toUnix) = 2 /\ toUnix[1] = x /\ toUnix[2] = "n"
    BY Pair
  <1>2. 1 .. Len(toUnix) = {1, 2} /\ 1 .. 2 - 1 = {1}
    BY <1>1
  <1>3. \A i \in 1 .. Len(toUnix) :
          (toUnix[i] = "n" /\ \A j \in 1 .. i - 1 : toUnix[j] # "n") <=> i = 2
    BY <1>1, <1>2
  <1>4. LineEnd = 2
    BY <1>2, <1>3 DEF LineEnd
  <1>5. toUnix \in Seq({x, "n"})
    OBVIOUS
  <1>6. SubSeq(toUnix, 3, 2) = <<>> /\ SubSeq(toUnix, 1, 2) = toUnix
    <2>1. SubSeq(toUnix, 3, 2) = <<>>
      BY SubSeqEmpty
    <2>2. SubSeq(toUnix, 1, Len(toUnix)) = toUnix
      BY <1>5, SubSeqFull
    <2>3. QED
      BY <1>1, <2>1, <2>2
  <1>7. QED
    BY <1>1, <1>4, <1>6

LEMMA ReadlineStep ==
    ASSUME IInv, pi_readline
    PROVE  IInv'
  <1>1. /\ uPc \in {"rline", "reboot"} /\ HasLine
        /\ toUnix' = SubSeq(toUnix, LineEnd + 1, Len(toUnix))
        /\ UNCHANGED <<img, done, sa_flags, pos, toPi, piVars>>
        /\ uPc' = CASE uPc = "rline" -> "prompt"
                     [] SubSeq(toUnix, 1, LineEnd) = pi_done -> "off"
                     [] OTHER -> "panic"
    BY DEF pi_readline, Unix
  <1>2. toUnix # <<>>
    BY <1>1 DEF HasLine
  <1>3. Typed /\ Carried /\ Loading /\ LoadSafe
    BY DEF IInv
  <1>7. <<>> \in Seq(Received)
    BY EmptySeq
  <1>4. CASE uPc = "rline"
    <2>1. pPc = "shell" /\ toPi = <<>> /\ toUnix = <<"x", "n">> /\ pos = 0
      BY <1>2, <1>4 DEF IInv, Talk, AtLine, Asked
    <2>2. toUnix' = <<>> /\ uPc' = "prompt"
      <3>1. /\ SubSeq(toUnix, LineEnd + 1, Len(toUnix)) = <<>>
            /\ SubSeq(toUnix, 1, LineEnd) = toUnix
        BY <2>1, WholeLine
      <3>2. toUnix # pi_done
        <4>1. toUnix[1] = "x" /\ pi_done[1] = "P"
          BY <2>1, Pair DEF pi_done
        <4>2. QED
          BY <4>1
      <3>3. QED
        BY <1>1, <1>4, <3>1, <3>2
    <2>3. Typed' /\ Talk'
      BY <1>1, <1>3, <1>7, <2>1, <2>2 DEF Typed, Talk, AtPrompt, piVars
    <2>4. QED
      BY <1>1, <1>3, <2>3, PiSideKept DEF IInv
  <1>5. CASE uPc = "reboot"
    <2>1. pPc = "dead" /\ toPi = <<>> /\ toUnix = pi_done /\ pos = 0
      BY <1>2, <1>5 DEF IInv, Talk, AtReboot, Asked
    <2>2. toUnix' = <<>> /\ uPc' = "off"
      BY <1>1, <1>5, <2>1, WholeLine DEF pi_done
    <2>3. Typed' /\ Talk'
      BY <1>1, <1>3, <1>7, <2>1, <2>2 DEF Typed, Talk, AtOff, piVars, Ended
    <2>4. QED
      BY <1>1, <1>3, <2>3, PiSideKept DEF IInv
  <1>6. QED
    BY <1>1, <1>4, <1>5

LEMMA TimeoutStep ==
    ASSUME IInv, Timeout
    PROVE  IInv'
  <1>1. /\ uPc' \in {"exit", "panic"} /\ UNCHANGED <<img, done, sa_flags, pos, toPi, toUnix, piVars>>
    BY DEF Timeout, Unix
  <1>2. Typed' /\ Talk'
    BY <1>1, EndsTalk DEF IInv, Ended
  <1>3. QED
    BY <1>1, <1>2, PiSideKept DEF IInv

LEMMA ControlCStep ==
    ASSUME IInv, ControlC
    PROVE  IInv'
  <1>1. /\ done' = TRUE /\ UNCHANGED <<img, sa_flags, pos, toPi, toUnix, piVars>>
        /\ uPc' \in {"killed", uPc, Interrupted}
    BY DEF ControlC
  <1>2. Typed
    BY DEF IInv
  <1>3. CASE uPc' = uPc
    <2>1. Typed' /\ Talk'
      BY <1>1, <1>3 DEF IInv, Typed, Talk, piVars, AtReady, AtPrompt, AtUntil, AtLine,
                        AtReboot, AtAck1, AtAck2, AtAck3, AtOff, Asked, Answered, Rest, Sum
    <2>2. QED
      BY <1>1, <2>1, PiSideKept DEF IInv
  <1>4. CASE uPc = "fgets" /\ uPc' = "prompt"
    <2>1. Typed' /\ Talk'
      BY <1>1, <1>4 DEF IInv, Typed, Talk, piVars, AtPrompt
    <2>2. QED
      BY <1>1, <2>1, PiSideKept DEF IInv
  <1>5. CASE uPc' \in {"killed", "panic", "exit"}
    <2>1. Typed' /\ Talk'
      BY <1>1, <1>5 DEF IInv, Typed, Talk, piVars, Ended
    <2>2. QED
      BY <1>1, <2>1, PiSideKept DEF IInv
  <1>6. Interrupted \in {uPc, "panic", "exit"} \/ (uPc = "fgets" /\ Interrupted = "prompt")
    BY DEF Interrupted
  <1>7. QED
    BY <1>1, <1>3, <1>4, <1>5, <1>6
-----------------------------------------------------------------------------
(* The line *)

\* A command line is no word.
LEMMA WordKinds ==
    /\ \A w \in Word : w[1] \in {"num", "code", "crc", "junk"} /\ w[1] # "line"
    /\ \A w \in Num : w[1] = "num" /\ w[2] \in 0 .. Width - 1
    /\ \A m \in Images : crc32(Words(m))[1] = "crc" /\ crc32(Words(m))[2] = Words(m)
    /\ Junk \in Word /\ Junk[1] = "junk" /\ Num \subseteq Word
    /\ \A op : LineOf(op) # <<>> /\ Len(LineOf(op)) = 1 /\ LineOf(op)[1] = <<"line", op>>
               /\ Head(LineOf(op)) = <<"line", op>> /\ Tail(LineOf(op)) = <<>>
               /\ <<"line", op>>[1] = "line" /\ <<"line", op>>[2] = op
    /\ \A op, o : LineOf(op) = LineOf(o) => op = o
  <1>1. \A w \in Num : w[1] = "num" /\ w[2] \in 0 .. Width - 1
    BY DEF Num
  <1>2. \A m \in Images : crc32(Words(m))[1] = "crc" /\ crc32(Words(m))[2] = Words(m)
    BY DEF crc32
  <1>3. Junk \in Word /\ Junk[1] = "junk" /\ Num \subseteq Word
    BY DEF Junk, Word
  <1>4. \A w \in {"code"} \X STRING : w[1] = "code"
    OBVIOUS
  <1>5. \A w \in Word : w[1] \in {"num", "code", "crc", "junk"}
    BY <1>1, <1>2, <1>3, <1>4, Zenon DEF Word
  <1>6. \A op : LineOf(op) # <<>> /\ Len(LineOf(op)) = 1 /\ LineOf(op)[1] = <<"line", op>>
                /\ Head(LineOf(op)) = <<"line", op>> /\ Tail(LineOf(op)) = <<>>
                /\ <<"line", op>>[1] = "line" /\ <<"line", op>>[2] = op
    BY DEF LineOf
  <1>7. \A op, o : LineOf(op) = LineOf(o) => op = o
    BY <1>6
  <1>8. QED
    BY <1>1, <1>2, <1>3, <1>5, <1>6, <1>7

LEMMA NoiseStep ==
    ASSUME IInv, Noise
    PROVE  IInv'
  <1>1. PICK i \in 1 .. Len(toPi) :
             \/ toPi[i][1] = "num" /\ \E n \in Garbles : toPi' = [toPi EXCEPT ![i] = <<"num", n>>]
             \/ toPi[i][1] \in {"code", "crc"} /\ toPi' = [toPi EXCEPT ![i] = <<"junk">>]
    BY DEF Noise
  <1>2. UNCHANGED <<uPc, img, pos, done, sa_flags, toUnix, pPc, hdr, got, high, ran>>
    BY DEF Noise, unixVars, piVars
  <1>3. toPi \in Seq(Word) /\ (pPc = "header" => toPi = <<>> \/ IsHeader(toPi))
    <2>1. CASE \E op \in Ops : toPi = LineOf(op)
      <3>1. i = 1 /\ toPi[1][1] = "line"
        BY <1>1, <2>1, WordKinds
      <3>2. QED
        BY <1>1, <3>1
    <2>2. QED
      BY <2>1 DEF IInv, Carried
  <1>4. PICK x \in Word : /\ toPi' = [toPi EXCEPT ![i] = x]
                          /\ toPi[i][1] = "num" => x \in Num
                          /\ toPi[i][1] # "num" => x = Junk
    <2>1. CASE toPi[i][1] = "num"
      <3>1. PICK n \in Garbles : toPi' = [toPi EXCEPT ![i] = <<"num", n>>]
        BY <1>1, <2>1
      <3>2. n \in 0 .. Width - 1
        BY <3>1, LinkAssumption
      <3>3. <<"num", n>> \in Num
        BY <3>2 DEF Num
      <3>4. QED
        BY <2>1, <3>1, <3>3, WordKinds
    <2>2. CASE toPi[i][1] # "num"
      BY <1>1, <2>2, WordKinds DEF Junk
    <2>3. QED
      BY <2>1, <2>2
  <1>5. /\ toPi' \in Seq(Word) /\ Len(toPi') = Len(toPi)
        /\ \A j \in 1 .. Len(toPi) : toPi'[j] = IF j = i THEN x ELSE toPi[j]
    BY <1>3, <1>4, ExceptSeq
  <1>6. toPi # <<>>
    BY <1>1
  <1>7. ASSUME IsHeader(toPi)
        PROVE  IsHeader(toPi') /\ (Sum(toPi[4]) => Sum(toPi[4])')
    <2>1. Len(toPi) = 4 /\ toPi[1] \in Num /\ toPi[2] \in Num /\ toPi[3] \in Num
      BY <1>7 DEF IsHeader
    <2>2. \A j \in 1 .. 3 : toPi'[j] \in Num
      <3>1. ASSUME NEW j \in 1 .. 3 PROVE toPi'[j] \in Num
        <4>1. toPi[j] \in Num /\ toPi[j][1] = "num" /\ j \in 1 .. Len(toPi)
          BY <2>1, WordKinds
        <4>2. QED
          BY <1>4, <1>5, <4>1
      <3>2. QED
        BY <3>1
    <2>3. toPi'[1] \in Num /\ toPi'[2] \in Num /\ toPi'[3] \in Num
      BY <2>2
    <2>4. IsHeader(toPi')
      BY <1>5, <2>1, <2>3 DEF IsHeader
    <2>5. ASSUME Sum(toPi[4]) PROVE Sum(toPi[4])'
      <3>1. toPi[4] \in {Junk, crc32(Words(img))} /\ crc32(Words(img))[1] = "crc"
        BY <2>5 DEF Sum, crc32
      <3>2. toPi[4][1] # "num"
        BY <3>1, WordKinds
      <3>3. toPi'[4] \in {toPi[4], Junk}
        BY <1>4, <1>5, <2>1, <3>2
      <3>4. QED
        BY <1>2, <3>1, <3>3 DEF Sum
    <2>6. QED
      BY <2>4, <2>5
  <1>8. Carried'
    BY <1>2, <1>3, <1>5, <1>6, <1>7 DEF Carried
  <1>9. Loading' /\ LoadSafe' /\ Typed'
    BY <1>2 DEF IInv, Loading, LoadSafe, Typed
  <1>10. \A op : toPi # LineOf(op)
    <2>1. Head(toPi) \in Word
      BY <1>3, <1>6, TailType
    <2>2. QED
      BY <2>1, WordKinds
  <1>11. uPc \in {"ack2", "ack3", "off"} \cup Ended
    BY <1>6, <1>10 DEF IInv, Typed, Talk, AtReady, AtPrompt, AtUntil, AtLine, AtReboot,
                       AtAck1, Asked, Answered
  <1>12. CASE uPc = "ack2"
    <2>1. /\ img \in Images /\ pos = 0 /\ pPc = "header" /\ toUnix = <<>>
          /\ IsHeader(toPi) /\ Sum(toPi[4])
      BY <1>6, <1>12 DEF IInv, Talk, AtAck2
    <2>2. AtAck2'
      BY <1>2, <1>7, <2>1 DEF AtAck2
    <2>3. QED
      BY <1>2, <1>8, <1>9, <1>12, <2>2 DEF IInv, Talk
  <1>13. CASE uPc = "ack3"
    <2>1. AtAck3'
      BY <1>2, <1>5, <1>6, <1>13 DEF IInv, Talk, AtAck3, Sum, Answered
    <2>2. QED
      BY <1>2, <1>8, <1>9, <1>13, <2>1 DEF IInv, Talk
  <1>14. CASE uPc \in Ended
    <2>1. uPc = "off" => AtOff'
      BY <1>2 DEF IInv, Talk, AtOff
    <2>2. Talk'
      BY <1>2, <1>14, <2>1 DEF Talk, Ended
    <2>3. QED
      BY <1>8, <1>9, <2>2 DEF IInv
  <1>15. QED
    BY <1>11, <1>12, <1>13, <1>14 DEF Ended
-----------------------------------------------------------------------------
(* The pi *)

LEMMA Replies ==
    ASSUME Typed, NEW chars \in Seq(Received), Reply(chars)
    PROVE  /\ toUnix' \in Seq(Received)
           /\ toUnix = <<>> => toUnix' = chars
           /\ toUnix # <<>> => toUnix' # <<>> /\ Head(toUnix') = Head(toUnix)
           /\ \A a : toUnix = <<a>> => Head(toUnix') = a /\ Tail(toUnix') = chars
  <1>1. toUnix \in Seq(Received) /\ toUnix' = toUnix \o chars
    BY DEF Typed, Reply
  <1> DEFINE u == toUnix \o chars
  <1>2. /\ u \in Seq(Received) /\ Len(u) = Len(toUnix) + Len(chars)
        /\ \A i \in 1 .. Len(toUnix) + Len(chars) :
             u[i] = IF i <= Len(toUnix) THEN toUnix[i] ELSE chars[i - Len(toUnix)]
    BY <1>1, ConcatProperties
  <1>3. toUnix = <<>> => u = chars
    BY <1>1, ConcatEmpty
  <1> HIDE DEF u
  <1>4. Len(toUnix) \in Nat /\ Len(chars) \in Nat /\ Len(u) \in Nat
    BY <1>1, <1>2
  <1>5. ASSUME toUnix # <<>> PROVE u # <<>> /\ Head(u) = Head(toUnix)
    <2>1. Len(toUnix) > 0 /\ Head(toUnix) = toUnix[1]
      BY <1>1, <1>5
    <2>2. Len(u) > 0 /\ u[1] = toUnix[1]
      BY <1>2, <1>4, <2>1
    <2>3. u # <<>>
      BY <2>2
    <2>4. QED
      BY <1>2, <2>1, <2>2, <2>3
  <1>6. ASSUME NEW a, toUnix = <<a>> PROVE Head(u) = a /\ Tail(u) = chars
    <2>1. Len(toUnix) = 1 /\ toUnix # <<>> /\ Head(toUnix) = a
      BY <1>6, Single
    <2>2. u # <<>> /\ Head(u) = a
      BY <1>5, <2>1
    <2>3. PICK v : v = Tail(u)
      OBVIOUS
    <2>4. /\ v \in Seq(Received) /\ Len(v) = Len(u) - 1
          /\ \A i \in 1 .. Len(u) - 1 : v[i] = u[i + 1]
      BY <1>2, <2>2, <2>3, TailType
    <2>5. Len(v) = Len(chars)
      <3>1. Len(u) = 1 + Len(chars)
        BY <1>2, <2>1
      <3>2. Len(v) = Len(u) - 1
        BY <2>4
      <3>3. QED
        BY <1>4, <3>1, <3>2
    <2>6. \A i \in 1 .. Len(v) : v[i] = chars[i]
      <3>1. ASSUME NEW i \in 1 .. Len(v) PROVE v[i] = chars[i]
        <4>1. /\ i + 1 \in 1 .. Len(toUnix) + Len(chars) /\ ~(i + 1 <= Len(toUnix))
              /\ i + 1 - Len(toUnix) = i /\ i \in 1 .. Len(u) - 1
          BY <1>2, <1>4, <2>1, <2>5
        <4>2. QED
          BY <1>2, <2>4, <4>1
      <3>2. QED
        BY <3>1
    <2>7. v = chars
      BY <2>4, <2>5, <2>6, SeqEqual
    <2>8. QED
      BY <2>2, <2>3, <2>7
  <1>7. QED
    BY <1>1, <1>2, <1>3, <1>5, <1>6 DEF u

\* What the pi prints, character by character.
LEMMA Printed ==
    /\ ready \in Seq(Received) /\ Panicked \in Seq(Received) /\ pi_done \in Seq(Received)
    /\ <<ACK>> \in Seq(Received) /\ <<NAK>> \in Seq(Received) /\ <<>> \in Seq(Received)
    /\ cmd_done \in Seq(Received) /\ <<"D", "n">> \in Seq(Received)
    /\ Head(Panicked) # ACK /\ Panicked # <<>> /\ Len(Panicked) = 2
    /\ <<NAK>> # <<>> /\ Head(<<NAK>>) # ACK
    /\ Texts \cup ProgramTexts \subseteq Seq(Received)
  <1>1. ready \in Seq(Received) /\ Panicked \in Seq(Received) /\ pi_done \in Seq(Received)
    BY DEF ready, Panicked, pi_done, Received, Chars
  <1>2. <<ACK>> \in Seq(Received) /\ <<NAK>> \in Seq(Received) /\ <<>> \in Seq(Received)
    BY DEF Received
  <1>3. cmd_done \in Seq(Received) /\ <<"D", "n">> \in Seq(Received)
    BY DEF cmd_done, Received, Chars
  <1>4. Head(Panicked) # ACK /\ Panicked # <<>> /\ Len(Panicked) = 2
    BY Pair DEF Panicked, ACK
  <1>5. <<NAK>> # <<>> /\ Head(<<NAK>>) # ACK
    BY Single DEF ACK, NAK
  <1>6. Texts \cup ProgramTexts \subseteq Seq(Received)
    <2>1. Chars \subseteq Received
      BY DEF Received
    <2>2. Texts \cup ProgramTexts \subseteq Seq(Chars)
      BY LinkAssumption
    <2>3. QED
      BY <2>1, <2>2, SeqMonotonic
  <1>7. QED
    BY <1>1, <1>2, <1>3, <1>4, <1>5, <1>6

LEMMA BootStep ==
    ASSUME IInv, PiBoot
    PROVE  IInv'
  <1>1. /\ pPc = "boot" /\ UNCHANGED <<uPc, img, pos, done, sa_flags, toPi, hdr, got, high, ran>>
        /\ \/ pPc' = "shell" /\ Reply(ready)
           \/ pPc' = "dead"  /\ Reply(Panicked)
    BY DEF PiBoot, unixVars
  <1>2. toPi \in Seq(Word)
    BY <1>1 DEF IInv, Carried
  <1>3. Carried' /\ Loading' /\ LoadSafe'
    BY <1>1, <1>2 DEF IInv, Carried, Loading, LoadSafe
  <1>4. /\ toUnix' \in Seq(Received)
        /\ toUnix = <<>> => \/ pPc' = "shell" /\ toUnix' = ready
                            \/ pPc' = "dead" /\ toUnix' = Panicked
    BY <1>1, Printed, Replies DEF IInv
  <1>5. Typed'
    BY <1>1, <1>4 DEF IInv, Typed
  <1>6. uPc \in (Ended \ {"off"}) \cup {"ready"}
    BY <1>1 DEF IInv, Typed, Talk, AtPrompt, AtUntil, AtLine, AtReboot, AtAck1, AtAck2,
                AtAck3, AtOff, Asked, Answered
  <1>7. uPc = "ready" => AtReady'
    BY <1>1, <1>4 DEF IInv, Talk, AtReady
  <1>8. Talk'
    BY <1>1, <1>6, <1>7 DEF Talk, Ended
  <1>9. QED
    BY <1>3, <1>5, <1>8 DEF IInv

\* The reply to a command that ends with the marker, and to one that does not.
LEMMA ReplyClean ==
    ASSUME MarkerFree, NEW t \in Texts \cup ProgramTexts
    PROVE  /\ t \in Seq(Received) /\ Clean(0, t, Len(t))
           /\ t \o cmd_done \in Seq(Received)
           /\ Clean(0, t \o cmd_done, Len(t \o cmd_done) - 1)
  BY Printed, CleanReply DEF MarkerFree

LEMMA PanickedClean == Clean(0, Panicked, Len(Panicked))
  BY Printed DEF Clean

LEMMA LineStep ==
    ASSUME IInv, PiLine
    PROVE  IInv'
  <1>1. /\ pPc = "shell" /\ toPi # <<>> /\ Head(toPi)[1] = "line"
        /\ Obey(Head(toPi)[2]) /\ toPi' = Tail(toPi)
        /\ UNCHANGED <<uPc, img, pos, done, sa_flags, hdr, got, high, ran>>
    BY DEF PiLine, IsLine, unixVars
  <1>2. PICK op \in Ops : toPi = LineOf(op)
    <2>1. CASE toPi \in Seq(Word)
      <3>1. Head(toPi) \in Word
        BY <1>1, <2>1, TailType
      <3>2. QED
        BY <1>1, <3>1, WordKinds
    <2>2. QED
      BY <2>1 DEF IInv, Carried
  <1>3. Obey(op) /\ toPi' = <<>> /\ toPi \notin Seq(Word)
    <2>1. Head(toPi) = <<"line", op>> /\ <<"line", op>>[2] = op /\ Tail(toPi) = <<>>
      BY <1>2, WordKinds
    <2>2. toPi \notin Seq(Word)
      BY <1>1, WordKinds, TailType
    <2>3. QED
      BY <1>1, <2>1, <2>2
  <1>4. \/ /\ uPc = "until"  /\ op \in {"ls", "cat", "run"} /\ toUnix = <<>> /\ pos = 0
        \/ /\ uPc = "rline"  /\ op \in {"echo", "echo0"} /\ toUnix = <<>> /\ pos = 0
        \/ /\ uPc = "reboot" /\ op = "reboot" /\ toUnix = <<>> /\ pos = 0
        \/ /\ uPc = "ack1"   /\ op = "load" /\ toUnix = <<>> /\ pos = 0 /\ img \in Images
        \/ uPc \in Ended \ {"off"}
    <2>1. ASSUME NEW ops, Asked(ops) PROVE op \in ops /\ toUnix = <<>> /\ pos = 0
      BY <1>2, <2>1, WordKinds DEF Asked
    <2>2. QED
      BY <1>1, <1>3, <2>1
         DEF IInv, Typed, Talk, AtReady, AtPrompt, AtUntil, AtLine, AtReboot, AtAck1, AtAck2,
             AtAck3, AtOff, Answered
  <1>5. MarkerFree /\ Typed
    BY DEF IInv
  <1>6. /\ pPc' \in {"shell", "dead", "running", "header"} /\ toUnix' \in Seq(Received)
        /\ op \in {"ls", "cat"} /\ toUnix = <<>> =>
             \/ pPc' = "shell" /\ Clean(0, toUnix', Len(toUnix') - 1)
             \/ pPc' = "dead"  /\ Clean(0, toUnix', Len(toUnix'))
        /\ op = "run" => pPc' = "running" /\ (toUnix = <<>> => toUnix' = <<>>)
        /\ op \in {"echo", "echo0"} =>
             pPc' = "shell" /\ (toUnix = <<>> => toUnix' \in {<<>>, <<"x", "n">>})
        /\ op = "reboot" => pPc' = "dead" /\ (toUnix = <<>> => toUnix' = pi_done)
        /\ op = "load" => pPc' = "header" /\ (toUnix = <<>> => toUnix' = <<ACK>>)
    <2>1. CASE op \in {"ls", "cat"}
      <3>1. \/ \E t \in Texts : Reply(t \o cmd_done) /\ pPc' = "shell"
            \/ Reply(Panicked) /\ pPc' = "dead"
        BY <1>3, <2>1 DEF Obey, Marker
      <3>2. CASE Reply(Panicked) /\ pPc' = "dead"
        <4>1. toUnix' \in Seq(Received) /\ (toUnix = <<>> => toUnix' = Panicked)
          BY <1>5, <3>2, Printed, Replies
        <4>2. QED
          BY <2>1, <3>2, <4>1, PanickedClean
      <3>3. ASSUME NEW t \in Texts, Reply(t \o cmd_done), pPc' = "shell"
            PROVE  /\ toUnix' \in Seq(Received)
                   /\ toUnix = <<>> => Clean(0, toUnix', Len(toUnix') - 1)
        <4>1. PICK r : r = t \o cmd_done
          OBVIOUS
        <4>2. r \in Seq(Received) /\ Clean(0, r, Len(r) - 1) /\ Reply(r)
          BY <1>5, <3>3, <4>1, ReplyClean
        <4>3. toUnix' \in Seq(Received) /\ (toUnix = <<>> => toUnix' = r)
          BY <1>5, <4>2, Replies
        <4>4. QED
          BY <4>2, <4>3
      <3>4. QED
        BY <2>1, <3>1, <3>2, <3>3
    <2>2. CASE op = "run"
      <3>1. pPc' = "running" /\ Reply(<<>>)
        BY <1>3, <2>2 DEF Obey
      <3>2. QED
        BY <1>5, <2>2, <3>1, Printed, Replies
    <2>3. CASE op = "echo"
      <3>1. pPc' = "shell" /\ Reply(<<"x", "n">> \o <<>>)
        BY <1>3, <2>3 DEF Obey, Marker
      <3>2. <<"x", "n">> \in Seq(Received) /\ <<"x", "n">> \o <<>> = <<"x", "n">>
        BY Printed, ConcatEmpty DEF Panicked
      <3>3. toUnix' \in Seq(Received) /\ (toUnix = <<>> => toUnix' = <<"x", "n">>)
        BY <1>5, <3>1, <3>2, Replies
      <3>4. QED
        BY <2>3, <3>1, <3>3
    <2>4. CASE op = "echo0"
      <3>1. pPc' = "shell" /\ Reply(<<>>)
        BY <1>3, <2>4 DEF Obey
      <3>2. QED
        BY <1>5, <2>4, <3>1, Printed, Replies
    <2>5. CASE op = "reboot"
      <3>1. pPc' = "dead" /\ Reply(pi_done)
        BY <1>3, <2>5 DEF Obey
      <3>2. QED
        BY <1>5, <2>5, <3>1, Printed, Replies
    <2>6. CASE op = "load"
      <3>1. pPc' = "header" /\ Reply(<<ACK>>)
        BY <1>3, <2>6 DEF Obey
      <3>2. QED
        BY <1>5, <2>6, <3>1, Printed, Replies
    <2>7. QED
      BY <1>2, <2>1, <2>2, <2>3, <2>4, <2>5, <2>6 DEF Ops
  <1>7. Carried' /\ Loading' /\ LoadSafe'
    <2>1. <<>> \in Seq(Word)
      BY EmptySeq
    <2>2. QED
      BY <1>1, <1>3, <1>6, <2>1 DEF IInv, Carried, Loading, LoadSafe
  <1>8. Typed'
    BY <1>1, <1>5, <1>6 DEF Typed
  <1>9. CASE uPc = "until"
    <2>1. op \in {"ls", "cat", "run"} /\ toUnix = <<>> /\ pos = 0
      BY <1>4, <1>9 DEF Ended
    <2>2. AtUntil'
      BY <1>1, <1>3, <1>6, <2>1 DEF AtUntil, Answered, Rest
    <2>3. QED
      BY <1>1, <1>7, <1>8, <1>9, <2>2 DEF IInv, Talk
  <1>10. CASE uPc = "rline"
    <2>1. AtLine'
      BY <1>1, <1>3, <1>4, <1>6, <1>10 DEF AtLine, Ended
    <2>2. QED
      BY <1>1, <1>7, <1>8, <1>10, <2>1 DEF IInv, Talk
  <1>11. CASE uPc = "reboot"
    <2>1. AtReboot'
      BY <1>1, <1>3, <1>4, <1>6, <1>11 DEF AtReboot, Ended
    <2>2. QED
      BY <1>1, <1>7, <1>8, <1>11, <2>1 DEF IInv, Talk
  <1>12. CASE uPc = "ack1"
    <2>1. AtAck1'
      BY <1>1, <1>3, <1>4, <1>6, <1>12 DEF AtAck1, Ended
    <2>2. QED
      BY <1>1, <1>7, <1>8, <1>12, <2>1 DEF IInv, Talk
  <1>13. CASE uPc \in Ended \ {"off"}
    BY <1>1, <1>7, <1>8, <1>13 DEF IInv, Talk, Ended
  <1>14. QED
    BY <1>4, <1>9, <1>10, <1>11, <1>12, <1>13

LEMMA RunStep ==
    ASSUME IInv, PiRun
    PROVE  IInv'
  <1>1. PICK o \in Outcomes : Finish(o)
    BY DEF PiRun
  <1>2. /\ pPc = "running" /\ UNCHANGED <<uPc, img, pos, done, sa_flags, toPi, hdr, got, high, ran>>
    BY DEF PiRun, unixVars
  <1>3. MarkerFree /\ Typed
    BY DEF IInv
  <1>4. o.text \in ProgramTexts /\ o.end \in {"returns", "loops", "reboots"}
    BY DEF Outcomes
  <1>5. PICK r \in Seq(Received) :
             /\ Reply(r) /\ pPc' \in {"shell", "looping", "dead"}
             /\ pPc' = "shell" => Clean(0, r, Len(r) - 1)
             /\ pPc' # "shell" => Clean(0, r, Len(r))
    <2>1. CASE o.end = "returns"
      <3>1. Reply(o.text \o cmd_done) /\ pPc' = "shell"
        BY <1>1, <2>1 DEF Finish
      <3>2. QED
        BY <1>3, <1>4, <3>1, ReplyClean
    <2>2. CASE o.end # "returns"
      <3>1. Reply(o.text) /\ pPc' \in {"looping", "dead"}
        BY <1>1, <1>4, <2>2 DEF Finish
      <3>2. QED
        BY <1>3, <1>4, <3>1, ReplyClean
    <2>3. QED
      BY <2>1, <2>2
  <1>6. /\ toUnix' \in Seq(Received) /\ (toUnix = <<>> => toUnix' = r)
        /\ toUnix # <<>> => toUnix' # <<>>
        /\ toUnix = <<ACK>> => Head(toUnix') = ACK /\ Tail(toUnix') = r
    BY <1>3, <1>5, Replies
  <1>7. Carried' /\ Loading' /\ LoadSafe'
    BY <1>2, <1>5 DEF IInv, Carried, Loading, LoadSafe
  <1>8. Typed'
    BY <1>2, <1>3, <1>5, <1>6 DEF Typed
  <1>9. \/ uPc = "until" /\ toPi = <<>> /\ toUnix = <<>> /\ pos = 0
        \/ uPc = "ack3" /\ toPi = <<>> /\ toUnix = <<ACK>> /\ pos = 0 /\ img \in Images
        \/ uPc \in Ended \ {"off"}
    BY <1>2 DEF IInv, Typed, Talk, AtReady, AtPrompt, AtUntil, AtLine, AtReboot, AtAck1,
                AtAck2, AtAck3, AtOff, Asked, Answered
  <1>10. CASE uPc = "until"
    <2>1. AtUntil'
      BY <1>2, <1>5, <1>6, <1>9, <1>10 DEF AtUntil, Answered, Rest, Ended
    <2>2. QED
      BY <1>2, <1>7, <1>8, <1>10, <2>1 DEF IInv, Talk
  <1>11. CASE uPc = "ack3"
    <2>1. toUnix # <<>>
      BY <1>9, <1>11, Single DEF Ended
    <2>2. AtAck3'
      BY <1>2, <1>5, <1>6, <1>9, <1>11, <2>1 DEF AtAck3, Answered, Rest, Ended
    <2>3. QED
      BY <1>2, <1>7, <1>8, <1>11, <2>2 DEF IInv, Talk
  <1>12. CASE uPc \in Ended \ {"off"}
    BY <1>2, <1>7, <1>8, <1>12 DEF IInv, Talk, Ended
  <1>13. QED
    BY <1>9, <1>10, <1>11, <1>12

\* A pi that waits for words finds words.
LEMMA NextWord ==
    ASSUME IInv, IsWord
    PROVE  /\ toPi \in Seq(Word) /\ toPi # <<>> /\ Head(toPi) \in Word
           /\ Tail(toPi) \in Seq(Word) /\ Len(toPi) \in Nat
           /\ Len(Tail(toPi)) = Len(toPi) - 1 /\ Len(toPi) > 0
           /\ \A op : toPi # LineOf(op)
  <1>1. toPi # <<>> /\ Head(toPi)[1] # "line"
    BY DEF IsWord
  <1>2. \A op : toPi # LineOf(op)
    BY <1>1, WordKinds
  <1>3. toPi \in Seq(Word)
    BY <1>2 DEF IInv, Carried
  <1>4. QED
    BY <1>1, <1>2, <1>3, TailType

LEMMA JunkStep ==
    ASSUME IInv, PiJunk
    PROVE  IInv'
  <1>1. /\ pPc = "shell" /\ IsWord /\ toPi' = Tail(toPi)
        /\ \/ pPc' = "shell" /\ UNCHANGED toUnix
           \/ pPc' = "dead"  /\ \E t \in {Panicked, <<"D", "n">>} : Reply(t)
        /\ UNCHANGED <<uPc, img, pos, done, sa_flags, hdr, got, high, ran>>
    BY DEF PiJunk, unixVars
  <1>2. toPi # <<>> /\ Tail(toPi) \in Seq(Word) /\ \A op : toPi # LineOf(op)
    BY <1>1, NextWord
  <1>3. /\ toUnix' \in Seq(Received)
        /\ toUnix # <<>> => toUnix' # <<>> /\ Head(toUnix') = Head(toUnix)
    <2>1. CASE UNCHANGED toUnix
      BY <2>1 DEF IInv, Typed
    <2>2. CASE \E t \in {Panicked, <<"D", "n">>} : Reply(t)
      <3>1. PICK t \in Seq(Received) : Reply(t)
        BY <2>2, Printed
      <3>2. QED
        BY <3>1, Replies DEF IInv
    <2>3. QED
      BY <1>1, <2>1, <2>2
  <1>4. Carried' /\ Loading' /\ LoadSafe'
    BY <1>1, <1>2 DEF IInv, Carried, Loading, LoadSafe
  <1>5. Typed'
    BY <1>1, <1>3 DEF IInv, Typed
  <1>6. \/ /\ uPc = "ack3" /\ img \in Images /\ pos = 0
           /\ toUnix # <<>> /\ Head(toUnix) # ACK
        \/ uPc \in Ended \ {"off"}
    BY <1>1, <1>2 DEF IInv, Typed, Talk, AtReady, AtPrompt, AtUntil, AtLine, AtReboot, AtAck1,
                AtAck2, AtAck3, AtOff, Asked, Answered
  <1>7. CASE uPc = "ack3"
    <2>1. AtAck3'
      BY <1>1, <1>2, <1>3, <1>6, <1>7 DEF AtAck3, Ended
    <2>2. QED
      BY <1>1, <1>4, <1>5, <1>7, <2>1 DEF IInv, Talk
  <1>8. CASE uPc \in Ended \ {"off"}
    BY <1>1, <1>4, <1>5, <1>8 DEF IInv, Talk, Ended
  <1>9. QED
    BY <1>6, <1>7, <1>8

LEMMA HeaderStep ==
    ASSUME IInv, PiHeader
    PROVE  IInv'
  <1> DEFINE version == toPi[1][2]
             addr == toPi[2][2]
             nbytes == toPi[3][2]
  <1>1. /\ pPc = "header" /\ Len(toPi) >= 4 /\ toPi' = SubSeq(toPi, 5, Len(toPi))
        /\ UNCHANGED <<uPc, img, pos, done, sa_flags, high, ran>>
        /\ \/ pPc' = "shell" /\ Reply(<<NAK>>) /\ UNCHANGED <<hdr, got>>
           \/ /\ ~Refused(version, addr, nbytes)
              /\ pPc' = "body" /\ Reply(<<ACK>>) /\ got' = <<>>
              /\ hdr' = [addr |-> addr, nbytes |-> nbytes, cksum |-> toPi[4]]
    BY DEF PiHeader, unixVars
  <1>2. toPi \in Seq(Word) /\ IsHeader(toPi) /\ Len(toPi) = 4
    BY <1>1 DEF IInv, Carried, IsHeader
  <1>3. addr \in 0 .. Width - 1 /\ nbytes \in 0 .. Width - 1 /\ toPi[4] \in Word
    <2>1. toPi[2] \in Num /\ toPi[3] \in Num
      BY <1>2 DEF IsHeader
    <2>2. toPi[4] \in Word
      <3>1. 4 \in 1 .. Len(toPi)
        BY <1>2
      <3>2. QED
        BY <1>2, <3>1, ElementOfSeq
    <2>3. QED
      BY <2>1, <2>2, WordKinds
  <1>4. toPi' = <<>> /\ toPi # <<>>
    <2>1. SubSeq(toPi, 5, 4) = <<>>
      BY SubSeqEmpty
    <2>2. QED
      BY <1>1, <1>2, <2>1
  <1> HIDE DEF addr, nbytes, version
  <1>5. /\ toUnix' \in Seq(Received)
        /\ toUnix = <<>> => \/ pPc' = "shell" /\ toUnix' = <<NAK>>
                            \/ pPc' = "body" /\ toUnix' = <<ACK>>
    BY <1>1, Printed, Replies DEF IInv
  <1>6. Typed' /\ <<>> \in Seq(Word)
    BY <1>1, <1>5, EmptySeq DEF IInv, Typed
  <1>7. Carried' /\ LoadSafe'
    BY <1>1, <1>4, <1>6 DEF IInv, Carried, LoadSafe
  <1>8. Loading'
    <2>1. CASE pPc' = "shell" /\ UNCHANGED <<hdr, got>>
      BY <2>1 DEF IInv, Loading
    <2>2. CASE /\ ~Refused(version, addr, nbytes) /\ pPc' = "body" /\ got' = <<>>
               /\ hdr' = [addr |-> addr, nbytes |-> nbytes, cksum |-> toPi[4]]
      <3>1. hdr'.addr = addr /\ hdr'.nbytes = nbytes /\ hdr'.cksum = toPi[4]
        BY <2>2
      <3>2. InRange(addr, nbytes) /\ nbytes % 4 = 0 /\ nbytes \in Nat
        BY <1>3, <2>2 DEF Refused
      <3>3. QED
        BY <1>3, <1>6, <2>2, <3>1, <3>2 DEF Loading
    <2>3. QED
      BY <1>1, <2>1, <2>2
  <1>9. \/ /\ uPc = "ack2" /\ img \in Images /\ pos = 0 /\ toUnix = <<>> /\ Sum(toPi[4])
        \/ uPc \in Ended \ {"off"}
    BY <1>1, <1>4 DEF IInv, Typed, Talk, AtReady, AtPrompt, AtUntil, AtLine, AtReboot, AtAck1,
                AtAck2, AtAck3, AtOff, Asked, Answered
  <1>10. CASE uPc = "ack2"
    <2>1. pPc' = "body" => got' = <<>> /\ hdr'.cksum = toPi[4]
      BY <1>1
    <2>2. AtAck2'
      BY <1>1, <1>4, <1>5, <1>9, <1>10, <2>1 DEF AtAck2, Sum, Ended
    <2>3. QED
      BY <1>1, <1>6, <1>7, <1>8, <1>10, <2>2 DEF IInv, Talk
  <1>11. CASE uPc \in Ended \ {"off"}
    BY <1>1, <1>6, <1>7, <1>8, <1>11 DEF IInv, Talk, Ended
  <1>12. QED
    BY <1>9, <1>10, <1>11

\* Where unix is while load_code reads the image.
LEMMA InBody ==
    ASSUME IInv, pPc = "body", IsWord
    PROVE  \/ /\ uPc = "ack3" /\ img \in Images /\ pos = 0 /\ toUnix = <<>> /\ Sum(hdr.cksum)
              /\ Len(got) + Len(toPi) = Len(Words(img)) + 1
           \/ uPc \in Ended \ {"off"}
  <1>1. toPi # <<>>
    BY DEF IsWord
  <1>2. QED
    BY <1>1 DEF IInv, Typed, Talk, AtReady, AtPrompt, AtUntil, AtLine, AtReboot, AtAck1,
                AtAck2, AtAck3, AtOff, Asked, Answered

\* The address of the next word, as long as all before it were mapped.
LEMMA NextAddress ==
    ASSUME IInv, pPc = "body", Missing, Mapped((hdr.addr + 4 * Len(got)) % Width)
    PROVE  /\ 4 * (Len(got) + 1) <= hdr.nbytes
           /\ hdr.addr + 4 * (Len(got) + 1) < MAX_ADDRESS + 4
  <1>1. /\ Len(got) \in Nat /\ hdr.addr \in Nat /\ hdr.addr < Width /\ hdr.nbytes \in Nat
        /\ hdr.nbytes % 4 = 0 /\ hdr.addr >= LAST_USED_ADDRESSES
        /\ Len(got) # 0 => hdr.addr + 4 * Len(got) < MAX_ADDRESS + 4
        /\ MAX_ADDRESS \in Nat /\ Width \in Nat /\ MAX_ADDRESS + 4 <= Width
        /\ LAST_USED_ADDRESSES \in Nat
    BY LinkAssumption DEF IInv, Loading, InRange
  <1>2. PICK k \in Nat : k = Len(got)
    BY <1>1
  <1>3. hdr.addr + 4 * k < Width /\ hdr.addr + 4 * k \in Nat
    BY <1>1, <1>2
  <1>4. (hdr.addr + 4 * k) % Width = hdr.addr + 4 * k
    BY <1>1, <1>3, ModSmall
  <1>5. hdr.addr + 4 * k < MAX_ADDRESS
    BY <1>1, <1>2, <1>3, <1>4 DEF Mapped
  <1>6. 4 * k < hdr.nbytes
    BY <1>2 DEF Missing
  <1>7. 4 * (k + 1) <= hdr.nbytes
    BY <1>1, <1>6
  <1>8. QED
    BY <1>1, <1>2, <1>5, <1>7

LEMMA StoreStep ==
    ASSUME IInv, PiStore
    PROVE  IInv'
  <1>1. /\ pPc = "body" /\ Missing /\ IsWord /\ toPi' = Tail(toPi)
        /\ \/ /\ Mapped((hdr.addr + 4 * Len(got)) % Width)
              /\ got' = Append(got, Head(toPi)) /\ UNCHANGED <<pPc, toUnix>>
           \/ pPc' = "dead" /\ Reply(Panicked) /\ UNCHANGED got
        /\ UNCHANGED <<uPc, img, pos, done, sa_flags, hdr, high, ran>>
    BY DEF PiStore, unixVars
  <1>2. /\ toPi \in Seq(Word) /\ toPi # <<>> /\ Head(toPi) \in Word
        /\ Tail(toPi) \in Seq(Word) /\ Len(toPi) \in Nat /\ Len(Tail(toPi)) = Len(toPi) - 1
    BY <1>1, NextWord
  <1>3. \/ /\ uPc = "ack3" /\ img \in Images /\ pos = 0 /\ toUnix = <<>> /\ Sum(hdr.cksum)
           /\ Len(got) + Len(toPi) = Len(Words(img)) + 1
        \/ uPc \in Ended \ {"off"}
    BY <1>1, InBody
  <1>4. /\ toUnix' \in Seq(Received)
        /\ pPc' = "dead" /\ toUnix = <<>> => toUnix' = Panicked
    BY <1>1, Printed, Replies DEF IInv, Typed
  <1>5. Typed' /\ Carried' /\ LoadSafe'
    BY <1>1, <1>2, <1>4 DEF IInv, Typed, Carried, LoadSafe
  <1>6. got \in Seq(Word) /\ Len(got) \in Nat
    BY DEF IInv, Loading
  <1>7. CASE /\ Mapped((hdr.addr + 4 * Len(got)) % Width)
             /\ got' = Append(got, Head(toPi)) /\ UNCHANGED <<pPc, toUnix>>
    <2>1. got' \in Seq(Word) /\ Len(got') = Len(got) + 1 /\ got' # <<>>
      BY <1>2, <1>6, <1>7
    <2>2. /\ 4 * (Len(got) + 1) <= hdr.nbytes
          /\ hdr.addr + 4 * (Len(got) + 1) < MAX_ADDRESS + 4
      BY <1>1, <1>7, NextAddress
    <2>3. Loading'
      BY <1>1, <1>7, <2>1, <2>2 DEF IInv, Loading
    <2>4. Len(got') + Len(toPi') = Len(got) + Len(toPi)
      BY <1>1, <1>2, <1>6, <2>1
    <2>5. uPc = "ack3" => AtAck3'
      BY <1>1, <1>2, <1>3, <1>7, <2>4 DEF AtAck3, Sum, Ended
    <2>6. Talk'
      BY <1>1, <1>3, <2>5 DEF Talk, Ended
    <2>7. QED
      BY <1>5, <2>3, <2>6 DEF IInv
  <1>8. CASE pPc' = "dead" /\ Reply(Panicked) /\ UNCHANGED got
    <2>1. Loading'
      BY <1>1, <1>8 DEF IInv, Loading
    <2>2. uPc = "ack3" => AtAck3'
      BY <1>1, <1>2, <1>3, <1>4, <1>8, Printed DEF AtAck3, Ended
    <2>3. Talk'
      BY <1>1, <1>3, <2>2 DEF Talk, Ended
    <2>4. QED
      BY <1>5, <2>1, <2>3 DEF IInv
  <1>9. QED
    BY <1>1, <1>7, <1>8

\* A checksum that is right belongs to an image, all of which has been stored.
LEMMA GoodIsWhole ==
    ASSUME IInv, pPc = "body", ~Missing, hdr.cksum = crc32(got)
    PROVE  /\ \E m \in Images : got = Words(m)
           /\ hdr.addr >= LAST_USED_ADDRESSES /\ hdr.addr + 4 * Len(got) <= MAX_ADDRESS
           /\ img \in Images /\ Sum(hdr.cksum) => got = Words(img)
  <1>1. crc32(got)[1] = "crc" /\ crc32(got)[2] = got
    BY DEF crc32
  <1>2. hdr.cksum \in Word
    BY DEF IInv, Loading
  <1>3. PICK m \in Images : hdr.cksum = crc32(Words(m))
    <2>1. \A w \in Num : w[1] # "crc"
      BY WordKinds
    <2>2. \A w \in {"code"} \X STRING : w[1] # "crc"
      OBVIOUS
    <2>3. Junk[1] # "crc"
      BY WordKinds
    <2>4. hdr.cksum[1] = "crc"
      BY <1>1
    <2>5. QED
      BY <1>2, <2>1, <2>2, <2>3, <2>4, Zenon DEF Word
  <1>4. got = Words(m)
    BY <1>1, <1>3, WordKinds
  <1>5. img \in Images /\ Sum(hdr.cksum) => got = Words(img)
    BY <1>1, WordKinds DEF Sum
  <1>6. /\ Len(got) \in Nat /\ Len(got) # 0
        /\ hdr.addr \in Nat /\ hdr.nbytes \in Nat /\ hdr.addr >= LAST_USED_ADDRESSES
        /\ (hdr.addr + hdr.nbytes) % Width <= MAX_ADDRESS
        /\ 4 * Len(got) <= hdr.nbytes
        /\ hdr.addr + 4 * Len(got) < MAX_ADDRESS + 4
        /\ MAX_ADDRESS \in Nat /\ Width \in Nat /\ MAX_ADDRESS + 4 <= Width
    <2>1. Len(got) \in Nat /\ Len(got) # 0 /\ got # <<>>
      BY <1>4, ImageWords
    <2>2. QED
      BY <2>1, LinkAssumption DEF IInv, Loading, InRange
  <1>7. PICK k \in Nat : k = Len(got)
    BY <1>6
  <1>8. ~(4 * k < hdr.nbytes)
    BY <1>7 DEF Missing
  <1>9. hdr.nbytes = 4 * k
    BY <1>6, <1>7, <1>8
  <1>10. (hdr.addr + 4 * k) % Width = hdr.addr + 4 * k
    <2>1. hdr.addr + 4 * k \in Nat /\ hdr.addr + 4 * k < Width
      BY <1>6, <1>7
    <2>2. QED
      BY <1>6, <2>1, ModSmall
  <1>11. hdr.addr + 4 * Len(got) <= MAX_ADDRESS
    BY <1>6, <1>7, <1>9, <1>10
  <1>12. QED
    BY <1>4, <1>5, <1>6, <1>11

LEMMA EotStep ==
    ASSUME IInv, PiEot
    PROVE  IInv'
  <1>1. /\ pPc = "body" /\ ~Missing /\ IsWord /\ toPi' = Tail(toPi)
        /\ \/ /\ hdr.cksum = crc32(got)
              /\ ran' = <<hdr.addr, got>> /\ pPc' = "running" /\ Reply(<<ACK>>)
           \/ pPc' = "shell" /\ Reply(<<NAK>>) /\ UNCHANGED ran
        /\ UNCHANGED <<uPc, img, pos, done, sa_flags, hdr, got, high>>
    BY DEF PiEot, Good, unixVars
  <1>2. /\ toPi \in Seq(Word) /\ Tail(toPi) \in Seq(Word) /\ Len(toPi) \in Nat
        /\ Len(Tail(toPi)) = Len(toPi) - 1
    BY <1>1, NextWord
  <1>3. \/ /\ uPc = "ack3" /\ img \in Images /\ pos = 0 /\ toUnix = <<>> /\ Sum(hdr.cksum)
           /\ Len(got) + Len(toPi) = Len(Words(img)) + 1
        \/ uPc \in Ended \ {"off"}
    BY <1>1, InBody
  <1>4. /\ toUnix' \in Seq(Received)
        /\ toUnix = <<>> => \/ pPc' = "running" /\ toUnix' = <<ACK>>
                            \/ pPc' = "shell" /\ toUnix' = <<NAK>>
    BY <1>1, Printed, Replies DEF IInv
  <1>5. Typed' /\ Carried' /\ Loading'
    BY <1>1, <1>2, <1>4 DEF IInv, Typed, Carried, Loading
  <1>6. CASE /\ hdr.cksum = crc32(got)
             /\ ran' = <<hdr.addr, got>> /\ pPc' = "running"
    <2>1. /\ \E m \in Images : got = Words(m)
          /\ hdr.addr >= LAST_USED_ADDRESSES /\ hdr.addr + 4 * Len(got) <= MAX_ADDRESS
          /\ img \in Images /\ Sum(hdr.cksum) => got = Words(img)
      BY <1>1, <1>6, GoodIsWhole
    <2>2. ran'[1] = hdr.addr /\ ran'[2] = got
      BY <1>6
    <2>3. LoadSafe'
      BY <2>1, <2>2 DEF LoadSafe
    <2>4. ASSUME uPc = "ack3" PROVE AtAck3'
      <3>1. /\ img \in Images /\ pos = 0 /\ toUnix = <<>>
            /\ Len(got) + Len(toPi) = Len(Words(img)) + 1 /\ got = Words(img)
        BY <1>3, <2>1, <2>4 DEF Ended
      <3>2. Len(Words(img)) \in Nat
        BY <3>1, ImageWords
      <3>3. Len(Tail(toPi)) = 0
        BY <1>2, <3>1, <3>2
      <3>4. PICK v \in Seq(Word) : v = Tail(toPi)
        BY <1>2
      <3>5. toPi' = <<>>
        BY <1>1, <3>3, <3>4
      <3>6. toUnix' = <<ACK>>
        BY <1>4, <1>6, <3>1
      <3>7. QED
        BY <1>1, <1>6, <3>1, <3>5, <3>6 DEF AtAck3
    <2>5. Talk'
      BY <1>1, <1>3, <2>4 DEF Talk, Ended
    <2>6. QED
      BY <1>5, <2>3, <2>5 DEF IInv
  <1>7. CASE pPc' = "shell" /\ UNCHANGED ran
    <2>1. LoadSafe'
      BY <1>7 DEF IInv, LoadSafe
    <2>2. ASSUME uPc = "ack3" PROVE AtAck3'
      <3>1. img \in Images /\ pos = 0 /\ toUnix' = <<NAK>>
        BY <1>3, <1>4, <1>7, <2>2 DEF Ended
      <3>2. QED
        BY <1>1, <1>2, <1>7, <3>1, Printed DEF AtAck3
    <2>3. Talk'
      BY <1>1, <1>3, <2>2 DEF Talk, Ended
    <2>4. QED
      BY <1>5, <2>1, <2>3 DEF IInv
  <1>8. QED
    BY <1>1, <1>6, <1>7
-----------------------------------------------------------------------------
(* The invariant *)

LEMMA InitInv ==
    ASSUME MarkerFree, Init
    PROVE  IInv
  <1>1. 0 \in 0 .. Width - 1 /\ EOT \in Num
    BY LinkAssumption DEF EOT, Num
  <1>2. hdr.addr = 0 /\ hdr.nbytes = 0 /\ got = <<>> /\ ran = <<>>
    BY DEF Init, NoHeader
  <1>3. got \in Seq(Word) /\ toPi \in Seq(Word) /\ toUnix \in Seq(Received)
    BY EmptySeq DEF Init
  <1>4. Typed
    <2>1. done \in BOOLEAN /\ high \in BOOLEAN
      BY Zenon DEF Init
    <2>2. uPc = "ready" /\ pPc = "boot" /\ pos = 0
      BY DEF Init
    <2>3. QED
      BY <1>3, <2>1, <2>2 DEF Typed
  <1>5. Carried /\ Loading /\ LoadSafe
    <2>1. pPc # "body" /\ pPc # "header"
      BY DEF Init
    <2>2. Carried
      BY <1>3, <2>1 DEF Carried
    <2>3. Loading
      BY <1>1, <1>2, <1>3, <2>1 DEF Loading
    <2>4. LoadSafe
      BY <1>2 DEF LoadSafe
    <2>5. QED
      BY <2>2, <2>3, <2>4
  <1>6. Talk
    BY DEF Init, Talk, AtReady
  <1>7. QED
    BY <1>4, <1>5, <1>6 DEF IInv

LEMMA Stutter ==
    ASSUME IInv, UNCHANGED vars
    PROVE  IInv'
  <1>1. UNCHANGED <<uPc, img, pos, done, sa_flags, toPi, toUnix, pPc, hdr, got, high, ran>>
    BY DEF vars
  <1>2. Typed' /\ Carried' /\ Loading' /\ LoadSafe'
    BY <1>1 DEF IInv, Typed, Carried, Loading, LoadSafe
  <1>3. Talk'
    BY <1>1 DEF IInv, Talk, AtReady, AtPrompt, AtUntil, AtLine, AtReboot, AtAck1, AtAck2,
                AtAck3, AtOff, Asked, Answered, Rest, Sum
  <1>4. QED
    BY <1>2, <1>3 DEF IInv

LEMMA StepInv == IInv /\ [Next]_vars => IInv'
  <1> SUFFICES ASSUME IInv, [Next]_vars PROVE IInv'
    OBVIOUS
  <1>1. CASE Pi
    BY <1>1, BootStep, LineStep, RunStep, JunkStep, HeaderStep, StoreStep, EotStep DEF Pi
  <1>2. CASE UnixRuns
    BY <1>2, AwaitReadyStep, AwaitDoneStep, LoopStep, LocalStep, SendHeaderStep,
       SendBodyStep, SentStep, ReadlineStep, TimeoutStep DEF UnixRuns
  <1>3. CASE User
    BY <1>3, LocalStep, BuiltinStep, LoadStep DEF User
  <1>4. CASE ControlC
    BY <1>4, ControlCStep
  <1>5. CASE Noise
    BY <1>5, NoiseStep
  <1>6. CASE UNCHANGED vars
    BY <1>6, Stutter
  <1>7. QED
    BY <1>1, <1>2, <1>3, <1>4, <1>5, <1>6 DEF Next

LEMMA Invariant == MarkerFree /\ Spec => []IInv
  <1>1. MarkerFree /\ Init => IInv
    BY InitInv
  <1>2. QED
    BY <1>1, StepInv, PTL DEF Spec
-----------------------------------------------------------------------------
(* The theorems.  MarkerFree is about the files and the programs, not about  *)
(* the shells: a text that holds CMD-DONE ends echo_until in its middle.     *)

\* The variables keep their types whatever the images, the noise and the user
\* do: the matcher of echo_until never runs past the marker (the assertion of
\* fsm_chr_done), and load_code never stores more words than the header named.
THEOREM TypeCorrect == MarkerFree /\ Spec => []TypeOK
  <1>1. IInv => TypeOK
    <2>1. Len(ready) = 2 /\ Len(cmd_done) = 3
      BY DEF ready, cmd_done
    <2>2. SUFFICES ASSUME IInv PROVE TypeOK
      OBVIOUS
    <2>3. pos < Len(IF uPc = "ready" THEN ready ELSE cmd_done)
      <3>1. CASE uPc = "ready"
        <4>1. pos \in 0 .. 1
          BY <2>2, <3>1 DEF IInv, Typed
        <4>2. (IF uPc = "ready" THEN ready ELSE cmd_done) = ready
          BY <3>1
        <4>3. QED
          BY <2>1, <4>1, <4>2
      <3>2. CASE uPc # "ready"
        <4>1. pos \in 0 .. 2
          BY <2>2 DEF IInv, Typed
        <4>2. (IF uPc = "ready" THEN ready ELSE cmd_done) = cmd_done
          BY <3>2
        <4>3. QED
          BY <2>1, <4>1, <4>2
      <3>3. QED
        BY <3>1, <3>2
    <2>4. 4 * Len(got) <= hdr.nbytes \/ got = <<>>
      BY <2>2 DEF IInv, Loading
    <2>5. QED
      BY <2>2, <2>3, <2>4 DEF IInv, Typed, TypeOK
  <1>2. QED
    BY <1>1, Invariant, PTL

\* The unix shell is back at its prompt only when the pi is back in readline and
\* the line is empty in both directions, whatever was typed, garbled or
\* interrupted: the wait of echo_until ends at the end of the reply.
THEOREM InSyncCorrect == MarkerFree /\ Spec => []InSync
  <1>1. IInv => InSync
    BY DEF IInv, Talk, AtPrompt, InSync
  <1>2. QED
    BY <1>1, Invariant, PTL

\* load_code branches only to a whole image that stands inside the range kept
\* for programs, for every image, every garbled word and every interruption,
\* with addr + nbytes computed in an unsigned word.
THEOREM LoadSafeCorrect == MarkerFree /\ Spec => []LoadSafe
  <1>1. IInv => LoadSafe
    BY DEF IInv
  <1>2. QED
    BY <1>1, Invariant, PTL

\* send_reboot reports a reboot only when the pi has gone and has nothing more
\* to say.
THEOREM OffMeansRebootedCorrect == MarkerFree /\ Spec => []OffMeansRebooted
  <1>1. IInv => OffMeansRebooted
    BY DEF IInv, Talk, AtOff, OffMeansRebooted
  <1>2. QED
    BY <1>1, Invariant, PTL
=============================================================================
