----------------------------- MODULE PiFsProofs -----------------------------
(* Proofs about PiFs, for any replies, buffers, allocations, offsets, sizes    *)
(* and numbers of threads and writes.  What is said of the contents of         *)
(* /console is for one thread that writes and any number that read: two that   *)
(* write at once do mix their characters (README, section 6).                  *)
EXTENDS PiFs, SequenceTheorems, FiniteSetTheorems, TLAPS

\* Requests that write come from one thread.
OneWriter == Writers = {Main}

\* With several threads, the file has not used up its first allocation: a read
\* beside a write that moves the data may copy memory given back.
Roomy == threads = {Main} \/ console.n_data < console.n_alloc
-----------------------------------------------------------------------------
(* The inductive invariants *)

Ops == Paths \cup {"none", "main"}
Thr == [pc : {"idle", "until", "append", "copy"}, op : Ops, pos : {0, 1},
        c : Char \cup {NUL}, off : Nat, gen : Nat, n : Nat]
File == [data : Seq(Char), n_alloc : Nat, n_data : Nat, gen : Nat]

\* The bytes counted are those there, and they are in the allocation.
Sound(f) == f.n_data = Len(f.data) /\ f.n_data <= f.n_alloc

\* A character that is to be appended has a place in the file or at its end.
TypeInv ==
    /\ w \in [Workers -> Thr]
    /\ console \in File /\ Sound(console)
    /\ \A t \in Workers : w[t].pc = "append" => w[t].c \in Char /\ w[t].off <= console.n_data
    /\ out \in Seq(Char) /\ printed \in Seq(Char)
    /\ shell \in {"start", "reading", "stuck", "gone"}
    /\ fuse \in {"main", "serving", "exit", "panic"}

\* The character read from the pipe and not yet in the file.
Held == IF w[Main].pc = "append" THEN <<w[Main].c>> ELSE <<>>

\* Only the writer is between the pipe and the file, its place in the file is
\* the end, and nothing printed is lost or doubled on the way.
Record ==
    /\ \A t \in Workers \ {Main} : w[t].pc \in {"idle", "copy"}
    /\ w[Main].pc = "append" => w[Main].off = console.n_data
    /\ printed = console.data \o (Held \o out)

\* What a reader is about to copy is there, and in the present allocation.
CopySound ==
    /\ \A t \in Workers : w[t].pc = "copy" =>
          w[t].off + w[t].n <= console.n_data /\ w[t].gen = console.gen
    /\ threads = {Main} => \A t \in Workers \ {Main} : w[t].pc = "idle"
-----------------------------------------------------------------------------
(* The operators *)

LEMMA MaxOfTwo ==
    ASSUME NEW a \in Int, NEW b \in Int
    PROVE  Max({a, b}) = IF a >= b THEN a ELSE b
  <1>1. \E x \in {a, b} : \A y \in {a, b} : x >= y
    OBVIOUS
  <1>2. \A y \in {a, b} : Max({a, b}) >= y
    BY <1>1 DEF Max
  <1>3. Max({a, b}) \in {a, b}
    BY <1>1 DEF Max
  <1>4. QED
    BY <1>2, <1>3

LEMMA MinOfTwo ==
    ASSUME NEW a \in Int, NEW b \in Int
    PROVE  Min({a, b}) = IF a <= b THEN a ELSE b
  <1>1. \E x \in {a, b} : \A y \in {a, b} : x <= y
    OBVIOUS
  <1>2. \A y \in {a, b} : Min({a, b}) <= y
    BY <1>1 DEF Min
  <1>3. Min({a, b}) \in {a, b}
    BY <1>1 DEF Min
  <1>4. QED
    BY <1>2, <1>3

\* Who holds a character, as a sequence.
LEMMA NoneToSeq == SetToSeq({}) = <<>>
  <1>1. Cardinality({}) = 0
    BY FS_EmptySet
  <1>2. \E f \in [1 .. 0 -> {}] : IsInjective(f)
    <2>1. <<>> \in [1 .. 0 -> {}]
      OBVIOUS
    <2>2. IsInjective(<<>>)
      BY DEF IsInjective
    <2>3. QED
      BY <2>1, <2>2
  <1>3. SetToSeq({}) \in [1 .. 0 -> {}]
    BY <1>1, <1>2 DEF SetToSeq
  <1>4. QED
    BY <1>3

LEMMA OneToSeq == ASSUME NEW m PROVE SetToSeq({m}) = <<m>>
  <1>1. Cardinality({m}) = 1
    BY FS_Singleton
  <1>2. \E f \in [1 .. 1 -> {m}] : IsInjective(f)
    <2>1. <<m>> \in [1 .. 1 -> {m}]
      OBVIOUS
    <2>2. IsInjective(<<m>>)
      BY DEF IsInjective
    <2>3. QED
      BY <2>1, <2>2
  <1>3. SetToSeq({m}) \in [1 .. 1 -> {m}]
    BY <1>1, <1>2 DEF SetToSeq
  <1>4. QED
    BY <1>3

\* append_to_file keeps the file sound, never shrinks it, and moves it only when
\* it is full.
LEMMA AppendSound ==
    ASSUME NEW f \in File, Sound(f), NEW c \in Char, NEW off \in Nat, off <= f.n_data
    PROVE  LET r == append_to_file(f, c, off)
           IN  /\ r \in File /\ Sound(r) /\ r.n_data >= f.n_data
               /\ f.n_data < f.n_alloc => r.gen = f.gen
  <1> DEFINE r == append_to_file(f, c, off)
             L == IF f.n_data >= off + 1 THEN f.n_data ELSE off + 1
             d == [i \in 1 .. L |-> IF i = off + 1 THEN c ELSE f.data[i]]
  <1>1. /\ f.data \in Seq(Char) /\ f.n_alloc \in Nat /\ f.n_data \in Nat /\ f.gen \in Nat
        /\ f.n_data = Len(f.data) /\ f.n_data <= f.n_alloc
    BY DEF File, Sound
  <1>2. Max({Len(f.data), off + 1}) = L /\ Max({f.n_data, off + 1}) = L /\ L \in Nat
    BY <1>1, MaxOfTwo
  <1>3. r = [data |-> d, n_alloc |-> IF off + 1 <= f.n_alloc THEN f.n_alloc ELSE off + 1,
             n_data |-> L, gen |-> IF off + 1 <= f.n_alloc THEN f.gen ELSE f.gen + 1]
    BY <1>2 DEF append_to_file
  <1>4. ASSUME NEW i \in 1 .. L PROVE d[i] \in Char
    <2>1. CASE i = off + 1
      BY <2>1
    <2>2. CASE i # off + 1
      <3>1. i \in 1 .. Len(f.data)
        BY <1>1, <2>2
      <3>2. f.data[i] \in Char
        BY <1>1, <3>1
      <3>3. QED
        BY <2>2, <3>2
    <2>3. QED
      BY <2>1, <2>2
  <1>5. d \in Seq(Char) /\ Len(d) = L
    <2>1. d \in [1 .. L -> Char]
      BY <1>4
    <2>2. QED
      BY <1>2, <2>1
  <1> HIDE DEF d
  <1>6. r \in File /\ Sound(r)
    BY <1>1, <1>2, <1>3, <1>5 DEF File, Sound
  <1>7. r.n_data >= f.n_data /\ (f.n_data < f.n_alloc => r.gen = f.gen)
    BY <1>1, <1>2, <1>3
  <1>8. QED
    BY <1>6, <1>7

\* At the end of the file it appends.
LEMMA AppendsOne ==
    ASSUME NEW f \in File, Sound(f), NEW c \in Char
    PROVE  append_to_file(f, c, f.n_data).data = Append(f.data, c)
  <1>1. /\ f.data \in Seq(Char) /\ f.n_data \in Nat /\ f.n_data = Len(f.data)
    BY DEF File, Sound
  <1>2. Max({Len(f.data), f.n_data + 1}) = f.n_data + 1
    BY <1>1, MaxOfTwo
  <1>3. append_to_file(f, c, f.n_data).data =
          [i \in 1 .. f.n_data + 1 |-> IF i = f.n_data + 1 THEN c ELSE f.data[i]]
    BY <1>2 DEF append_to_file
  <1>4. QED
    BY <1>1, <1>3
-----------------------------------------------------------------------------
(* Types *)

LEMMA MainWrites == Main \in Writers /\ Main \in Workers
  BY FsAssumption DEF Main

LEMMA IdleTyped == Idle \in Thr
  BY DEF Idle, Thr, Ops

LEMMA PromptLen == Len(prompt) = 2 /\ prompt \in Seq(Char)
  BY DEF prompt, Char

LEMMA TypeInit == Init => TypeInv
  <1> SUFFICES ASSUME Init PROVE TypeInv
    OBVIOUS
  <1>1. [Idle EXCEPT !.pc = "until", !.op = "main"] \in Thr
    BY DEF Idle, Thr, Ops
  <1>2. w \in [Workers -> Thr]
    BY <1>1, IdleTyped DEF Init
  <1>3. \A t \in Workers : w[t].pc # "append"
    BY DEF Init, Idle
  <1>4. PICK n \in IF threads = Workers THEN Allocs.many ELSE Allocs.one :
          console = [data |-> <<>>, n_alloc |-> n, n_data |-> 0, gen |-> 0]
    BY DEF Init
  <1>5. n \in Nat
    BY <1>4, FsAssumption
  <1>6. console \in File /\ Sound(console)
    BY <1>4, <1>5 DEF File, Sound
  <1>7. out \in Seq(Char) /\ printed \in Seq(Char) /\ shell = "start" /\ fuse = "main"
    BY DEF Init
  <1>8. QED
    BY <1>2, <1>3, <1>6, <1>7 DEF TypeInv

\* A reply is made of characters.
LEMMA SaysTyped ==
    ASSUME TypeInv, NEW text \in Seq(Char), Says(text),
           UNCHANGED <<w, console, fuse>>, shell' \in {"start", "reading", "stuck", "gone"}
    PROVE  TypeInv'
  <1>1. out' \in Seq(Char) /\ printed' \in Seq(Char)
    BY DEF Says, TypeInv
  <1>2. QED
    BY <1>1 DEF TypeInv

\* What the shell does: it prints a text, and nothing else here changes.
LEMMA ShellSays ==
    ASSUME Shell
    PROVE  /\ \E text \in Seq(Char) : Says(text)
           /\ UNCHANGED <<w, ret, console, threads, fuse, sent>>
           /\ shell' \in {shell, "reading", "stuck", "gone"}
  <1>1. prompt \in Seq(Char) /\ <<"x", "n">> \in Seq(Char) /\ <<"P", "x", "n">> \in Seq(Char)
        /\ <<>> \in Seq(Char)
    BY DEF prompt, Char
  <1>2. \A s \in Seq(Char) : s \o prompt \in Seq(Char)
    BY <1>1
  <1>3. Texts \subseteq Seq(Char)
    BY FsAssumption
  <1>4. CASE ShellStart
    <2>1. CASE Says(<<"x", "n">> \o prompt) /\ shell' = "reading"
      BY <1>2, <1>1, <1>4, <2>1 DEF ShellStart
    <2>2. CASE Says(<<"x", "n">>) /\ shell' = "gone"
      BY <1>1, <1>4, <2>2 DEF ShellStart
    <2>3. QED
      BY <1>4, <2>1, <2>2 DEF ShellStart
  <1>5. CASE ShellLine
    <2>1. CASE (\E text \in IF Head(toShell) = "empty" THEN {<<>>} ELSE Texts :
                  Says(text \o prompt)) /\ UNCHANGED shell
      <3>1. PICK text \in IF Head(toShell) = "empty" THEN {<<>>} ELSE Texts :
              Says(text \o prompt)
        BY <2>1
      <3>2. text \in Seq(Char)
        BY <1>1, <1>3, <3>1
      <3>3. QED
        BY <1>2, <1>5, <2>1, <3>1, <3>2 DEF ShellLine
    <2>2. CASE Says(<<"P", "x", "n">>) /\ shell' = "gone"
      BY <1>1, <1>5, <2>2 DEF ShellLine
    <2>3. CASE shell' \in {"gone", "stuck"} /\ Says(<<"x", "n">>)
      BY <1>1, <1>5, <2>3 DEF ShellLine
    <2>4. QED
      BY <1>5, <2>1, <2>2, <2>3 DEF ShellLine
  <1>6. QED
    BY <1>4, <1>5 DEF Shell

\* Calls that only look leave everything but the answer alone.
Looks(t) == pi_open(t) \/ pi_getattr(t) \/ pi_readdir(t) \/ pi_truncate(t)

LEMMA LooksOnly ==
    ASSUME NEW t \in Workers, Looks(t)
    PROVE  /\ UNCHANGED <<w, console, threads, toShell, out, shell, printed, sent>>
           /\ fuse' \in {fuse, "panic"}
           /\ ret'[1] # "bytes"
  <1>1. CASE pi_open(t)
    BY <1>1 DEF pi_open, Looked, Answer, Give
  <1>2. CASE pi_getattr(t)
    BY <1>2 DEF pi_getattr, Looked, Answer, Give
  <1>3. CASE pi_readdir(t)
    BY <1>3 DEF pi_readdir, Looked, Answer, Give
  <1>4. CASE pi_truncate(t)
    BY <1>4 DEF pi_truncate, Looked, Answer, Give
  <1>5. QED
    BY <1>1, <1>2, <1>3, <1>4 DEF Looks

LEMMA CopyRecord ==
    ASSUME NEW off, NEW n, NEW gen
    PROVE  [Idle EXCEPT !.pc = "copy", !.off = off, !.n = n, !.gen = gen] =
           [pc |-> "copy", op |-> "none", pos |-> 0, c |-> NUL, off |-> off, gen |-> gen, n |-> n]
  <1> DEFINE Rec(p, o, g, k) == [pc |-> p, op |-> "none", pos |-> 0, c |-> NUL, off |-> o,
                                 gen |-> g, n |-> k]
  <1>1. Idle = Rec("idle", 0, 0, 0)
    BY Zenon DEF Idle
  <1>2. [Rec("idle", 0, 0, 0) EXCEPT !.pc = "copy"] = Rec("copy", 0, 0, 0)
    OBVIOUS
  <1>3. [Rec("copy", 0, 0, 0) EXCEPT !.off = off] = Rec("copy", off, 0, 0)
    OBVIOUS
  <1>4. [Rec("copy", off, 0, 0) EXCEPT !.n = n] = Rec("copy", off, 0, n)
    OBVIOUS
  <1>5. [Rec("copy", off, 0, n) EXCEPT !.gen = gen] = Rec("copy", off, gen, n)
    OBVIOUS
  <1>6. Rec("copy", off, gen, n) = [pc |-> "copy", op |-> "none", pos |-> 0, c |-> NUL,
                                    off |-> off, gen |-> gen, n |-> n]
    OBVIOUS
  <1> HIDE DEF Rec
  <1>7. QED
    BY <1>1, <1>2, <1>3, <1>4, <1>5, <1>6

\* pi_read starts a copy that lies inside the file, or answers at once.
Begun(t, r) == w' = [w EXCEPT ![t] = r] /\ UNCHANGED ret

LEMMA ReadBegins ==
    ASSUME TypeInv, NEW t \in Workers, pi_read(t)
    PROVE  /\ UNCHANGED <<fuse, console, threads, toShell, out, shell, printed, sent>>
           /\ \/ UNCHANGED w /\ ret'[1] # "bytes"
              \/ \E r \in Thr : /\ Begun(t, r) /\ r.pc = "copy" /\ r.gen = console.gen
                                /\ r.pos = 0 /\ r.off + r.n <= console.n_data
  <1>1. console.n_data \in Nat /\ console.gen \in Nat
    BY DEF TypeInv, File
  <1>2. PICK path \in Paths, off \in ReadSizes, size \in ReadSizes :
          LET r == file_lookup(path, perm_rd)
              n_data == IF path = "console" THEN console.n_data ELSE 0
          IN  \/ r # "ok" /\ Answer(r) /\ UNCHANGED w
              \/ r = "ok" /\ (off > n_data \/ path # "console")
                 /\ Give("size", 0) /\ UNCHANGED w
              \/ /\ r = "ok" /\ path = "console" /\ off <= n_data
                 /\ w' = [w EXCEPT ![t] = [Idle EXCEPT !.pc = "copy", !.off = off,
                                             !.n = Clip(size, off), !.gen = console.gen]]
                 /\ UNCHANGED ret
    BY Zenon DEF pi_read
  <1>3. off \in Nat /\ size \in Nat
    BY <1>2, FsAssumption
  <1>4. CASE Answer(file_lookup(path, perm_rd)) /\ UNCHANGED w
    <2>1. ret'[1] # "bytes"
      BY <1>4 DEF Answer, Give
    <2>2. QED
      BY <1>4, <2>1 DEF pi_read
  <1>5. CASE Give("size", 0) /\ UNCHANGED w
    BY <1>5 DEF Give, pi_read
  <1>6. CASE /\ off <= console.n_data
             /\ Begun(t, [Idle EXCEPT !.pc = "copy", !.off = off,
                            !.n = Clip(size, off), !.gen = console.gen])
    <2> DEFINE r == [Idle EXCEPT !.pc = "copy", !.off = off,
                       !.n = Clip(size, off), !.gen = console.gen]
    <2>1. Clip(size, off) \in Nat /\ off + Clip(size, off) <= console.n_data
      <3>1. console.n_data - off \in Int
        BY <1>1, <1>3
      <3>2. Clip(size, off) = IF size <= console.n_data - off THEN size ELSE console.n_data - off
        BY <1>3, <3>1, MinOfTwo DEF Clip
      <3>3. QED
        BY <1>1, <1>3, <1>6, <3>2
    <2>2. r = [pc |-> "copy", op |-> "none", pos |-> 0, c |-> NUL, off |-> off,
               gen |-> console.gen, n |-> Clip(size, off)]
      BY CopyRecord
    <2>3. r \in Thr
      BY <1>1, <1>3, <2>1, <2>2 DEF Thr, Ops
    <2>4. r.pc = "copy" /\ r.pos = 0 /\ r.gen = console.gen /\ r.off + r.n <= console.n_data
      BY <2>1, <2>2
    <2> HIDE DEF r
    <2>5. Begun(t, r)
      BY <1>6 DEF r
    <2>6. UNCHANGED <<fuse, console, threads, toShell, out, shell, printed, sent>>
      BY DEF pi_read
    <2>7. QED
      BY <2>3, <2>4, <2>5, <2>6
  <1>7. QED
    BY <1>2, <1>4, <1>5, <1>6 DEF Begun

\* pi_write answers, ends the process, or begins to wait for its reply.
LEMMA WriteBegins ==
    ASSUME NEW t \in Workers, pi_write(t)
    PROVE  /\ t \in Writers
           /\ UNCHANGED <<console, threads, out, shell, printed>>
           /\ fuse' \in {fuse, "exit"} /\ (ret' = ret \/ ret'[1] # "bytes")
           /\ \/ UNCHANGED w
              \/ \E r \in Thr : w' = [w EXCEPT ![t] = r] /\ r.pc = "until"
  <1>1. /\ t \in Writers /\ UNCHANGED <<console, threads, out, shell, printed>>
    BY DEF pi_write
  <1>2. PICK path \in Paths, buf \in Bufs :
          LET r == file_lookup(path, perm_wr)
          IN  \/ r # "ok" /\ Answer(r) /\ UNCHANGED <<w, toShell, sent, fuse>>
              \/ /\ r = "ok" /\ shell = "gone"
                 /\ fuse' = "exit" /\ UNCHANGED <<w, ret, toShell, sent>>
              \/ /\ r = "ok" /\ shell # "gone"
                 /\ toShell' = toShell \o Lines(path, IF path = "reboot" THEN <<>> ELSE buf)
                 /\ sent' = [writes |-> sent.writes + 1,
                             lines |-> sent.lines + 1 + (IF path = "reboot" THEN 0 ELSE Len(buf))]
                 /\ w' = [w EXCEPT ![t] = [Idle EXCEPT !.pc = "until", !.op = path]]
                 /\ UNCHANGED <<ret, fuse>>
    BY Zenon DEF pi_write
  <1>3. CASE Answer(file_lookup(path, perm_wr)) /\ UNCHANGED <<w, toShell, sent, fuse>>
    BY <1>1, <1>3 DEF Answer, Give
  <1>4. CASE fuse' = "exit" /\ UNCHANGED <<w, ret, toShell, sent>>
    BY <1>1, <1>4
  <1>5. CASE /\ w' = [w EXCEPT ![t] = [Idle EXCEPT !.pc = "until", !.op = path]]
             /\ UNCHANGED <<ret, fuse>>
    <2>1. [Idle EXCEPT !.pc = "until", !.op = path] \in Thr
      BY DEF Idle, Thr, Ops
    <2>2. [Idle EXCEPT !.pc = "until", !.op = path].pc = "until"
      BY DEF Idle
    <2>3. QED
      BY <1>1, <1>5, <2>1, <2>2
  <1>6. QED
    BY <1>2, <1>3, <1>4, <1>5

\* The steps of a thread change its own record only.
Others(t) == \A u \in Workers \ {t} : w'[u] = w[u]

LEMMA OneThread ==
    ASSUME w \in [Workers -> Thr], NEW t \in Workers, NEW r \in Thr, w' = [w EXCEPT ![t] = r]
    PROVE  w' \in [Workers -> Thr] /\ Others(t) /\ w'[t] = r
  BY DEF Others

LEMMA ReadCharDoes ==
    ASSUME TypeInv, NEW t \in Workers, ReadChar(t)
    PROVE  /\ w[t].pc = "until" /\ w' \in [Workers -> Thr] /\ Others(t)
           /\ w'[t].pc = "append" /\ w'[t].c = Head(out) /\ w'[t].off = console.n_data
           /\ w'[t].pos = w[t].pos
           /\ Head(out) \in Char /\ out' \in Seq(Char) /\ out = <<Head(out)>> \o out'
           /\ UNCHANGED <<ret, console, threads, toShell, shell, fuse, printed, sent>>
  <1>1. w \in [Workers -> Thr] /\ out \in Seq(Char) /\ console.n_data \in Nat
    BY DEF TypeInv, File
  <1>2. out # <<>> /\ out' = Tail(out)
    BY DEF ReadChar
  <1>3. Head(out) \in Char /\ out' \in Seq(Char) /\ out = <<Head(out)>> \o out'
    BY <1>1, <1>2
  <1> DEFINE w1 == [w EXCEPT ![t].pc = "append"]
             w2 == [w1 EXCEPT ![t].c = Head(out)]
             w3 == [w2 EXCEPT ![t].off = console.n_data]
  <1>4. w' = w3
    BY Zenon DEF ReadChar
  <1>5. w1 \in [Workers -> Thr] /\ w1[t].pc = "append" /\ w1[t].pos = w[t].pos
        /\ \A u \in Workers \ {t} : w1[u] = w[u]
    BY <1>1 DEF Thr
  <1> HIDE DEF w1
  <1>6. w2 \in [Workers -> Thr] /\ w2[t].pc = "append" /\ w2[t].c = Head(out)
        /\ w2[t].pos = w[t].pos /\ \A u \in Workers \ {t} : w2[u] = w[u]
    BY <1>3, <1>5 DEF Thr
  <1> HIDE DEF w2
  <1>7. w3 \in [Workers -> Thr] /\ w3[t].pc = "append" /\ w3[t].c = Head(out)
        /\ w3[t].pos = w[t].pos /\ w3[t].off = console.n_data /\ \A u \in Workers \ {t} : w3[u] = w[u]
    BY <1>1, <1>6 DEF Thr
  <1> HIDE DEF w3
  <1>8. /\ w[t].pc = "until"
        /\ UNCHANGED <<ret, console, threads, toShell, shell, fuse, printed, sent>>
    BY DEF ReadChar
  <1>9. QED
    BY <1>3, <1>4, <1>7, <1>8 DEF Others

\* The end of a call.
LEMMA ReturnDoes ==
    ASSUME TypeInv, NEW t \in Workers, Return(t)
    PROVE  /\ w' \in [Workers -> Thr] /\ Others(t) /\ w'[t].pc = "idle" /\ w'[t].pos = 0
           /\ fuse' \in {fuse, "serving", "exit"} /\ ret'[1] # "bytes"
  <1>1. w \in [Workers -> Thr]
    BY DEF TypeInv
  <1>2. w' = [w EXCEPT ![t] = Idle]
    BY DEF Return
  <1>3. w' \in [Workers -> Thr] /\ Others(t) /\ w'[t] = Idle
    BY <1>1, <1>2, IdleTyped, OneThread
  <1>4. Idle.pc = "idle" /\ Idle.pos = 0
    BY DEF Idle
  <1>5. ret'[1] # "bytes"
    BY DEF Return, Answer, Give
  <1>6. fuse' \in {fuse, "serving", "exit"}
    BY DEF Return
  <1>7. QED
    BY <1>3, <1>4, <1>5, <1>6

LEMMA WrConsoleDoes ==
    ASSUME TypeInv, NEW t \in Workers, wr_console(t)
    PROVE  /\ w[t].pc = "append" /\ w' \in [Workers -> Thr] /\ Others(t)
           /\ \/ Match(t) = 2 /\ w'[t].pc = "idle" /\ w'[t].pos = 0
              \/ Match(t) # 2 /\ w'[t].pc = "until" /\ w'[t].pos = Match(t)
           /\ console' = append_to_file(console, w[t].c, w[t].off)
           /\ fuse' \in {fuse, "serving", "exit"} /\ (ret' = ret \/ ret'[1] # "bytes")
           /\ UNCHANGED <<threads, toShell, out, shell, printed, sent>>
  <1>1. w \in [Workers -> Thr]
    BY DEF TypeInv
  <1>2. /\ w[t].pc = "append" /\ console' = append_to_file(console, w[t].c, w[t].off)
        /\ UNCHANGED <<threads, toShell, out, shell, printed, sent>>
    BY DEF wr_console
  <1>3. CASE Match(t) = Len(prompt) /\ Return(t)
    BY <1>2, <1>3, ReturnDoes, PromptLen
  <1>4. CASE /\ Match(t) # Len(prompt)
             /\ w' = [w EXCEPT ![t].pc = "until", ![t].pos = Match(t)]
             /\ UNCHANGED <<ret, fuse>>
    <2>1. w[t].pos \in {0, 1}
      BY <1>1 DEF Thr
    <2>2. Match(t) \in {0, 1}
      BY <1>4, <2>1, PromptLen DEF Match
    <2> DEFINE w1 == [w EXCEPT ![t].pc = "until"]
               w2 == [w1 EXCEPT ![t].pos = Match(t)]
    <2>3. w' = w2
      BY <1>4, Zenon
    <2>4. w1 \in [Workers -> Thr] /\ w1[t].pc = "until" /\ \A u \in Workers \ {t} : w1[u] = w[u]
      BY <1>1 DEF Thr
    <2> HIDE DEF w1
    <2>5. w2 \in [Workers -> Thr] /\ w2[t].pc = "until" /\ w2[t].pos = Match(t)
          /\ \A u \in Workers \ {t} : w2[u] = w[u]
      BY <2>2, <2>4 DEF Thr
    <2> HIDE DEF w2
    <2>6. QED
      BY <1>2, <1>4, <2>3, <2>5, PromptLen DEF Others
  <1>5. QED
    BY <1>3, <1>4 DEF wr_console

LEMMA ClosedDoes ==
    ASSUME TypeInv, NEW t \in Workers, Closed(t)
    PROVE  /\ w[t].pc = "until" /\ w' \in [Workers -> Thr] /\ Others(t) /\ w'[t].pc = "idle"
           /\ w'[t].pos = 0 /\ out = <<>> /\ shell = "gone"
           /\ fuse' \in {fuse, "serving", "exit"} /\ ret'[1] # "bytes"
           /\ UNCHANGED <<console, threads, toShell, out, shell, printed, sent>>
  BY ReturnDoes DEF Closed

LEMMA CopyDoes ==
    ASSUME TypeInv, NEW t \in Workers, Copy(t)
    PROVE  /\ w[t].pc = "copy" /\ w' \in [Workers -> Thr] /\ Others(t) /\ w'[t].pc = "idle"
           /\ w'[t].pos = 0
           /\ ret' = <<"bytes", [off |-> w[t].off, freed |-> w[t].gen # console.gen,
                                 data |-> Bytes(console, w[t].off, w[t].n)]>>
           /\ UNCHANGED <<fuse, console, threads, toShell, out, shell, printed, sent>>
  <1>1. w \in [Workers -> Thr] /\ w' = [w EXCEPT ![t] = Idle]
    BY DEF TypeInv, Copy
  <1>2. w' \in [Workers -> Thr] /\ Others(t) /\ w'[t] = Idle
    BY <1>1, IdleTyped, OneThread
  <1>3. Idle.pc = "idle" /\ Idle.pos = 0
    BY DEF Idle
  <1>4. /\ w[t].pc = "copy"
        /\ UNCHANGED <<fuse, console, threads, toShell, out, shell, printed, sent>>
        /\ ret' = <<"bytes", [off |-> w[t].off, freed |-> w[t].gen # console.gen,
                              data |-> Bytes(console, w[t].off, w[t].n)]>>
    BY Zenon DEF Copy, Give
  <1>5. QED
    BY <1>2, <1>3, <1>4

\* A file that grows keeps the places of the other threads good.
LEMMA ConsoleGrows ==
    ASSUME TypeInv, NEW t \in Workers, wr_console(t)
    PROVE  /\ console' \in File /\ Sound(console') /\ console'.n_data >= console.n_data
           /\ console.n_data < console.n_alloc => console'.gen = console.gen
           /\ w[t].c \in Char /\ w[t].off \in Nat
  <1>1. w[t].pc = "append" /\ console' = append_to_file(console, w[t].c, w[t].off)
    BY WrConsoleDoes
  <1>2. /\ console \in File /\ Sound(console) /\ w[t].c \in Char /\ w[t].off \in Nat
        /\ w[t].off <= console.n_data
    BY <1>1 DEF TypeInv, Thr
  <1>3. QED
    BY <1>1, <1>2, AppendSound

LEMMA TypeNext == TypeInv /\ [Next]_vars => TypeInv'
  <1> SUFFICES ASSUME TypeInv, [Next]_vars PROVE TypeInv'
    OBVIOUS
  <1>a. /\ w \in [Workers -> Thr] /\ console \in File /\ Sound(console)
        /\ \A u \in Workers : w[u].pc = "append" =>
             w[u].c \in Char /\ w[u].off <= console.n_data
        /\ out \in Seq(Char) /\ printed \in Seq(Char)
        /\ shell \in {"start", "reading", "stuck", "gone"}
        /\ fuse \in {"main", "serving", "exit", "panic"}
    BY DEF TypeInv
  <1>b. console.n_data \in Nat /\ \A u \in Workers : w[u].off \in Nat
    BY <1>a DEF File, Thr
  <1>1. CASE UNCHANGED vars
    BY <1>1 DEF TypeInv, vars
  <1>2. CASE Shell
    <2>1. PICK text \in Seq(Char) : Says(text)
      BY <1>2, ShellSays
    <2>2. UNCHANGED <<w, console, fuse>> /\ shell' \in {"start", "reading", "stuck", "gone"}
      BY <1>2, <1>a, ShellSays
    <2>3. QED
      BY <2>1, <2>2, SaysTyped
  <1>3. ASSUME NEW t \in Workers, Thread(t) \/ Call(t) PROVE TypeInv'
    <2>1. CASE ReadChar(t)
      <3>1. \A u \in Workers : w'[u].pc = "append" =>
              w'[u].c \in Char /\ w'[u].off <= console'.n_data
        BY <2>1, <1>a, <1>b, ReadCharDoes DEF Others
      <3>2. QED
        BY <2>1, <3>1, <1>a, ReadCharDoes DEF TypeInv
    <2>2. CASE wr_console(t)
      <3>1. console'.n_data \in Nat /\ console'.n_data >= console.n_data
        BY <2>2, ConsoleGrows DEF File
      <3>2. ASSUME NEW u \in Workers, w'[u].pc = "append"
            PROVE  w'[u].c \in Char /\ w'[u].off <= console'.n_data
        <4>1. u # t /\ w'[u] = w[u]
          BY <2>2, <3>2, WrConsoleDoes DEF Others
        <4>2. QED
          BY <3>1, <3>2, <4>1, <1>a, <1>b
      <3>3. fuse' \in {"main", "serving", "exit", "panic"}
        BY <2>2, <1>a, WrConsoleDoes
      <3>4. QED
        BY <2>2, <3>2, <3>3, <1>a, WrConsoleDoes, ConsoleGrows DEF TypeInv
    <2>3. CASE Closed(t)
      <3>1. fuse' \in {"main", "serving", "exit", "panic"}
        BY <2>3, <1>a, ClosedDoes
      <3>2. \A u \in Workers : w'[u].pc = "append" => w'[u] = w[u]
        BY <2>3, ClosedDoes DEF Others
      <3>3. QED
        BY <2>3, <3>1, <3>2, <1>a, ClosedDoes DEF TypeInv
    <2>4. CASE Copy(t)
      <3>1. \A u \in Workers : w'[u].pc = "append" => w'[u] = w[u]
        BY <2>4, CopyDoes DEF Others
      <3>2. QED
        BY <2>4, <3>1, <1>a, CopyDoes DEF TypeInv
    <2>5. CASE Looks(t)
      <3>1. fuse' \in {"main", "serving", "exit", "panic"}
        BY <2>5, <1>a, LooksOnly
      <3>2. QED
        BY <2>5, <3>1, <1>a, LooksOnly DEF TypeInv
    <2>6. CASE pi_read(t)
      <3>1. CASE UNCHANGED w
        BY <2>6, <3>1, <1>a, ReadBegins DEF TypeInv
      <3>2. ASSUME NEW r \in Thr, Begun(t, r), r.pc = "copy" PROVE TypeInv'
        <4>1. w' \in [Workers -> Thr] /\ Others(t) /\ w'[t] = r
          BY <3>2, <1>a, OneThread DEF Begun
        <4>2. \A u \in Workers : w'[u].pc = "append" => w'[u] = w[u]
          BY <3>2, <4>1 DEF Others
        <4>3. QED
          BY <2>6, <4>1, <4>2, <1>a, ReadBegins DEF TypeInv
      <3>3. QED
        BY <2>6, <3>1, <3>2, ReadBegins
    <2>7. CASE pi_write(t)
      <3>1. fuse' \in {"main", "serving", "exit", "panic"}
        BY <2>7, <1>a, WriteBegins
      <3>2. CASE UNCHANGED w
        BY <2>7, <3>1, <3>2, <1>a, WriteBegins DEF TypeInv
      <3>3. ASSUME NEW r \in Thr, w' = [w EXCEPT ![t] = r], r.pc = "until" PROVE TypeInv'
        <4>1. w' \in [Workers -> Thr] /\ Others(t) /\ w'[t] = r
          BY <3>3, <1>a, OneThread
        <4>2. \A u \in Workers : w'[u].pc = "append" => w'[u] = w[u]
          BY <3>3, <4>1 DEF Others
        <4>3. QED
          BY <2>7, <3>1, <4>1, <4>2, <1>a, WriteBegins DEF TypeInv
      <3>4. QED
        BY <2>7, <3>2, <3>3, WriteBegins
    <2>8. QED
      BY <1>3, <2>1, <2>2, <2>3, <2>4, <2>5, <2>6, <2>7 DEF Thread, Call, Looks
  <1>4. QED
    BY <1>1, <1>2, <1>3 DEF Next

\* Every variable keeps its type, with any number of writers: the matcher of
\* echo_until_fn stays inside the prompt and append_to_file inside the memory
\* it has allocated.
THEOREM TypeCorrect == Spec => []TypeOK
  <1>1. TypeInv => TypeOK
    <2> SUFFICES ASSUME TypeInv PROVE TypeOK
      OBVIOUS
    <2>1. console.n_data <= console.n_alloc /\ console.n_data <= Len(console.data)
      <3>1. console.n_data = Len(console.data) /\ console.n_data \in Nat
            /\ console.n_data <= console.n_alloc
        BY DEF TypeInv, Sound, File
      <3>2. QED
        BY <3>1
    <2>2. ASSUME NEW t \in Workers
          PROVE  w[t].pc \in {"idle", "until", "append", "copy"} /\ w[t].pos < Len(prompt)
      BY PromptLen DEF TypeInv, Thr
    <2>3. QED
      BY <2>1, <2>2 DEF TypeInv, TypeOK
  <1>2. QED
    BY <1>1, TypeInit, TypeNext, PTL DEF Spec
-----------------------------------------------------------------------------
(* What /console holds *)

LEMMA RecordInit == Init => Record
  <1> SUFFICES ASSUME Init PROVE Record
    OBVIOUS
  <1>1. Main \in Workers
    BY MainWrites
  <1>2. w[Main].pc = "until" /\ \A t \in Workers \ {Main} : w[t].pc = "idle"
    BY <1>1 DEF Init, Idle
  <1>3. Held = <<>>
    BY <1>2 DEF Held
  <1>4. printed = <<>> /\ console.data = <<>> /\ out = <<>>
    BY DEF Init
  <1>5. <<>> = <<>> \o (<<>> \o <<>>)
    OBVIOUS
  <1>6. QED
    BY <1>2, <1>3, <1>4, <1>5 DEF Record

LEMMA Assoc ==
    ASSUME NEW a \in Seq(Char), NEW b \in Seq(Char), NEW c \in Seq(Char)
    PROVE  (a \o b) \o c = a \o (b \o c)
  BY ConcatAssociative

LEMMA HeldTyped == ASSUME TypeInv PROVE Held \in Seq(Char)
  BY MainWrites DEF Held, TypeInv

LEMMA RecordNext ==
    ASSUME OneWriter, TypeInv, Record, [Next]_vars
    PROVE  Record'
  <1>a. /\ w \in [Workers -> Thr] /\ console \in File /\ Sound(console)
        /\ out \in Seq(Char) /\ printed \in Seq(Char) /\ console.data \in Seq(Char)
    BY DEF TypeInv, File
  <1>b. /\ \A t \in Workers \ {Main} : w[t].pc \in {"idle", "copy"}
        /\ w[Main].pc = "append" => w[Main].off = console.n_data
        /\ printed = console.data \o (Held \o out)
    BY DEF Record
  <1>c. Main \in Workers /\ Held \in Seq(Char)
    BY MainWrites, HeldTyped
  <1>1. CASE UNCHANGED vars
    BY <1>1 DEF vars, Record, Held
  <1>2. CASE Shell
    <2>1. PICK text \in Seq(Char) : Says(text)
      BY <1>2, ShellSays
    <2>2. UNCHANGED <<w, console>>
      BY <1>2, ShellSays
    <2>3. out' = out \o text /\ printed' = printed \o text /\ Held' = Held
      BY <2>1, <2>2 DEF Says, Held
    <2>4. (console.data \o (Held \o out)) \o text = console.data \o (Held \o (out \o text))
      <3>1. Held \o out \in Seq(Char)
        BY <1>a, <1>c
      <3>2. (console.data \o (Held \o out)) \o text = console.data \o ((Held \o out) \o text)
        BY <1>a, <2>1, <3>1, Assoc
      <3>3. (Held \o out) \o text = Held \o (out \o text)
        BY <1>a, <1>c, <2>1, Assoc
      <3>4. QED
        BY <3>2, <3>3
    <2>5. QED
      BY <1>b, <2>2, <2>3, <2>4 DEF Record
  <1>3. ASSUME NEW t \in Workers, Thread(t) \/ Call(t) PROVE Record'
    <2>1. CASE ReadChar(t)
      <3>1. t = Main
        BY <2>1, <1>b, ReadCharDoes
      <3>2. Held = <<>> /\ Held' = <<Head(out)>>
        BY <2>1, <3>1, ReadCharDoes DEF Held
      <3>3. <<>> \o out = <<Head(out)>> \o out'
        BY <2>1, <1>a, ReadCharDoes
      <3>4. printed' = console'.data \o (Held' \o out')
        BY <2>1, <1>b, <3>2, <3>3, ReadCharDoes
      <3>5. \A u \in Workers \ {Main} : w'[u].pc \in {"idle", "copy"}
        BY <2>1, <1>b, <3>1, ReadCharDoes DEF Others
      <3>6. w'[Main].off = console'.n_data
        BY <2>1, <3>1, ReadCharDoes
      <3>7. QED
        BY <3>4, <3>5, <3>6 DEF Record
    <2>2. CASE wr_console(t)
      <3>1. t = Main
        BY <2>2, <1>b, WrConsoleDoes
      <3>2. w[Main].c \in Char /\ w[Main].off = console.n_data
        BY <2>2, <1>b, <3>1, ConsoleGrows, WrConsoleDoes
      <3>3. Held = <<w[Main].c>> /\ Held' = <<>>
        BY <2>2, <3>1, WrConsoleDoes DEF Held
      <3>4. console'.data = Append(console.data, w[Main].c)
        BY <2>2, <1>a, <3>1, <3>2, AppendsOne, WrConsoleDoes
      <3>5. console.data \o (<<w[Main].c>> \o out) =
              Append(console.data, w[Main].c) \o (<<>> \o out)
        <4>1. <<w[Main].c>> \in Seq(Char)
          BY <3>2
        <4>2. console.data \o (<<w[Main].c>> \o out) = (console.data \o <<w[Main].c>>) \o out
          BY <1>a, <4>1, Assoc
        <4>3. console.data \o <<w[Main].c>> = Append(console.data, w[Main].c)
          BY <1>a, <3>2, AppendIsConcat
        <4>4. <<>> \o out = out
          BY <1>a
        <4>5. QED
          BY <4>2, <4>3, <4>4
      <3>6. printed' = console'.data \o (Held' \o out')
        BY <2>2, <1>b, <3>3, <3>4, <3>5, WrConsoleDoes
      <3>7. w'[Main].pc # "append" /\ \A u \in Workers \ {Main} : w'[u].pc \in {"idle", "copy"}
        BY <2>2, <1>b, <3>1, WrConsoleDoes DEF Others
      <3>8. QED
        BY <3>6, <3>7 DEF Record
    <2>3. ASSUME UNCHANGED <<console, out, printed>>, Others(t), w[t].pc # "append",
                 w'[t].pc \in {"idle", "copy"} \/ (t = Main /\ w'[t].pc = "until")
          PROVE  Record'
      <3>1. \A u \in Workers \ {Main} : w'[u].pc \in {"idle", "copy"}
        BY <2>3, <1>b DEF Others
      <3>2. Held' = Held
        BY <2>3, <1>c DEF Others, Held
      <3>3. w'[Main].pc = "append" => w'[Main] = w[Main]
        BY <2>3, <1>c DEF Others
      <3>4. QED
        BY <2>3, <1>b, <3>1, <3>2, <3>3 DEF Record
    <2>4. CASE Closed(t)
      BY <2>3, <2>4, ClosedDoes
    <2>5. CASE Copy(t)
      BY <2>3, <2>5, CopyDoes
    <2>6. CASE UNCHANGED <<w, console, out, printed>>
      BY <2>6 DEF Record, Held
    <2>7. CASE Looks(t)
      BY <2>6, <2>7, LooksOnly
    <2>8. CASE pi_read(t)
      <3>1. ASSUME NEW r \in Thr, Begun(t, r), r.pc = "copy" PROVE Record'
        <4>1. Others(t) /\ w'[t] = r
          BY <3>1, <1>a, OneThread DEF Begun
        <4>2. w[t].pc = "idle"
          BY <2>8 DEF pi_read, Serving
        <4>3. QED
          BY <2>3, <2>8, <3>1, <4>1, <4>2, ReadBegins
      <3>2. QED
        BY <2>6, <2>8, <3>1, ReadBegins
    <2>9. CASE pi_write(t)
      <3>1. t = Main
        BY <2>9, WriteBegins DEF OneWriter
      <3>2. ASSUME NEW r \in Thr, w' = [w EXCEPT ![t] = r], r.pc = "until" PROVE Record'
        <4>1. Others(t) /\ w'[t] = r
          BY <3>2, <1>a, OneThread
        <4>2. w[t].pc = "idle"
          BY <2>9 DEF pi_write, Serving
        <4>3. QED
          BY <2>3, <2>9, <3>1, <3>2, <4>1, <4>2, WriteBegins
      <3>3. QED
        BY <2>6, <2>9, <3>2, WriteBegins
    <2>10. QED
      BY <1>3, <2>1, <2>2, <2>4, <2>5, <2>7, <2>8, <2>9 DEF Thread, Call, Looks
  <1>4. QED
    BY <1>1, <1>2, <1>3 DEF Next

\* With one writer, what is in /console, held and in the pipe is what was printed.
LEMMA RecordFaithful == ASSUME OneWriter, TypeInv, Record PROVE ConsoleFaithful
  <1> DEFINE S == {t \in Workers : w[t].pc = "append"}
             holders == SetToSeq(S)
             HeldBy(h) == [i \in 1 .. Len(h) |-> w[h[i]].c]
             held == HeldBy(holders)
  <1>1. Main \in Workers /\ console.data \in Seq(Char) /\ console.n_data = Len(console.data)
        /\ Held \in Seq(Char) /\ out \in Seq(Char)
    BY MainWrites, HeldTyped DEF TypeInv, File, Sound
  <1>2. SubSeq(console.data, 1, console.n_data) = console.data
    BY <1>1
  <1>3. held = Held
    <2>1. CASE w[Main].pc = "append"
      <3>1. S = {Main}
        BY <1>1, <2>1 DEF Record
      <3>2. holders = <<Main>>
        BY <3>1, OneToSeq
      <3>3. HeldBy(<<Main>>) = <<w[Main].c>>
        OBVIOUS
      <3> HIDE DEF holders, HeldBy
      <3>4. QED
        BY <2>1, <3>2, <3>3 DEF Held
    <2>2. CASE w[Main].pc # "append"
      <3>1. S = {}
        BY <1>1, <2>2 DEF Record
      <3>2. holders = <<>>
        BY <3>1, NoneToSeq
      <3>3. HeldBy(<<>>) = <<>>
        OBVIOUS
      <3> HIDE DEF holders, HeldBy
      <3>4. QED
        BY <2>2, <3>2, <3>3 DEF Held
    <2>3. QED
      BY <2>1, <2>2
  <1>4. console.data \o (Held \o out) = (console.data \o Held) \o out
    BY <1>1, Assoc
  <1> HIDE DEF held
  <1>5. printed = SubSeq(console.data, 1, console.n_data) \o held \o out
    BY <1>2, <1>3, <1>4 DEF Record
  <1>6. QED
    BY <1>5, Zenon DEF ConsoleFaithful, held, HeldBy, holders, S

\* One thread writes, any number read: /console, what the writer holds and what
\* is in the pipe are all the shell has printed, in order and nothing twice,
\* although reading a character and appending it are two steps.
THEOREM ConsoleFaithfulCorrect ==
    ASSUME OneWriter PROVE Spec => []ConsoleFaithful
  <1>1. Init => TypeInv /\ Record
    BY TypeInit, RecordInit
  <1>2. TypeInv /\ Record /\ [Next]_vars => (TypeInv /\ Record)'
    BY TypeNext, RecordNext
  <1>3. TypeInv /\ Record => ConsoleFaithful
    BY RecordFaithful
  <1>4. QED
    BY <1>1, <1>2, <1>3, PTL DEF Spec
-----------------------------------------------------------------------------
(* What readers get *)

LEMMA SubSeqOfLonger ==
    ASSUME NEW p \in Seq(Char), NEW text \in Seq(Char), NEW k \in Nat, NEW m \in Nat,
           k + m <= Len(p)
    PROVE  /\ SubSeq(p \o text, k + 1, k + m) = SubSeq(p, k + 1, k + m)
           /\ k + m <= Len(p \o text)
  <1>1. Len(p \o text) = Len(p) + Len(text) /\ p \o text \in Seq(Char)
    OBVIOUS
  <1>2. \A i \in (k + 1) .. (k + m) : (p \o text)[i] = p[i]
    OBVIOUS
  <1>3. SubSeq(p \o text, k + 1, k + m) = SubSeq(p, k + 1, k + m)
    <2>1. SubSeq(p \o text, k + 1, k + m) = [i \in 1 .. m |-> (p \o text)[k + i]]
      BY <1>1
    <2>2. SubSeq(p, k + 1, k + m) = [i \in 1 .. m |-> p[k + i]]
      OBVIOUS
    <2>3. \A i \in 1 .. m : (p \o text)[k + i] = p[k + i]
      BY <1>2
    <2>4. QED
      BY <2>1, <2>2, <2>3
  <1>4. QED
    BY <1>1, <1>3

LEMMA BytesInside ==
    ASSUME NEW f \in File, Sound(f), NEW k \in Nat, NEW m \in Nat, k + m <= f.n_data
    PROVE  /\ Bytes(f, k, m) \in Seq(Char) /\ Len(Bytes(f, k, m)) = m
           /\ Bytes(f, k, m) = SubSeq(f.data, k + 1, k + m)
  <1>1. f.data \in Seq(Char) /\ Len(f.data) = f.n_data
    BY DEF File, Sound
  <1>2. SubSeq(f.data, k + 1, k + m) = [i \in 1 .. m |-> f.data[k + i]]
    BY <1>1
  <1>3. \A i \in 1 .. m : k + i <= Len(f.data) /\ f.data[k + i] \in Char
    BY <1>1
  <1>4. Bytes(f, k, m) = [i \in 1 .. m |-> f.data[k + i]]
    BY <1>3 DEF Bytes
  <1>5. [i \in 1 .. m |-> f.data[k + i]] \in [1 .. m -> Char]
    BY <1>3
  <1>6. QED
    BY <1>2, <1>4, <1>5

\* The answer of a read is made of characters, at an offset.
AnswerTyped == ret[1] = "bytes" => ret[2].off \in Nat /\ ret[2].data \in Seq(Char)
ReadInv == CopySound /\ AnswerTyped /\ ReadsExact

LEMMA ReadInit == Init => ReadInv
  <1> SUFFICES ASSUME Init PROVE ReadInv
    OBVIOUS
  <1>1. ret[1] # "bytes"
    BY DEF Init
  <1>2. \A t \in Workers : w[t].pc # "copy" /\ (t # Main => w[t].pc = "idle")
    BY DEF Init, Idle
  <1>3. QED
    BY <1>1, <1>2 DEF ReadInv, CopySound, AnswerTyped, ReadsExact

\* An answer given stays true while the shell goes on printing.
LEMMA AnswerKept ==
    ASSUME TypeInv, AnswerTyped, ReadsExact, ret' = ret \/ ret'[1] # "bytes",
           NEW text \in Seq(Char), printed' = printed \o text
    PROVE  AnswerTyped' /\ ReadsExact'
  <1>1. CASE ret'[1] # "bytes"
    BY <1>1 DEF AnswerTyped, ReadsExact
  <1>2. CASE ret' = ret /\ ret[1] = "bytes"
    <2> DEFINE k == ret[2].off
               m == Len(ret[2].data)
    <2>1. k \in Nat /\ m \in Nat /\ printed \in Seq(Char)
      BY <1>2 DEF AnswerTyped, TypeInv
    <2>2. ~ret[2].freed /\ k + m <= Len(printed)
          /\ ret[2].data = SubSeq(printed, k + 1, k + m)
      BY <1>2 DEF ReadsExact
    <2> HIDE DEF k, m
    <2>3. k + m <= Len(printed') /\ SubSeq(printed', k + 1, k + m) = SubSeq(printed, k + 1, k + m)
      BY <2>1, <2>2, SubSeqOfLonger
    <2>4. QED
      BY <1>2, <2>2, <2>3 DEF AnswerTyped, ReadsExact, k, m
  <1>3. QED
    BY <1>1, <1>2

LEMMA NotFreed ==
    ASSUME NEW k, NEW d, NEW g, NEW h, g = h
    PROVE  ~[off |-> k, freed |-> g # h, data |-> d].freed
  OBVIOUS

LEMMA CopyAnswers ==
    ASSUME TypeInv, Record, CopySound, NEW t \in Workers, Copy(t)
    PROVE  AnswerTyped' /\ ReadsExact'
  <1> DEFINE k == w[t].off
             m == w[t].n
             d == Bytes(console, k, m)
  <1>1. k \in Nat /\ m \in Nat /\ console \in File /\ Sound(console)
        /\ console.data \in Seq(Char) /\ console.n_data = Len(console.data)
    BY DEF TypeInv, Thr, File, Sound
  <1>2. w[t].pc = "copy"
    BY CopyDoes
  <1>3. k + m <= console.n_data /\ w[t].gen = console.gen
    BY <1>2 DEF CopySound
  <1>4. ret' = <<"bytes", [off |-> k, freed |-> w[t].gen # console.gen, data |-> d]>>
    BY CopyDoes
  <1>5. UNCHANGED printed
    BY CopyDoes
  <1> HIDE DEF k, m
  <1>6. d \in Seq(Char) /\ Len(d) = m /\ d = SubSeq(console.data, k + 1, k + m)
    BY <1>1, <1>3, BytesInside
  <1>7. Held \o out \in Seq(Char)
    BY HeldTyped DEF TypeInv
  <1>8. printed = console.data \o (Held \o out)
    BY DEF Record
  <1>9. d = SubSeq(printed, k + 1, k + m) /\ k + m <= Len(printed)
    BY <1>1, <1>3, <1>6, <1>7, <1>8, SubSeqOfLonger
  <1> HIDE DEF d
  <1>10. ret'[2].off = k /\ ret'[2].data = d /\ ~ret'[2].freed
    <2>1. ret'[2] = [off |-> k, freed |-> w[t].gen # console.gen, data |-> d]
      BY <1>4
    <2>2. ~ret'[2].freed
      BY <1>3, <2>1, NotFreed
    <2>3. QED
      BY <2>1, <2>2
  <1>11. QED
    BY <1>1, <1>5, <1>6, <1>9, <1>10 DEF AnswerTyped, ReadsExact

LEMMA ReadNext ==
    ASSUME OneWriter, TypeInv, Record, Roomy, ReadInv, [Next]_vars
    PROVE  ReadInv'
  <1>a. AnswerTyped /\ ReadsExact /\ CopySound /\ printed \in Seq(Char) /\ w \in [Workers -> Thr]
    BY DEF ReadInv, TypeInv
  <1>b. printed = printed \o <<>> /\ <<>> \in Seq(Char)
    BY <1>a
  <1>c. ASSUME printed' = printed, ret' = ret \/ ret'[1] # "bytes"
        PROVE  AnswerTyped' /\ ReadsExact'
    BY <1>a, <1>b, <1>c, AnswerKept
  <1>d. ASSUME UNCHANGED <<console, threads>>,
               \A u \in Workers : w'[u] = w[u] \/ w'[u].pc \in {"idle", "until", "append"},
               \A u \in Workers \ {Main} : w'[u] = w[u] \/ w'[u].pc = "idle"
        PROVE  CopySound'
    BY <1>a, <1>d DEF CopySound
  <1>1. CASE UNCHANGED vars
    BY <1>1 DEF vars, ReadInv, CopySound, AnswerTyped, ReadsExact
  <1>2. CASE Shell
    <2>1. PICK text \in Seq(Char) : Says(text)
      BY <1>2, ShellSays
    <2>2. UNCHANGED <<w, ret, console, threads>> /\ printed' = printed \o text
      BY <1>2, <2>1, ShellSays DEF Says
    <2>3. AnswerTyped' /\ ReadsExact'
      BY <1>a, <2>2, AnswerKept
    <2>4. CopySound'
      BY <1>d, <2>2
    <2>5. QED
      BY <2>3, <2>4 DEF ReadInv
  <1>3. ASSUME NEW t \in Workers, Thread(t) \/ Call(t) PROVE ReadInv'
    <2>1. CASE ReadChar(t)
      <3>1. t = Main
        BY <2>1, ReadCharDoes DEF Record
      <3>2. CopySound'
        BY <1>d, <2>1, <3>1, ReadCharDoes DEF Others
      <3>3. QED
        BY <1>c, <2>1, <3>2, ReadCharDoes DEF ReadInv
    <2>2. CASE wr_console(t)
      <3>1. t = Main
        BY <2>2, WrConsoleDoes DEF Record
      <3>2. ASSUME NEW u \in Workers, w'[u].pc = "copy"
            PROVE  w'[u].off + w'[u].n <= console'.n_data /\ w'[u].gen = console'.gen
        <4>1. u # Main /\ w'[u] = w[u]
          BY <2>2, <3>1, <3>2, WrConsoleDoes DEF Others
        <4>2. threads # {Main}
          BY <3>2, <4>1, <1>a DEF CopySound
        <4>3. console'.gen = console.gen
          BY <2>2, <4>2, ConsoleGrows DEF Roomy
        <4>4. /\ w[u].off + w[u].n <= console.n_data /\ w[u].gen = console.gen
              /\ w[u].off \in Nat /\ w[u].n \in Nat
          BY <1>a, <3>2, <4>1 DEF CopySound, Thr
        <4>5. console.n_data \in Nat /\ console'.n_data \in Nat /\ console'.n_data >= console.n_data
          BY <2>2, ConsoleGrows DEF TypeInv, File
        <4>6. QED
          BY <4>1, <4>3, <4>4, <4>5
      <3>3. threads' = threads /\ \A u \in Workers \ {Main} : w'[u] = w[u]
        BY <2>2, <3>1, WrConsoleDoes DEF Others
      <3>4. CopySound'
        BY <1>a, <3>2, <3>3 DEF CopySound
      <3>5. QED
        BY <1>c, <2>2, <3>4, WrConsoleDoes DEF ReadInv
    <2>3. CASE Closed(t)
      <3>1. CopySound'
        BY <1>d, <2>3, ClosedDoes DEF Others
      <3>2. QED
        BY <1>c, <2>3, <3>1, ClosedDoes DEF ReadInv
    <2>4. CASE Copy(t)
      <3>1. CopySound'
        BY <1>d, <2>4, CopyDoes DEF Others
      <3>2. QED
        BY <1>a, <2>4, <3>1, CopyAnswers DEF ReadInv
    <2>5. CASE Looks(t)
      <3>1. CopySound'
        BY <1>d, <2>5, LooksOnly
      <3>2. QED
        BY <1>c, <2>5, <3>1, LooksOnly DEF ReadInv
    <2>6. CASE pi_read(t)
      <3>1. CASE UNCHANGED w /\ ret'[1] # "bytes"
        <4>1. CopySound'
          BY <1>d, <2>6, <3>1, ReadBegins
        <4>2. QED
          BY <1>c, <2>6, <3>1, <4>1, ReadBegins DEF ReadInv
      <3>2. ASSUME NEW r \in Thr, Begun(t, r), r.pc = "copy", r.gen = console.gen,
                   r.off + r.n <= console.n_data
            PROVE  ReadInv'
        <4>1. Others(t) /\ w'[t] = r /\ UNCHANGED ret
          BY <3>2, <1>a, OneThread DEF Begun
        <4>2. UNCHANGED <<console, threads, printed>>
          BY <2>6, ReadBegins
        <4>3. threads = {Main} => t = Main
          BY <2>6 DEF pi_read, Serving
        <4>4. CopySound'
          BY <1>a, <3>2, <4>1, <4>2, <4>3 DEF CopySound, Others
        <4>5. QED
          BY <1>c, <4>1, <4>2, <4>4 DEF ReadInv
      <3>3. QED
        BY <2>6, <3>1, <3>2, ReadBegins
    <2>7. CASE pi_write(t)
      <3>1. t = Main
        BY <2>7, WriteBegins DEF OneWriter
      <3>2. \A u \in Workers : w'[u] = w[u] \/ (u = Main /\ w'[u].pc = "until")
        <4>1. ASSUME NEW r \in Thr, w' = [w EXCEPT ![t] = r], r.pc = "until"
              PROVE  \A u \in Workers : w'[u] = w[u] \/ (u = Main /\ w'[u].pc = "until")
          BY <3>1, <4>1, <1>a, OneThread DEF Others
        <4>2. QED
          BY <2>7, <4>1, WriteBegins
      <3>3. CopySound'
        BY <1>d, <2>7, <3>2, WriteBegins
      <3>4. QED
        BY <1>c, <2>7, <3>3, WriteBegins DEF ReadInv
    <2>8. QED
      BY <1>3, <2>1, <2>2, <2>3, <2>4, <2>5, <2>6, <2>7 DEF Thread, Call, Looks
  <1>4. QED
    BY <1>1, <1>2, <1>3 DEF Next

\* A read gives the bytes of /console as they were printed, none past its end and
\* none from memory given back, although its length is settled before the bytes
\* are copied and the file may grow in between.  The data must not move between
\* the two: there is one thread, or room in the allocation.
THEOREM ReadsExactCorrect ==
    ASSUME OneWriter PROVE Spec /\ []Roomy => []ReadsExact
  <1> DEFINE IInv == TypeInv /\ Record /\ ReadInv
  <1>1. Init => IInv
    BY TypeInit, RecordInit, ReadInit
  <1>2. IInv /\ Roomy /\ [Next]_vars => IInv'
    BY TypeNext, RecordNext, ReadNext
  <1>3. IInv => ReadsExact
    BY DEF ReadInv
  <1>4. QED
    BY <1>1, <1>2, <1>3, PTL DEF Spec
-----------------------------------------------------------------------------
(* The prompts under way *)

\* Where a text holds a prompt, and how many it holds.
At(s) == {i \in 1 .. Len(s) - 1 : s[i] = "P" /\ s[i + 1] = ">"}
Count(s) == Cardinality(At(s))

\* What begins like a prompt goes on, and does not begin like one again: the
\* matcher of echo_until_fn starts over at 0 and would miss the second.
Plain(s) == \A i \in 1 .. Len(s) : s[i] = "P" => i < Len(s) /\ s[i + 1] # "P"

\* The pi's replies hold no prompt of their own and hide none that follows.
PlainTexts == \A text \in Texts : Plain(text) /\ At(text) = {}

\* What the matcher has still to see, from the character it may have matched.
Seen == IF w[Main].pos = 1 THEN <<"P">> ELSE <<>>
Stream == Seen \o (Held \o out)

\* The prompt the writer waits for.
Owed == IF w[Main].pc \in {"until", "append"} THEN 1 ELSE 0

LineKinds == {"echo", "reboot", "run", "console", "empty", "other"}

\* While the shell reads, every line it has not read and every prompt nobody has
\* seen is that of an extra line, or the one the writer waits for.
PromptInv ==
    /\ w[Main].pc \in {"idle", "copy"} => w[Main].pos = 0
    /\ Plain(Stream)
    /\ toShell \in Seq(LineKinds) /\ sent.writes \in Nat /\ sent.lines \in Nat
    /\ shell = "start" => /\ w[Main].pc = "until" /\ w[Main].pos = 0 /\ out = <<>>
                          /\ toShell = <<>> /\ sent.lines = sent.writes
    /\ shell = "reading" => Len(toShell) + Count(Stream) = sent.lines - sent.writes + Owed

LEMMA AtFinite ==
    ASSUME NEW s \in Seq(Char)
    PROVE  IsFiniteSet(At(s)) /\ Count(s) \in Nat
  <1>1. IsFiniteSet(1 .. Len(s))
    BY FS_Interval
  <1>2. At(s) \in SUBSET (1 .. Len(s))
    BY DEF At
  <1>3. IsFiniteSet(At(s))
    BY <1>1, <1>2, FS_Subset
  <1>4. QED
    BY <1>3, FS_CardinalityType DEF Count

\* A reply adds the prompt that ends it and no other.
LEMMA CountAdd ==
    ASSUME NEW s \in Seq(Char), NEW text \in Seq(Char), Plain(s), Plain(text), At(text) = {}
    PROVE  Count(s \o (text \o prompt)) = Count(s) + 1 /\ Plain(s \o (text \o prompt))
  <1> DEFINE z == s \o (text \o prompt)
             k == Len(s) + Len(text)
  <1>1. z \in Seq(Char) /\ Len(z) = k + 2 /\ k \in Nat
    BY DEF prompt, Char
  <1>2. /\ \A i \in 1 .. Len(s) : z[i] = s[i]
        /\ \A i \in 1 .. Len(text) : z[Len(s) + i] = text[i]
        /\ z[k + 1] = "P" /\ z[k + 2] = ">"
    BY DEF prompt, Char
  <1> HIDE DEF z
  <1>3. ASSUME NEW i \in 1 .. k, z[i] = "P"
        PROVE  /\ i < k /\ z[i + 1] # "P"
               /\ z[i + 1] = ">" => i \in At(s)
    <2>1. CASE i <= Len(s)
      <3>1. i \in 1 .. Len(s) /\ s[i] = "P"
        BY <2>1, <1>2, <1>3
      <3>2. i < Len(s) /\ s[i + 1] # "P"
        BY <3>1 DEF Plain
      <3>3. z[i + 1] = s[i + 1]
        BY <3>1, <3>2, <1>2
      <3>4. QED
        BY <3>1, <3>2, <3>3 DEF At
    <2>2. CASE i > Len(s)
      <3> DEFINE j == i - Len(s)
      <3>1. j \in 1 .. Len(text) /\ i = Len(s) + j
        BY <2>2
      <3> HIDE DEF j
      <3>2. text[j] = "P"
        BY <3>1, <1>2, <1>3
      <3>3. j < Len(text) /\ text[j + 1] # "P"
        BY <3>1, <3>2 DEF Plain
      <3>4. z[Len(s) + (j + 1)] = text[j + 1]
        BY <3>1, <3>3, <1>2
      <3>5. i + 1 = Len(s) + (j + 1) /\ i < k
        BY <3>1, <3>3
      <3>6. text[j + 1] # ">"
        <4>1. j \in 1 .. Len(text) - 1
          BY <3>1, <3>3
        <4>2. QED
          BY <4>1, <3>2 DEF At
      <3>7. QED
        BY <3>3, <3>4, <3>5, <3>6
    <2>3. QED
      BY <2>1, <2>2
  <1>4. Plain(z)
    <2>1. ASSUME NEW i \in 1 .. Len(z), z[i] = "P" PROVE i < Len(z) /\ z[i + 1] # "P"
      <3>1. i \in 1 .. k \/ i = k + 1 \/ i = k + 2
        BY <1>1
      <3>2. CASE i \in 1 .. k
        BY <2>1, <3>2, <1>1, <1>3
      <3>3. CASE i = k + 1
        BY <3>3, <1>1, <1>2
      <3>4. CASE i = k + 2
        BY <2>1, <3>4, <1>2
      <3>5. QED
        BY <3>1, <3>2, <3>3, <3>4
    <2>2. QED
      BY <2>1 DEF Plain
  <1>5. At(z) = At(s) \cup {k + 1}
    <2>1. ASSUME NEW i \in At(z) PROVE i \in At(s) \cup {k + 1}
      <3>1. i \in 1 .. k + 1 /\ z[i] = "P" /\ z[i + 1] = ">"
        BY <1>1 DEF At
      <3>2. QED
        BY <3>1, <1>3
    <2>2. ASSUME NEW i \in At(s) PROVE i \in At(z)
      <3>1. i \in 1 .. Len(s) /\ i + 1 \in 1 .. Len(s) /\ s[i] = "P" /\ s[i + 1] = ">"
        BY DEF At
      <3>2. z[i] = "P" /\ z[i + 1] = ">" /\ i \in 1 .. Len(z) - 1
        BY <3>1, <1>1, <1>2
      <3>3. QED
        BY <3>2 DEF At
    <2>3. k + 1 \in At(z)
      BY <1>1, <1>2 DEF At
    <2>4. QED
      BY <2>1, <2>2, <2>3
  <1>6. k + 1 \notin At(s)
    BY <1>1 DEF At
  <1>7. Count(z) = Count(s) + 1
    <2>1. IsFiniteSet(At(s))
      BY AtFinite
    <2>2. Cardinality(At(s) \cup {k + 1}) = Cardinality(At(s)) + 1
      BY <2>1, <1>6, FS_AddElement
    <2>3. QED
      BY <1>5, <2>2 DEF Count
  <1>8. QED
    BY <1>4, <1>7 DEF z

\* A text that holds no prompt leaves the rest plain.
LEMMA PlainJoin ==
    ASSUME NEW s \in Seq(Char), NEW text \in Seq(Char), Plain(s), Plain(text)
    PROVE  Plain(s \o text)
  <1> DEFINE z == s \o text
  <1>1. z \in Seq(Char) /\ Len(z) = Len(s) + Len(text)
    OBVIOUS
  <1>2. /\ \A i \in 1 .. Len(s) : z[i] = s[i]
        /\ \A i \in 1 .. Len(text) : z[Len(s) + i] = text[i]
    OBVIOUS
  <1> HIDE DEF z
  <1>3. ASSUME NEW i \in 1 .. Len(z), z[i] = "P" PROVE i < Len(z) /\ z[i + 1] # "P"
    <2>1. CASE i <= Len(s)
      <3>1. i \in 1 .. Len(s) /\ s[i] = "P"
        BY <2>1, <1>2, <1>3
      <3>2. i < Len(s) /\ s[i + 1] # "P"
        BY <3>1 DEF Plain
      <3>3. QED
        BY <3>1, <3>2, <1>1, <1>2
    <2>2. CASE i > Len(s)
      <3> DEFINE j == i - Len(s)
      <3>1. j \in 1 .. Len(text) /\ i = Len(s) + j
        BY <2>2, <1>1
      <3> HIDE DEF j
      <3>2. text[j] = "P"
        BY <3>1, <1>2, <1>3
      <3>3. j < Len(text) /\ text[j + 1] # "P"
        BY <3>1, <3>2 DEF Plain
      <3>4. z[Len(s) + (j + 1)] = text[j + 1]
        BY <3>1, <3>3, <1>2
      <3>5. i + 1 = Len(s) + (j + 1)
        BY <3>1
      <3>6. QED
        BY <3>1, <3>3, <3>4, <3>5, <1>1
    <2>3. QED
      BY <2>1, <2>2
  <1>4. QED
    BY <1>3 DEF Plain, z

\* A character less at the front: a prompt less when it begins one.
LEMMA CountDrop ==
    ASSUME NEW c \in Char, NEW s \in Seq(Char), Plain(<<c>> \o s)
    PROVE  /\ Plain(s)
           /\ c = "P" => Len(s) > 0 /\ s[1] # "P"
           /\ Count(<<c>> \o s) =
                IF c = "P" /\ s[1] = ">" THEN Count(s) + 1 ELSE Count(s)
  <1> DEFINE z == <<c>> \o s
             T == {i + 1 : i \in At(s)}
             f == [i \in At(s) |-> i + 1]
  <1>1. z \in Seq(Char) /\ Len(z) = Len(s) + 1 /\ z[1] = c /\ \A i \in 1 .. Len(s) : z[i + 1] = s[i]
    OBVIOUS
  <1> HIDE DEF z
  <1>a. \A i \in 1 .. Len(z) : z[i] = "P" => i < Len(z) /\ z[i + 1] # "P"
    BY DEF Plain, z
  <1>2. Plain(s)
    <2>1. ASSUME NEW i \in 1 .. Len(s), s[i] = "P" PROVE i < Len(s) /\ s[i + 1] # "P"
      <3>1. i + 1 \in 1 .. Len(z) /\ z[i + 1] = "P"
        BY <2>1, <1>1
      <3>2. i + 1 < Len(z) /\ z[(i + 1) + 1] # "P"
        BY <3>1, <1>a
      <3>3. i < Len(s) /\ i + 1 \in 1 .. Len(s)
        BY <3>2, <1>1
      <3>4. QED
        BY <3>2, <3>3, <1>1
    <2>2. QED
      BY <2>1 DEF Plain
  <1>3. c = "P" => Len(s) > 0 /\ s[1] # "P"
    <2> SUFFICES ASSUME c = "P" PROVE Len(s) > 0 /\ s[1] # "P"
      OBVIOUS
    <2>1. 1 \in 1 .. Len(z) /\ z[1] = "P"
      BY <1>1
    <2>2. 1 < Len(z) /\ z[1 + 1] # "P"
      BY <2>1, <1>a
    <2>3. Len(s) > 0 /\ 1 \in 1 .. Len(s)
      BY <2>2, <1>1
    <2>4. QED
      BY <2>2, <2>3, <1>1
  <1>4. Cardinality(T) = Count(s) /\ IsFiniteSet(T)
    <2>1. f \in Bijection(At(s), T)
      <3>1. At(s) \subseteq Int
        BY DEF At
      <3>2. f \in Injection(At(s), T)
        BY <3>1 DEF Injection, IsInjective
      <3>3. f \in Surjection(At(s), T)
        BY <3>1 DEF Surjection
      <3>4. QED
        BY <3>2, <3>3 DEF Bijection
    <2> HIDE DEF f, T
    <2>2. ExistsBijection(At(s), T)
      BY <2>1 DEF ExistsBijection
    <2>3. QED
      BY <2>2, AtFinite, FS_Bijection DEF Count
  <1>5. At(z) = IF c = "P" /\ s[1] = ">" THEN T \cup {1} ELSE T
    <2>1. ASSUME NEW i \in At(z) PROVE i \in T \/ (i = 1 /\ c = "P" /\ s[1] = ">")
      <3>1. i \in 1 .. Len(s) /\ z[i] = "P" /\ z[i + 1] = ">"
        BY <1>1 DEF At
      <3>2. CASE i = 1
        BY <3>1, <3>2, <1>1
      <3>3. CASE i # 1
        <4> DEFINE j == i - 1
        <4>1. j \in 1 .. Len(s) - 1 /\ i = j + 1
          BY <3>1, <3>3
        <4> HIDE DEF j
        <4>2. s[j] = "P" /\ s[j + 1] = ">"
          <5>1. j \in 1 .. Len(s) /\ j + 1 \in 1 .. Len(s)
            BY <4>1
          <5>2. z[j + 1] = s[j] /\ z[(j + 1) + 1] = s[j + 1]
            BY <5>1, <1>1
          <5>3. QED
            BY <3>1, <4>1, <5>2
        <4>3. j \in At(s)
          BY <4>1, <4>2 DEF At
        <4>4. QED
          BY <4>1, <4>3
      <3>4. QED
        BY <3>2, <3>3
    <2>2. ASSUME NEW j \in At(s) PROVE j + 1 \in At(z)
      <3>1. j \in 1 .. Len(s) /\ j + 1 \in 1 .. Len(s) /\ s[j] = "P" /\ s[j + 1] = ">"
        BY DEF At
      <3>2. z[j + 1] = s[j] /\ z[(j + 1) + 1] = s[j + 1]
        BY <3>1, <1>1
      <3>3. j + 1 \in 1 .. Len(z) - 1
        BY <3>1, <1>1
      <3>4. QED
        BY <3>1, <3>2, <3>3 DEF At
    <2>3. c = "P" /\ s[1] = ">" => 1 \in At(z)
      <3> SUFFICES ASSUME c = "P", s[1] = ">" PROVE 1 \in At(z)
        OBVIOUS
      <3>1. Len(s) > 0 /\ z[1] = "P" /\ 1 \in 1 .. Len(s)
        BY <1>1, <1>3
      <3>2. z[1 + 1] = ">"
        BY <3>1, <1>1
      <3>3. QED
        BY <3>1, <3>2, <1>1 DEF At
    <2>4. T \subseteq At(z)
      BY <2>2
    <2> HIDE DEF T
    <2>5. CASE c = "P" /\ s[1] = ">"
      BY <2>1, <2>3, <2>4, <2>5
    <2>6. CASE ~(c = "P" /\ s[1] = ">")
      BY <2>1, <2>4, <2>6
    <2>7. QED
      BY <2>5, <2>6
  <1>6. 1 \notin T
    BY DEF At
  <1> HIDE DEF T
  <1>7. Count(z) = IF c = "P" /\ s[1] = ">" THEN Count(s) + 1 ELSE Count(s)
    <2>1. CASE c = "P" /\ s[1] = ">"
      BY <2>1, <1>4, <1>5, <1>6, FS_AddElement DEF Count
    <2>2. CASE ~(c = "P" /\ s[1] = ">")
      BY <2>2, <1>4, <1>5 DEF Count
    <2>3. QED
      BY <2>1, <2>2
  <1>8. QED
    BY <1>2, <1>3, <1>7 DEF z

\* With no character matched or held, the matcher has still to see the pipe.
LEMMA CountIsPrompts ==
    ASSUME out \in Seq(Char) PROVE Count(out) = Prompts
  <1>1. ASSUME NEW i \in 1 .. Len(out) - 1
        PROVE  SubSeq(out, i, i + 1) = prompt <=> out[i] = "P" /\ out[i + 1] = ">"
    <2>1. SubSeq(out, i, i + 1) = <<out[i], out[i + 1]>>
      <3>1. SubSeq(out, i, i + 1) = [j \in 1 .. 2 |-> out[i + j - 1]]
        OBVIOUS
      <3>2. i + 1 - 1 = i /\ i + 2 - 1 = i + 1
        OBVIOUS
      <3>3. \A f : f = [j \in 1 .. 2 |-> out[i + j - 1]] =>
              f = <<f[1], f[2]>> /\ f[1] = out[i + 1 - 1] /\ f[2] = out[i + 2 - 1]
        OBVIOUS
      <3>4. QED
        BY <3>1, <3>2, <3>3
    <2>2. QED
      BY <2>1 DEF prompt
  <1>2. At(out) = {i \in 1 .. Len(out) - 1 : SubSeq(out, i, i + 1) = prompt}
    BY <1>1 DEF At
  <1>3. QED
    BY <1>2 DEF Count, Prompts

LEMMA StreamTyped ==
    ASSUME TypeInv
    PROVE  /\ Stream \in Seq(Char) /\ Seen \in Seq(Char)
           /\ w[Main].pos = 0 => Stream = Held \o out
           /\ w[Main].pos = 0 /\ w[Main].pc # "append" => Stream = out
           /\ w[Main].pos = 1 => Stream = <<"P">> \o (Held \o out)
           /\ w[Main].pos \in {0, 1}
  <1>1. Held \in Seq(Char) /\ out \in Seq(Char)
    BY HeldTyped DEF TypeInv
  <1>2. w[Main].pos \in {0, 1}
    BY MainWrites DEF TypeInv, Thr
  <1>3. Held \o out \in Seq(Char)
    BY <1>1
  <1>4. Seen \in Seq(Char)
    <2>1. <<"P">> \in Seq(Char) /\ <<>> \in Seq(Char)
      BY DEF Char
    <2>2. QED
      BY <2>1 DEF Seen
  <1>5. Stream \in Seq(Char)
    BY <1>3, <1>4 DEF Stream
  <1>6. <<>> \o (Held \o out) = Held \o out /\ <<>> \o out = out
    BY <1>1, <1>3
  <1>7. w[Main].pos = 0 => Stream = Held \o out
    BY <1>6 DEF Stream, Seen
  <1>8. w[Main].pos = 0 /\ w[Main].pc # "append" => Stream = out
    BY <1>6, <1>7 DEF Held
  <1>9. w[Main].pos = 1 => Stream = <<"P">> \o (Held \o out)
    BY DEF Stream, Seen
  <1>10. QED
    BY <1>2, <1>4, <1>5, <1>7, <1>8, <1>9

LEMMA PromptInit == ASSUME Init PROVE PromptInv
  <1>1. w[Main].pc = "until" /\ w[Main].pos = 0
    BY MainWrites DEF Init, Idle
  <1>2. /\ toShell = <<>> /\ out = <<>> /\ shell = "start"
        /\ sent.writes = 0 /\ sent.lines = 0
    BY DEF Init
  <1>3. Stream = <<>>
    BY <1>1, <1>2, TypeInit, StreamTyped
  <1>4. Plain(Stream)
    BY <1>3 DEF Plain
  <1>5. QED
    BY <1>1, <1>2, <1>4 DEF PromptInv

\* A step that takes nothing the writer sees.
LEMMA PromptKept ==
    ASSUME PromptInv, w'[Main] = w[Main], UNCHANGED <<toShell, out, shell, sent>>
    PROVE  PromptInv'
  <1>1. Held' = Held /\ Seen' = Seen
    BY DEF Held, Seen
  <1>2. Stream' = Stream /\ Owed' = Owed
    BY <1>1 DEF Stream, Owed
  <1>3. QED
    BY <1>2 DEF PromptInv

\* The matcher sees a prompt when it ends, and takes no other text for one.
LEMMA MatchSees ==
    ASSUME TypeInv, PromptInv, wr_console(Main)
    PROVE  PromptInv'
  <1> DEFINE c == w[Main].c
             pos == w[Main].pos
  <1>a. Main \in Workers
    BY MainWrites
  <1>1. /\ w[Main].pc = "append" /\ UNCHANGED <<toShell, out, shell, sent>>
        /\ \/ Match(Main) = 2 /\ w'[Main].pc = "idle" /\ w'[Main].pos = 0
           \/ Match(Main) # 2 /\ w'[Main].pc = "until" /\ w'[Main].pos = Match(Main)
    BY <1>a, WrConsoleDoes
  <1>2. c \in Char /\ out \in Seq(Char) /\ <<c>> \in Seq(Char)
    BY <1>1, <1>a DEF TypeInv
  <1>3. pos \in {0, 1} /\ Plain(Stream) /\ shell # "start"
    BY <1>1, StreamTyped DEF PromptInv
  <1>4. Held = <<c>> /\ Owed = 1
    BY <1>1 DEF Held, Owed
  <1>5. Match(Main) = IF c = prompt[pos + 1] THEN pos + 1 ELSE 0
    BY DEF Match
  <1>6. prompt[1] = "P" /\ prompt[2] = ">"
    BY DEF prompt
  <1>7. /\ toShell \in Seq(LineKinds) /\ sent.writes \in Nat /\ sent.lines \in Nat
        /\ shell = "reading" => Len(toShell) + Count(Stream) = sent.lines - sent.writes + 1
    BY <1>4 DEF PromptInv
  <1>8. Count(Stream) \in Nat /\ Len(toShell) \in Nat /\ Count(out) \in Nat
    <2>1. Stream \in Seq(Char) /\ Len(toShell) \in Nat
      BY <1>7, StreamTyped
    <2>2. QED
      BY <1>2, <2>1, AtFinite
  <1>9. SUFFICES /\ w'[Main].pc = "idle" => w'[Main].pos = 0
                 /\ Plain(Stream') /\ Count(Stream') \in Nat
                 /\ \/ Owed' = 1 /\ Count(Stream') = Count(Stream)
                    \/ Owed' = 0 /\ Count(Stream') + 1 = Count(Stream)
    <2>1. w'[Main].pc \in {"idle", "until"}
      BY <1>1
    <2>2. shell' = "reading" => Len(toShell') + Count(Stream') = sent'.lines - sent'.writes + Owed'
      <3> DEFINE n == Count(Stream)
                 m == Count(Stream')
      <3>1. CASE Owed' = 1 /\ m = n
        BY <1>1, <1>7, <3>1
      <3>2. CASE Owed' = 0 /\ m + 1 = n
        <4>1. n \in Nat /\ m \in Nat /\ Len(toShell) \in Nat
          BY <1>8, <1>9
        <4> HIDE DEF n, m
        <4>2. shell = "reading" => Len(toShell) + m = sent.lines - sent.writes + 0
          BY <1>7, <3>2, <4>1 DEF n
        <4>3. QED
          BY <1>1, <3>2, <4>2 DEF m
      <3>3. QED
        BY <1>9, <3>1, <3>2
    <2>3. shell' # "start"
      BY <1>1, <1>3
    <2>4. QED
      BY <1>1, <1>7, <1>9, <2>1, <2>2, <2>3 DEF PromptInv
  <1> HIDE DEF c, pos
  <1>10. CASE pos = 0
    <2>1. Stream = <<c>> \o out
      BY <1>4, <1>10, StreamTyped DEF pos
    <2>2. Plain(out) /\ (c # "P" => Count(Stream) = Count(out))
      BY <1>2, <1>3, <2>1, CountDrop
    <2>3. Match(Main) = IF c = "P" THEN 1 ELSE 0
      BY <1>5, <1>6, <1>10
    <2>4. w'[Main].pc = "until" /\ w'[Main].pos = Match(Main) /\ Owed' = 1
      BY <1>1, <2>3 DEF Owed
    <2>5. CASE c = "P"
      <3>1. w'[Main].pos = 1 /\ Held' = <<>>
        BY <2>3, <2>4, <2>5 DEF Held
      <3>2. Stream' = <<"P">> \o (<<>> \o out)
        BY <1>1, <3>1 DEF Stream, Seen
      <3>3. Stream' = Stream
        BY <1>2, <2>1, <2>5, <3>2
      <3>4. QED
        BY <1>3, <1>8, <2>4, <3>3
    <2>6. CASE c # "P"
      <3>1. w'[Main].pos = 0 /\ Held' = <<>>
        BY <2>3, <2>4, <2>6 DEF Held
      <3>2. Stream' = <<>> \o (<<>> \o out)
        BY <1>1, <3>1 DEF Stream, Seen
      <3>3. Stream' = out
        BY <1>2, <3>2
      <3>4. QED
        BY <1>8, <2>2, <2>4, <2>6, <3>3
    <2>7. QED
      BY <2>5, <2>6
  <1>11. CASE pos = 1
    <2> DEFINE s == <<c>> \o out
    <2>1. Stream = <<"P">> \o s /\ s \in Seq(Char) /\ s[1] = c /\ "P" \in Char
      BY <1>2, <1>4, <1>11, StreamTyped DEF pos, Char
    <2> HIDE DEF s
    <2>2. Plain(s) /\ c # "P" /\ Count(Stream) = IF c = ">" THEN Count(s) + 1 ELSE Count(s)
      BY <1>3, <2>1, CountDrop
    <2>3. Plain(out) /\ Count(s) = Count(out)
      BY <1>2, <2>2, CountDrop DEF s
    <2>4. Match(Main) = IF c = ">" THEN 2 ELSE 0
      BY <1>5, <1>6, <1>11
    <2>5. w'[Main].pos = 0 /\ w'[Main].pc = IF c = ">" THEN "idle" ELSE "until"
      BY <1>1, <2>4
    <2>6. Held' = <<>> /\ Owed' = IF c = ">" THEN 0 ELSE 1
      BY <2>5 DEF Held, Owed
    <2>7. Stream' = <<>> \o (<<>> \o out)
      BY <1>1, <2>5, <2>6 DEF Stream, Seen
    <2>8. Stream' = out
      BY <1>2, <2>7
    <2>9. QED
      BY <1>8, <2>2, <2>3, <2>5, <2>6, <2>8
  <1>12. QED
    BY <1>3, <1>10, <1>11

\* A character taken from the pipe is still to be matched.
LEMMA ReadCharKeeps ==
    ASSUME TypeInv, PromptInv, ReadChar(Main)
    PROVE  PromptInv'
  <1>a. Main \in Workers
    BY MainWrites
  <1>1. /\ w[Main].pc = "until" /\ w'[Main].pc = "append" /\ w'[Main].c = Head(out)
        /\ w'[Main].pos = w[Main].pos /\ UNCHANGED <<toShell, shell, sent>>
        /\ out' \in Seq(Char) /\ out = <<Head(out)>> \o out' /\ out \in Seq(Char)
    BY <1>a, ReadCharDoes DEF TypeInv
  <1>2. out # <<>>
    BY DEF ReadChar
  <1>3. Held = <<>> /\ Held' = <<Head(out)>> /\ Seen' = Seen
    BY <1>1 DEF Held, Seen
  <1>4. <<>> \o out = out
    BY <1>1
  <1>5. Stream' = Stream
    BY <1>1, <1>3, <1>4 DEF Stream
  <1>6. Owed' = Owed
    BY <1>1 DEF Owed
  <1>7. QED
    BY <1>1, <1>2, <1>5, <1>6 DEF PromptInv

\* What the shell prints is the last the matcher sees.
LEMMA StreamGrows ==
    ASSUME TypeInv, NEW text \in Seq(Char), out' = out \o text, w' = w
    PROVE  Stream' = Stream \o text /\ Stream \in Seq(Char) /\ Owed' = Owed
  <1>1. Stream \in Seq(Char) /\ Seen \in Seq(Char) /\ Held \in Seq(Char) /\ out \in Seq(Char)
    BY StreamTyped, HeldTyped DEF TypeInv
  <1>2. Seen' = Seen /\ Held' = Held /\ Owed' = Owed
    BY DEF Seen, Held, Owed
  <1>3. Held \o out \in Seq(Char)
    BY <1>1
  <1>4. (Seen \o (Held \o out)) \o text = Seen \o ((Held \o out) \o text)
    <2> DEFINE h == Held \o out
    <2>1. Seen \in Seq(Char) /\ h \in Seq(Char)
      BY <1>1, <1>3
    <2> HIDE DEF h
    <2>2. (Seen \o h) \o text = Seen \o (h \o text)
      BY <2>1, Assoc
    <2>3. QED
      BY <2>2 DEF h
  <1>5. (Held \o out) \o text = Held \o (out \o text)
    BY <1>1, Assoc
  <1>6. Stream' = Stream \o text
    BY <1>2, <1>4, <1>5 DEF Stream
  <1>7. QED
    BY <1>1, <1>2, <1>6

\* A reply that leaves the shell reading.
LEMMA ReplyAdds ==
    ASSUME TypeInv, Plain(Stream), NEW text \in Seq(Char), Plain(text), At(text) = {},
           out' = out \o (text \o prompt), w' = w
    PROVE  Plain(Stream') /\ Count(Stream') = Count(Stream) + 1 /\ Owed' = Owed
  <1>1. text \o prompt \in Seq(Char)
    BY PromptLen
  <1>2. Stream' = Stream \o (text \o prompt) /\ Stream \in Seq(Char) /\ Owed' = Owed
    BY <1>1, StreamGrows
  <1>3. QED
    BY <1>2, CountAdd

\* A last word, that ends no call.
LEMMA LastWordPlain ==
    ASSUME TypeInv, Plain(Stream), NEW text \in Seq(Char), Plain(text),
           out' = out \o text, w' = w
    PROVE  Plain(Stream')
  BY StreamGrows, PlainJoin

LEMMA ShellKeeps ==
    ASSUME PlainTexts, TypeInv, PromptInv, Shell
    PROVE  PromptInv'
  <1>a. /\ <<"x", "n">> \in Seq(Char) /\ <<"P", "x", "n">> \in Seq(Char) /\ <<>> \in Seq(Char)
        /\ Plain(<<"x", "n">>) /\ Plain(<<"P", "x", "n">>) /\ Plain(<<>>)
        /\ At(<<"x", "n">>) = {} /\ At(<<>>) = {}
    <2>1. <<"x", "n">> \in Seq(Char) /\ <<"P", "x", "n">> \in Seq(Char) /\ <<>> \in Seq(Char)
      BY DEF Char
    <2>2. Plain(<<"x", "n">>) /\ At(<<"x", "n">>) = {}
      BY DEF Plain, At
    <2>3. Plain(<<"P", "x", "n">>)
      BY DEF Plain
    <2>4. Plain(<<>>) /\ At(<<>>) = {}
      BY DEF Plain, At
    <2>5. QED
      BY <2>1, <2>2, <2>3, <2>4
  <1>b. /\ w[Main].pc \in {"idle", "copy"} => w[Main].pos = 0
        /\ Plain(Stream) /\ toShell \in Seq(LineKinds)
        /\ sent.writes \in Nat /\ sent.lines \in Nat
        /\ shell = "start" => /\ w[Main].pc = "until" /\ w[Main].pos = 0 /\ out = <<>>
                              /\ toShell = <<>> /\ sent.lines = sent.writes
        /\ shell = "reading" => Len(toShell) + Count(Stream) = sent.lines - sent.writes + Owed
    BY DEF PromptInv
  <1>c. w' = w /\ sent' = sent
    BY ShellSays
  <1>d. Stream \in Seq(Char) /\ Count(Stream) \in Nat
    BY StreamTyped, AtFinite
  <1>e. ASSUME NEW text \in Seq(Char), Plain(text), Says(text), shell' \in {"gone", "stuck"},
               toShell' \in Seq(LineKinds)
        PROVE  PromptInv'
    <2>1. out' = out \o text
      BY <1>e DEF Says
    <2>2. Plain(Stream')
      BY <1>b, <1>c, <1>e, <2>1, LastWordPlain
    <2>3. QED
      BY <1>b, <1>c, <1>e, <2>2 DEF PromptInv
  <1>1. CASE ShellStart
    <2>1. shell = "start" /\ toShell' = toShell
      BY <1>1 DEF ShellStart
    <2>2. CASE Says(<<"x", "n">> \o prompt) /\ shell' = "reading"
      <3>1. out' = out \o (<<"x", "n">> \o prompt)
        BY <2>2 DEF Says
      <3>2. Plain(Stream') /\ Count(Stream') = Count(Stream) + 1 /\ Owed' = Owed
        BY <1>a, <1>b, <1>c, <3>1, ReplyAdds
      <3>3. Stream = <<>> /\ Owed = 1 /\ Len(toShell) = 0
        BY <1>b, <2>1, StreamTyped DEF Owed
      <3>4. Count(Stream) = 0
        BY <1>a, <3>3, FS_EmptySet DEF Count
      <3>5. Len(toShell') + Count(Stream') = sent'.lines - sent'.writes + Owed'
        BY <1>b, <1>c, <2>1, <3>2, <3>3, <3>4
      <3>6. QED
        BY <1>b, <1>c, <2>1, <2>2, <3>2, <3>5 DEF PromptInv
    <2>3. CASE Says(<<"x", "n">>) /\ shell' = "gone"
      BY <1>a, <1>b, <1>e, <2>1, <2>3
    <2>4. QED
      BY <1>1, <2>2, <2>3 DEF ShellStart
  <1>2. CASE ShellLine
    <2>1. shell = "reading" /\ toShell # <<>> /\ toShell' = Tail(toShell)
      BY <1>2 DEF ShellLine
    <2>2. toShell' \in Seq(LineKinds) /\ Len(toShell') = Len(toShell) - 1 /\ Len(toShell) \in Nat
      BY <1>b, <2>1
    <2>3. CASE (\E text \in IF Head(toShell) = "empty" THEN {<<>>} ELSE Texts :
                  Says(text \o prompt)) /\ UNCHANGED shell
      <3>1. PICK text \in IF Head(toShell) = "empty" THEN {<<>>} ELSE Texts :
              Says(text \o prompt)
        BY <2>3
      <3>2. text \in Seq(Char) /\ Plain(text) /\ At(text) = {}
        BY <1>a, <3>1, FsAssumption DEF PlainTexts
      <3>3. out' = out \o (text \o prompt)
        BY <3>1 DEF Says
      <3>4. Plain(Stream') /\ Count(Stream') = Count(Stream) + 1 /\ Owed' = Owed
        BY <1>b, <1>c, <3>2, <3>3, ReplyAdds
      <3>5. Len(toShell') + Count(Stream') = Len(toShell) + Count(Stream)
        BY <1>d, <2>2, <3>4
      <3>6. Len(toShell') + Count(Stream') = sent'.lines - sent'.writes + Owed'
        BY <1>b, <1>c, <2>1, <3>4, <3>5
      <3>7. QED
        BY <1>b, <1>c, <2>1, <2>2, <2>3, <3>4, <3>6 DEF PromptInv
    <2>4. CASE Says(<<"P", "x", "n">>) /\ shell' = "gone"
      BY <1>a, <1>e, <2>2, <2>4
    <2>5. CASE shell' \in {"gone", "stuck"} /\ Says(<<"x", "n">>)
      BY <1>a, <1>e, <2>2, <2>5
    <2>6. QED
      BY <1>2, <2>3, <2>4, <2>5 DEF ShellLine
  <1>3. QED
    BY <1>1, <1>2 DEF Shell

\* A write that reaches the shell: a command and the other lines of a buffer.
Sends(rest) ==
    /\ \E op \in LineKinds : toShell' = toShell \o (<<op>> \o rest)
    /\ sent'.writes = sent.writes + 1 /\ sent'.lines = sent.lines + 1 + Len(rest)

LEMMA WriteSends ==
    ASSUME TypeInv, NEW t \in Workers, pi_write(t)
    PROVE  \/ UNCHANGED <<w, toShell, sent>>
           \/ /\ w'[t].pc = "until" /\ w'[t].pos = 0
              /\ \E rest \in Seq(LineKinds) : Sends(rest)
  <1>1. PICK path \in Paths, buf \in Bufs :
          LET r == file_lookup(path, perm_wr)
          IN  \/ r # "ok" /\ Answer(r) /\ UNCHANGED <<w, toShell, sent, fuse>>
              \/ /\ r = "ok" /\ shell = "gone"
                 /\ fuse' = "exit" /\ UNCHANGED <<w, ret, toShell, sent>>
              \/ /\ r = "ok" /\ shell # "gone"
                 /\ toShell' = toShell \o Lines(path, IF path = "reboot" THEN <<>> ELSE buf)
                 /\ sent' = [writes |-> sent.writes + 1,
                             lines |-> sent.lines + 1 + (IF path = "reboot" THEN 0 ELSE Len(buf))]
                 /\ w' = [w EXCEPT ![t] = [Idle EXCEPT !.pc = "until", !.op = path]]
                 /\ UNCHANGED <<ret, fuse>>
    BY Zenon DEF pi_write
  <1>2. CASE UNCHANGED <<w, toShell, sent>>
    BY <1>2
  <1>3. CASE /\ toShell' = toShell \o Lines(path, IF path = "reboot" THEN <<>> ELSE buf)
             /\ sent' = [writes |-> sent.writes + 1,
                         lines |-> sent.lines + 1 + (IF path = "reboot" THEN 0 ELSE Len(buf))]
             /\ w' = [w EXCEPT ![t] = [Idle EXCEPT !.pc = "until", !.op = path]]
    <2> DEFINE rest == IF path = "reboot" THEN <<>> ELSE buf
               r == [Idle EXCEPT !.pc = "until", !.op = path]
    <2>1. r \in Thr /\ r.pc = "until" /\ r.pos = 0
      BY DEF Idle, Thr, Ops
    <2> HIDE DEF r
    <2>2. w'[t] = r
      BY <1>3, <2>1, OneThread DEF TypeInv, r
    <2>3. path \in LineKinds
      BY DEF LineKinds, Paths, root
    <2>4. buf \in Seq(LineKinds)
      <3>1. buf \in Seq({"echo", "reboot", "run", "empty", "other"})
        BY FsAssumption
      <3>2. \A i \in 1 .. Len(buf) : buf[i] \in LineKinds
        BY <3>1 DEF LineKinds
      <3>3. QED
        BY <3>1, <3>2
    <2>5. rest \in Seq(LineKinds) /\ Len(rest) = IF path = "reboot" THEN 0 ELSE Len(buf)
      BY <2>4
    <2> HIDE DEF rest
    <2>6. toShell' = toShell \o (<<path>> \o rest)
      BY <1>3 DEF Lines, rest
    <2>7. sent'.writes = sent.writes + 1 /\ sent'.lines = sent.lines + 1 + Len(rest)
      BY <1>3, <2>5
    <2>8. QED
      BY <2>1, <2>2, <2>3, <2>5, <2>6, <2>7 DEF Sends
  <1>4. QED
    BY <1>1, <1>2, <1>3

LEMMA WriteKeeps ==
    ASSUME TypeInv, PromptInv, pi_write(Main)
    PROVE  PromptInv'
  <1>a. Main \in Workers
    BY MainWrites
  <1>1. w[Main].pc = "idle" /\ UNCHANGED <<out, shell>>
    BY DEF pi_write, Serving
  <1>2. CASE UNCHANGED <<w, toShell, sent>>
    BY <1>1, <1>2, PromptKept
  <1>3. ASSUME w'[Main].pc = "until", w'[Main].pos = 0,
               NEW rest \in Seq(LineKinds), Sends(rest)
        PROVE  PromptInv'
    <2>1. PICK op \in LineKinds : toShell' = toShell \o (<<op>> \o rest)
      BY <1>3 DEF Sends
    <2>2. /\ w[Main].pos = 0 /\ shell # "start" /\ Plain(Stream) /\ toShell \in Seq(LineKinds)
          /\ sent.writes \in Nat /\ sent.lines \in Nat
          /\ shell = "reading" => Len(toShell) + Count(Stream) = sent.lines - sent.writes + Owed
      BY <1>1 DEF PromptInv
    <2>3. <<op>> \in Seq(LineKinds) /\ Len(<<op>>) = 1
      BY <2>1
    <2>4. toShell' \in Seq(LineKinds) /\ Len(toShell') = Len(toShell) + 1 + Len(rest)
          /\ Len(rest) \in Nat /\ Len(toShell) \in Nat
      BY <2>1, <2>2, <2>3
    <2>5. Owed = 0 /\ Owed' = 1
      BY <1>1, <1>3 DEF Owed
    <2>6. Held' = Held /\ Seen' = Seen
      BY <1>1, <1>3, <2>2 DEF Held, Seen
    <2>7. Stream' = Stream
      BY <1>1, <2>6 DEF Stream
    <2>8. sent'.writes = sent.writes + 1 /\ sent'.lines = sent.lines + 1 + Len(rest)
      BY <1>3 DEF Sends
    <2>9. Count(Stream) \in Nat
      BY StreamTyped, AtFinite
    <2>10. shell' = "reading" => Len(toShell') + Count(Stream') = sent'.lines - sent'.writes + Owed'
      <3> SUFFICES ASSUME shell' = "reading"
                   PROVE  Len(toShell') + Count(Stream') = sent'.lines - sent'.writes + Owed'
        OBVIOUS
      <3>1. Len(toShell) + Count(Stream) = sent.lines - sent.writes + 0
        BY <1>1, <2>2, <2>5
      <3>2. (Len(toShell) + 1 + Len(rest)) + Count(Stream) =
              (sent.lines + 1 + Len(rest)) - (sent.writes + 1) + 1
        <4> DEFINE a == Len(toShell)
                   k == Len(rest)
                   n == Count(Stream)
                   l == sent.lines
                   b == sent.writes
        <4>1. a \in Nat /\ k \in Nat /\ n \in Nat /\ l \in Nat /\ b \in Nat
          BY <2>2, <2>4, <2>9
        <4>2. a + n = l - b + 0
          BY <3>1
        <4> HIDE DEF a, k, n, l, b
        <4>3. (a + 1 + k) + n = (l + 1 + k) - (b + 1) + 1
          BY <4>1, <4>2
        <4>4. QED
          BY <4>3 DEF a, k, n, l, b
      <3>3. QED
        BY <2>4, <2>5, <2>7, <2>8, <3>2
    <2>11. sent'.writes \in Nat /\ sent'.lines \in Nat
      BY <2>2, <2>4, <2>8
    <2>12. QED
      BY <1>1, <1>3, <2>2, <2>4, <2>7, <2>10, <2>11 DEF PromptInv
  <1>4. QED
    BY <1>a, <1>2, <1>3, WriteSends

\* A read leaves what the writer waits for alone, be it the writer's own.
LEMMA IdleKeeps ==
    ASSUME TypeInv, PromptInv, w[Main].pc \in {"idle", "copy"}, w'[Main].pc \in {"idle", "copy"},
           w'[Main].pos = 0, UNCHANGED <<toShell, out, shell, sent>>
    PROVE  PromptInv'
  <1>1. Held' = Held /\ Seen' = Seen /\ Owed' = Owed
    BY DEF PromptInv, Held, Seen, Owed
  <1>2. Stream' = Stream
    BY <1>1 DEF Stream
  <1>3. QED
    BY <1>1, <1>2 DEF PromptInv

LEMMA PromptNext ==
    ASSUME OneWriter, PlainTexts, TypeInv, Record, PromptInv, [Next]_vars
    PROVE  PromptInv'
  <1>a. Main \in Workers /\ w \in [Workers -> Thr]
    BY MainWrites DEF TypeInv
  <1>b. \A t \in Workers \ {Main} : w[t].pc \in {"idle", "copy"}
    BY DEF Record
  <1>1. CASE UNCHANGED vars
    BY <1>1, PromptKept DEF vars
  <1>2. CASE Shell
    BY <1>2, ShellKeeps
  <1>3. ASSUME NEW t \in Workers, Thread(t) \/ Call(t) PROVE PromptInv'
    <2>1. CASE ReadChar(t)
      <3>1. t = Main
        BY <2>1, <1>b, ReadCharDoes
      <3>2. QED
        BY <2>1, <3>1, ReadCharKeeps
    <2>2. CASE wr_console(t)
      <3>1. t = Main
        BY <2>2, <1>b, WrConsoleDoes
      <3>2. QED
        BY <2>2, <3>1, MatchSees
    <2>3. CASE Closed(t)
      <3>1. /\ t = Main /\ out' = <<>> /\ shell' = "gone" /\ UNCHANGED <<toShell, sent>>
            /\ w'[Main].pc = "idle" /\ w'[Main].pos = 0
        BY <2>3, <1>b, ClosedDoes
      <3>2. Stream' = <<>> \o (<<>> \o <<>>)
        BY <3>1 DEF Stream, Held, Seen
      <3>3. Plain(Stream')
        <4>1. Stream' = <<>>
          BY <3>2
        <4>2. QED
          BY <4>1 DEF Plain
      <3>4. QED
        BY <3>1, <3>3 DEF PromptInv
    <2>4. CASE Copy(t)
      <3>1. w[t].pc = "copy" /\ w'[t].pc = "idle" /\ w'[t].pos = 0 /\ Others(t)
            /\ UNCHANGED <<toShell, out, shell, sent>>
        BY <2>4, CopyDoes
      <3>2. CASE t = Main
        BY <3>1, <3>2, IdleKeeps
      <3>3. CASE t # Main
        BY <1>a, <3>1, <3>3, PromptKept DEF Others
      <3>4. QED
        BY <3>2, <3>3
    <2>5. CASE Looks(t)
      BY <2>5, LooksOnly, PromptKept
    <2>6. CASE pi_read(t)
      <3>1. w[t].pc = "idle" /\ UNCHANGED <<toShell, out, shell, sent>>
        BY <2>6 DEF pi_read, Serving
      <3>2. CASE UNCHANGED w
        BY <3>1, <3>2, PromptKept
      <3>3. ASSUME NEW r \in Thr, Begun(t, r), r.pc = "copy", r.pos = 0 PROVE PromptInv'
        <4>1. Others(t) /\ w'[t] = r
          BY <3>3, <1>a, OneThread DEF Begun
        <4>2. CASE t = Main
          BY <3>1, <3>3, <4>1, <4>2, IdleKeeps
        <4>3. CASE t # Main
          BY <1>a, <3>1, <4>1, <4>3, PromptKept DEF Others
        <4>4. QED
          BY <4>2, <4>3
      <3>4. QED
        BY <2>6, <3>2, <3>3, ReadBegins
    <2>7. CASE pi_write(t)
      <3>1. t = Main
        BY <2>7, WriteBegins DEF OneWriter
      <3>2. QED
        BY <2>7, <3>1, WriteKeeps
    <2>8. QED
      BY <1>3, <2>1, <2>2, <2>3, <2>4, <2>5, <2>6, <2>7 DEF Thread, Call, Looks
  <1>4. QED
    BY <1>1, <1>2, <1>3 DEF Next

LEMMA PromptBehind ==
    ASSUME OneWriter, TypeInv, PromptInv PROVE BehindByExtraLines
  <1> SUFFICES ASSUME fuse = "serving", shell = "reading",
                      \A t \in Writers : w[t].pc \in {"idle", "copy"}
               PROVE  Len(toShell) + Prompts = sent.lines - sent.writes
    BY DEF BehindByExtraLines
  <1>1. w[Main].pc \in {"idle", "copy"} /\ w[Main].pos = 0
    BY MainWrites DEF PromptInv
  <1>2. Stream = out /\ Owed = 0
    BY <1>1, StreamTyped DEF Owed
  <1>3. Count(out) = Prompts
    BY CountIsPrompts DEF TypeInv
  <1>4. /\ sent.writes \in Nat /\ sent.lines \in Nat
        /\ Len(toShell) + Count(Stream) = sent.lines - sent.writes + Owed
    BY DEF PromptInv
  <1>5. QED
    BY <1>2, <1>3, <1>4

\* One thread writes, any number read, and the pi's replies hold no prompt: when
\* no write is under way the file system is behind the shell by exactly the lines
\* buffers held beyond their commands, however the characters and the two
\* processes interleave.  The matcher of echo_until_fn starts over at 0, so a
\* reply that ends in the prompt's first character would hide the prompt.
THEOREM BehindByExtraLinesCorrect ==
    ASSUME OneWriter, PlainTexts PROVE Spec => []BehindByExtraLines
  <1> DEFINE IInv == TypeInv /\ Record /\ PromptInv
  <1>1. Init => IInv
    BY TypeInit, RecordInit, PromptInit
  <1>2. IInv /\ [Next]_vars => IInv'
    BY TypeNext, RecordNext, PromptNext
  <1>3. IInv => BehindByExtraLines
    BY PromptBehind
  <1>4. QED
    BY <1>1, <1>2, <1>3, PTL DEF Spec
=============================================================================
