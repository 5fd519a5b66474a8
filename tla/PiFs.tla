-------------------------------- MODULE PiFs --------------------------------
(* The FUSE file system (unix-side/fs): four files, three of which send       *)
(* commands to the pi through the unix shell, a child process at the other    *)
(* end of two pipes; the fourth, /console, holds all the shell has printed.   *)
(* A line sent to the shell is its kind.  The shell's prompt "PIX:> " is cut  *)
(* down to P >, a line of its log ("PIX:...") to P x n, other text to x n.    *)
(* A permission is a set of bits.  Operators whose names begin with M and a   *)
(* capital are faulty variants of the definition that follows them: they      *)
(* test the properties.                                                       *)
EXTENDS Integers, Sequences, SequencesExt, FiniteSets, FiniteSetsExt

CONSTANTS
    Workers,      \* FUSE threads
    Writers,      \* those among them that execute writes
    Allocs,       \* file_new's n_alloc, by the number of threads: 1 or many
    Bufs,         \* what fd_puts sends of the buffers written: the lines besides
                  \* the first.  No byte ends a FUSE buffer, so lines of an
                  \* earlier request may follow its own
    Texts,        \* what the shell prints in answer to a command
    ReadSizes,    \* offsets and sizes asked for by readers
    MaxWrites     \* bound on writes

Char == {"P", ">", "x", "n"}

ASSUME FsAssumption ==
    /\ Writers \subseteq Workers /\ Writers # {} /\ MaxWrites \in Nat /\ ReadSizes \subseteq Nat
    /\ Allocs.one \subseteq Nat /\ Allocs.many \subseteq Nat
    /\ Texts \subseteq Seq(Char)
    /\ Bufs \subseteq Seq({"echo", "reboot", "run", "empty", "other"})

VARIABLES
    w,          \* the threads: [pc, op, pos, c, off, gen, n]
    ret,        \* what the last call to end gave: <<kind, value>>
    console,    \* /console: [data, n_alloc, n_data, gen]; gen is the allocation
    threads,    \* the threads in use: one with -s, all without
    toShell,    \* lines the shell has not read
    out,        \* characters the shell has printed and nobody read
    shell,      \* "reading", "stuck" (the pi never answers) or "gone"
    fuse,       \* "main", "serving", "exit" or "panic"
    printed,    \* all the shell has printed
    sent        \* [writes, lines]: writes that reached the shell, and their lines

vars == <<w, ret, console, threads, toShell, out, shell, fuse, printed, sent>>

prompt == <<"P", ">">>
NUL == "nul"
Idle == [pc |-> "idle", op |-> "none", pos |-> 0, c |-> NUL, off |-> 0, gen |-> 0, n |-> 0]
-----------------------------------------------------------------------------
(* fs-support.c: permissions and lookup *)

perm_rd == {"r"}
perm_wr == {"w"}
perm_rw == {"r", "w", "x"}

root == [echo |-> perm_rw, reboot |-> perm_rw, run |-> perm_rw, console |-> perm_rd]
Paths == DOMAIN root \cup {"other"}

is_legal(p) == p \in {perm_rd, perm_wr, perm_rw}
flag_to_perm(flags) == CASE flags = "O_WRONLY" -> perm_wr
                         [] flags = "O_RDWR"   -> perm_wr \cup perm_rd
                         [] flags = "O_RDONLY" -> perm_rd

\* What file_lookup says: an error, or 0 and the entry; has_perm panics when it
\* is asked for a permission that is not legal.
file_lookup(path, perm) ==
    CASE path \notin DOMAIN root     -> "ENOENT"
      [] ~is_legal(perm)             -> "panic"
      [] ~(perm \subseteq root[path]) -> "EACCES"
      [] OTHER                       -> "ok"
-----------------------------------------------------------------------------
(* The calls that look at the tables: open, getattr, readdir, truncate *)

Running == fuse \in {"main", "serving"}
Serving(t) == fuse = "serving" /\ t \in threads /\ w[t].pc = "idle"
Give(kind, val) == ret' = <<kind, val>>
Answer(r) == Give(IF r = "ok" THEN "ok" ELSE "error", r)
Looked == UNCHANGED <<w, console, threads, toShell, out, shell, printed, sent>>

pi_open(t) ==
    /\ Serving(t)
    /\ \E path \in Paths, flags \in {"O_RDONLY", "O_WRONLY", "O_RDWR"} :
         LET r == file_lookup(path, flag_to_perm(flags))
         IN  /\ Answer(r)
             /\ fuse' = IF r = "panic" THEN "panic" ELSE fuse
    /\ Looked

pi_getattr(t) ==
    /\ Serving(t)
    /\ \E path \in Paths :
         IF path \notin DOMAIN root THEN Answer("ENOENT")
         ELSE Give("size", IF path = "console" THEN console.n_data ELSE 0)
    /\ UNCHANGED fuse /\ Looked

pi_readdir(t) ==
    /\ Serving(t)
    /\ Give("names", DOMAIN root) \/ Answer("ENOENT")
    /\ UNCHANGED fuse /\ Looked

\* The command files stay empty, and /console cannot be written: no length is
\* below n_data.
pi_truncate(t) ==
    /\ Serving(t)
    /\ \E path \in Paths : Answer(file_lookup(path, perm_wr))
    /\ UNCHANGED fuse /\ Looked
-----------------------------------------------------------------------------
(* /console: append_to_file and pi_read *)

\* What memory holds at offset off, for n bytes, past the data too.
Bytes(f, off, n) == [i \in 1 .. n |-> IF off + i <= Len(f.data) THEN f.data[off + i] ELSE NUL]

\* append_to_file of one byte: realloc moves the data when there is no room.
MNoAlloc(f, c, off) ==
    [f EXCEPT !.data = [i \in 1 .. Max({Len(@), off + 1}) |-> IF i = off + 1 THEN c ELSE @[i]],
              !.n_data = Max({@, off + 1})]
MAppendAtStart(f, c, off) ==
    [f EXCEPT !.data = [i \in 1 .. Max({Len(@), off}) |-> IF i = Max({off, 1}) THEN c ELSE @[i]],
              !.n_data = Max({@, off}), !.n_alloc = Max({@, off})]
append_to_file(f, c, off) ==
    LET room == off + 1 <= f.n_alloc
    IN  [data |-> [i \in 1 .. Max({Len(f.data), off + 1}) |-> IF i = off + 1 THEN c ELSE f.data[i]],
         n_alloc |-> IF room THEN f.n_alloc ELSE off + 1,
         n_data |-> Max({f.n_data, off + 1}),
         gen |-> IF room THEN f.gen ELSE f.gen + 1]

\* pi_read: the length is settled first, the bytes are copied later.
MClip(size, off) == size
Clip(size, off) == Min({size, console.n_data - off})
pi_read(t) ==
    /\ Serving(t)
    /\ \E path \in Paths, off, size \in ReadSizes :
         LET r == file_lookup(path, perm_rd)
             n_data == IF path = "console" THEN console.n_data ELSE 0
         IN  \/ r # "ok" /\ Answer(r) /\ UNCHANGED w
             \/ r = "ok" /\ (off > n_data \/ path # "console")
                /\ Give("size", 0) /\ UNCHANGED w
             \/ /\ r = "ok" /\ path = "console" /\ off <= n_data
                /\ w' = [w EXCEPT ![t] = [Idle EXCEPT !.pc = "copy", !.off = off,
                                            !.n = Clip(size, off), !.gen = console.gen]]
                /\ UNCHANGED ret
    /\ UNCHANGED <<fuse, console, threads, toShell, out, shell, printed, sent>>

Copy(t) ==
    /\ fuse = "serving" /\ w[t].pc = "copy"
    /\ Give("bytes", [off |-> w[t].off, freed |-> w[t].gen # console.gen,
                         data |-> Bytes(console, w[t].off, w[t].n)])
    /\ w' = [w EXCEPT ![t] = Idle]
    /\ UNCHANGED <<fuse, console, threads, toShell, out, shell, printed, sent>>
-----------------------------------------------------------------------------
(* Commands: pi_write, do_echo, do_run, do_reboot, echo_until_fn *)

\* The lines a write sends: the command, what follows in the buffer, and the
\* newline that ends the last of them.
Lines(op, buf) == <<op>> \o buf

\* pi_write.  fd_puts to a shell that has gone fails and ends the process.
pi_write(t) ==
    /\ Serving(t) /\ t \in Writers /\ sent.writes < MaxWrites
    /\ \E path \in Paths, buf \in Bufs :
         LET r == file_lookup(path, perm_wr)
         IN  \/ r # "ok" /\ Answer(r) /\ UNCHANGED <<w, toShell, sent, fuse>>
             \/ /\ r = "ok" /\ shell = "gone"
                /\ fuse' = "exit" /\ UNCHANGED <<w, ret, toShell, sent>>
             \/ /\ r = "ok" /\ shell # "gone"
                /\ toShell' = toShell \o Lines(path, IF path = "reboot" THEN <<>> ELSE buf)
                /\ sent' = [writes |-> sent.writes + 1,
                            lines |-> sent.lines + 1 + (IF path = "reboot" THEN 0 ELSE Len(buf))]
                /\ w' = [w EXCEPT ![t] = [Idle EXCEPT !.pc = "until", !.op = path]]
                /\ UNCHANGED <<ret, fuse>>
    /\ UNCHANGED <<console, threads, out, shell, printed>>

\* echo_until_fn: one character; wr_console takes its place in the file.
ReadChar(t) ==
    /\ Running /\ w[t].pc = "until" /\ out # <<>>
    /\ w' = [w EXCEPT ![t].pc = "append", ![t].c = Head(out), ![t].off = console.n_data]
    /\ out' = Tail(out)
    /\ UNCHANGED <<ret, console, threads, toShell, shell, fuse, printed, sent>>

\* The call is over: main goes on to fuse_main, do_reboot to exit.
Return(t) ==
    /\ w' = [w EXCEPT ![t] = Idle]
    /\ Answer("ok")
    /\ fuse' = CASE w[t].op = "main"   -> "serving"
                 [] w[t].op = "reboot" -> "exit"
                 [] OTHER -> fuse

MMatch(t) == w[t].pos + 1
Match(t) == IF w[t].c = prompt[w[t].pos + 1] THEN w[t].pos + 1 ELSE 0
wr_console(t) ==
    /\ Running /\ w[t].pc = "append"
    /\ console' = append_to_file(console, w[t].c, w[t].off)
    /\ \/ Match(t) = Len(prompt) /\ Return(t)
       \/ /\ Match(t) # Len(prompt)
          /\ w' = [w EXCEPT ![t].pc = "until", ![t].pos = Match(t)]
          /\ UNCHANGED <<ret, fuse>>
    /\ UNCHANGED <<threads, toShell, out, shell, printed, sent>>

\* The shell has closed its end: the caller cannot tell.
MReadAgain(t) == Running /\ w[t].pc = "until" /\ out = <<>> /\ UNCHANGED vars
Closed(t) ==
    /\ Running /\ w[t].pc = "until" /\ out = <<>> /\ shell = "gone"
    /\ Return(t)
    /\ UNCHANGED <<console, threads, toShell, out, shell, printed, sent>>
-----------------------------------------------------------------------------
(* The child process: what ShellLink describes, seen from its pipes *)

Says(text) == out' = out \o text /\ printed' = printed \o text
ShellLine ==
    /\ shell = "reading" /\ toShell # <<>>
    /\ toShell' = Tail(toShell)
    /\ LET op == Head(toShell)
       IN  \/ op # "reboot" /\ (\E text \in IF op = "empty" THEN {<<>>} ELSE Texts :
                                  Says(text \o prompt)) /\ UNCHANGED shell
           \/ op = "reboot" /\ Says(<<"P", "x", "n">>) /\ shell' = "gone"
           \/ op \in {"echo", "run"} /\ shell' \in {"gone", "stuck"} /\ Says(<<"x", "n">>)
    /\ UNCHANGED <<w, ret, console, threads, fuse, sent>>

\* Start-up: the pi's output, then the first prompt, or an end without one.
ShellStart ==
    /\ shell = "start"
    /\ \/ Says(<<"x", "n">> \o prompt) /\ shell' = "reading"
       \/ Says(<<"x", "n">>) /\ shell' = "gone"
    /\ UNCHANGED <<w, ret, console, threads, toShell, fuse, sent>>

\* main waits for the first prompt before any request is served; redir has given
\* it the pipes.  With -s there is one thread.
Main == CHOOSE t \in Writers : TRUE
Init ==
    /\ threads \in {Workers, {Main}}
    /\ w = [t \in Workers |-> IF t = Main THEN [Idle EXCEPT !.pc = "until", !.op = "main"]
                              ELSE Idle]
    /\ ret = <<"ok", "ok">>
    /\ \E n \in IF threads = Workers THEN Allocs.many ELSE Allocs.one :
         console = [data |-> <<>>, n_alloc |-> n, n_data |-> 0, gen |-> 0]
    /\ toShell = <<>> /\ out = <<>> /\ shell = "start" /\ fuse = "main"
    /\ printed = <<>> /\ sent = [writes |-> 0, lines |-> 0]

Thread(t) == ReadChar(t) \/ wr_console(t) \/ Closed(t) \/ Copy(t)
Call(t) == pi_open(t) \/ pi_getattr(t) \/ pi_readdir(t) \/ pi_truncate(t) \/ pi_read(t)
           \/ pi_write(t)
Shell == ShellStart \/ ShellLine
Next == Shell \/ (\E t \in Workers : Thread(t) \/ Call(t))
Spec == Init /\ [][Next]_vars
FairSpec == Spec /\ WF_vars(Shell) /\ \A t \in Workers : WF_vars(Thread(t))
-----------------------------------------------------------------------------
(* Properties *)

\* Every variable keeps its type, the matcher stays inside the prompt (the
\* assertion of fsm_chr_done), and the data stays inside its allocation.
TypeOK ==
    /\ \A t \in Workers : w[t].pc \in {"idle", "until", "append", "copy"}
                          /\ w[t].pos < Len(prompt)
    /\ console.n_data <= console.n_alloc /\ console.n_data <= Len(console.data)
    /\ shell \in {"start", "reading", "stuck", "gone"}
    /\ fuse \in {"main", "serving", "exit", "panic"}

\* /console is a faithful record: with what a thread holds and what is in the
\* pipe it is all the shell has printed, in order, nothing twice.
ConsoleFaithful ==
    LET holders == SetToSeq({t \in Workers : w[t].pc = "append"})
        held == [i \in 1 .. Len(holders) |-> w[holders[i]].c]
    IN  printed = SubSeq(console.data, 1, console.n_data) \o held \o out

\* Between writes the file system is behind the shell by exactly the lines that
\* buffers held beyond their commands: each of them brings a prompt nobody waits
\* for.  With none, a write returns when the whole reply is in /console.
Prompts == Cardinality({i \in 1 .. Len(out) - 1 : SubSeq(out, i, i + 1) = prompt})
BehindByExtraLines ==
    (fuse = "serving" /\ shell = "reading" /\ \A t \in Writers : w[t].pc \in {"idle", "copy"})
      => Len(toShell) + Prompts = sent.lines - sent.writes

\* A read returns bytes of /console as they were printed, never those past its
\* end and never memory that a growing file has given back.
ReadsExact ==
    ret[1] = "bytes" =>
      LET v == ret[2]
      IN  /\ ~v.freed /\ v.off + Len(v.data) <= Len(printed)
          /\ v.data = SubSeq(printed, v.off + 1, v.off + Len(v.data))

\* A write to a command file returns, unless the pi never answers the shell or
\* the whole process ends.
Waits(t) == w[t].pc \in {"until", "append"}
WritesReturn ==
    \A t \in Writers : Waits(t) ~> (~Waits(t) \/ shell = "stuck" \/ ~Running)
=============================================================================
