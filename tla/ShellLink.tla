------------------------------ MODULE ShellLink ------------------------------
(* The unix shell (unix-side/shell) and the pi's shell (pi-side/kernel) at   *)
(* the two ends of the serial line: text commands and their replies, the     *)
(* image protocol of send_prog and load_code, and control-C.                 *)
(* toPi carries command lines <<"line", op>> and 32-bit words: <<"num", n>>, *)
(* <<"code", c>>, <<"crc", words>> or <<"junk">>.  toUnix carries characters *)
(* and the words ACK and NAK; a word read out of a text equals neither.  The *)
(* markers are cut down to the characters that matter to the matcher:        *)
(* "CMD-DONE\n" is C M n, "READY\n" is R n, a line of text x n, and the      *)
(* lines "PI REBOOT!!!" and "DONE!!!" are P n and D n.                       *)
(* Operators whose names begin with M and a capital are faulty variants of   *)
(* the definition that follows them: they test the properties.               *)
EXTENDS Integers, Sequences

CONSTANTS
    Images,          \* .bin files: [version, addr, nbytes, code]
    Texts,           \* what ls and cat print: whole lines
    ProgramTexts,    \* what a program prints
    LAST_USED_ADDRESSES, MAX_ADDRESS, PROTOCOL_VERSION,
    Width,           \* addresses are taken modulo this
    Garbles,         \* numbers a garbled word may read as
    MaxNoise,        \* bound on garbled words
    MaxLate,         \* bound on seconds that pass while the pi has work to do
    MaxInts          \* bound on control-C

Chars == {"C", "M", "R", "P", "D", "x", "n"}

\* Memory ends at least a word before the addresses do; every number fits in a
\* word; the words of a program may be those of the protocol.
ASSUME LinkAssumption ==
    /\ {LAST_USED_ADDRESSES, MAX_ADDRESS, Width, MaxNoise, MaxLate, MaxInts} \subseteq Nat
    /\ LAST_USED_ADDRESSES < MAX_ADDRESS /\ MAX_ADDRESS + 4 <= Width
    /\ Garbles \cup {7} \subseteq 0 .. Width - 1
    /\ Texts \cup ProgramTexts \subseteq Seq(Chars)
    /\ \A m \in Images :
         /\ {m.version, m.addr, m.nbytes} \subseteq 0 .. Width - 1
         /\ m.code \in Seq(({"num"} \X (0 .. Width - 1)) \cup ({"code"} \X STRING))

VARIABLES
    uPc, img,        \* where the unix shell is, and the image send_prog ships
    pos,             \* fsm_t: characters of the marker matched so far
    done, sa_flags,  \* control-C seen; the flags given to sigaction
    toPi, toUnix,    \* the line
    pPc, hdr, got,   \* where the pi is; load_code's header and the words stored
    high,            \* does the kernel map the load range?
    ran,             \* the image the pi last branched to: <<addr, words>>
    faults           \* [noise, late, ints]

unixVars == <<uPc, img, pos, done, sa_flags>>
piVars   == <<pPc, hdr, got, high, ran>>
vars     == <<uPc, img, pos, done, sa_flags, toPi, toUnix, pPc, hdr, got, high,
              ran, faults>>

cmd_done == <<"C", "M", "n">>
ready    == <<"R", "n">>
pi_done  == <<"P", "n">>
Panicked == <<"x", "n">>
ACK == "ack"
NAK == "nak"
EOT == <<"num", 7>>

crc32(words) == <<"crc", words>>
NoImage == [version |-> 0, addr |-> 0, nbytes |-> 0, code |-> <<>>]
Words(m) == <<<<"num", m.version>>, <<"num", m.addr>>>> \o m.code
NoHeader == [addr |-> 0, nbytes |-> 0, cksum |-> EOT]
-----------------------------------------------------------------------------
(* The pi: notmain, readline, load_code *)

Reply(chars) == toUnix' = toUnix \o chars
IsLine == toPi # <<>> /\ Head(toPi)[1] = "line"
IsWord == toPi # <<>> /\ Head(toPi)[1] # "line"

\* Start-up: the card, the memory, the file system; any demand may fail.
PiBoot ==
    /\ pPc = "boot"
    /\ \/ pPc' = "shell" /\ Reply(ready)
       \/ pPc' = "dead"  /\ Reply(Panicked)
    /\ UNCHANGED <<unixVars, toPi, hdr, got, high, ran, faults>>

\* What a program does once it has control.
Outcomes == [text : ProgramTexts, end : {"returns", "loops", "reboots"}]
Finish(o) ==
    /\ Reply(IF o.end = "returns" THEN o.text \o cmd_done ELSE o.text)
    /\ pPc' = CASE o.end = "returns" -> "shell"
                [] o.end = "loops"   -> "looping"
                [] OTHER             -> "dead"

\* One command line.  ls and cat end with the marker, echo does not; "echo"
\* without an argument does not match "echo " and is dropped without a word.
MNoDone(op) == <<>>
MEchoDone(op) == IF op \in {"ls", "cat", "echo"} THEN cmd_done ELSE <<>>
Marker(op) == IF op \in {"ls", "cat"} THEN cmd_done ELSE <<>>
Obey(op) ==
    CASE op \in {"ls", "cat"} ->
            \/ \E t \in Texts : Reply(t \o Marker(op)) /\ pPc' = "shell"
            \/ Reply(Panicked) /\ pPc' = "dead"
      [] op = "run"    -> pPc' = "running" /\ Reply(<<>>)
      [] op = "echo"   -> pPc' = "shell" /\ Reply(<<"x", "n">> \o Marker(op))
      [] op = "reboot" -> pPc' = "dead" /\ Reply(pi_done)
      [] op = "load"   -> pPc' = "header" /\ Reply(<<ACK>>)
      [] OTHER         -> pPc' = "shell" /\ Reply(<<>>)
PiLine ==
    /\ pPc = "shell" /\ IsLine
    /\ Obey(Head(toPi)[2])
    /\ toPi' = Tail(toPi)
    /\ UNCHANGED <<unixVars, hdr, got, high, ran, faults>>

\* do_run and the program it executes.
PiRun ==
    /\ pPc = "running"
    /\ \E o \in Outcomes : Finish(o)
    /\ UNCHANGED <<unixVars, toPi, hdr, got, high, ran, faults>>

\* Words left over from a load that was refused are characters of a command
\* line to readline: no command, an empty line (clean_reboot) or a line that is
\* too long (panic).
PiJunk ==
    /\ pPc = "shell" /\ IsWord
    /\ toPi' = Tail(toPi)
    /\ \/ pPc' = "shell" /\ UNCHANGED toUnix
       \/ pPc' = "dead"  /\ \E t \in {Panicked, <<"D", "n">>} : Reply(t)
    /\ UNCHANGED <<unixVars, hdr, got, high, ran, faults>>

\* load_code: the header.  addr + nbytes is an unsigned sum.
InRange(addr, nbytes) ==
    addr >= LAST_USED_ADDRESSES /\ (addr + nbytes) % Width <= MAX_ADDRESS
Refused(version, addr, nbytes) ==
    version # PROTOCOL_VERSION \/ ~InRange(addr, nbytes) \/ nbytes % 4 # 0
PiHeader ==
    /\ pPc = "header" /\ Len(toPi) >= 4
    /\ LET version == toPi[1][2]
           addr    == toPi[2][2]
           nbytes  == toPi[3][2]
       IN  \/ /\ Refused(version, addr, nbytes)
              /\ pPc' = "shell" /\ Reply(<<NAK>>) /\ UNCHANGED <<hdr, got>>
           \/ /\ ~Refused(version, addr, nbytes)
              /\ pPc' = "body" /\ Reply(<<ACK>>)
              /\ hdr' = [addr |-> addr, nbytes |-> nbytes, cksum |-> toPi[4]]
              /\ got' = <<>>
    /\ toPi' = SubSeq(toPi, 5, Len(toPi))
    /\ UNCHANGED <<unixVars, high, ran, faults>>

\* The kernel's sections are mapped, and part of the load range when the heap
\* or the window of an earlier run has reached it.
Mapped(a) == a < LAST_USED_ADDRESSES \/ (high /\ a < MAX_ADDRESS)
Missing == 4 * Len(got) < hdr.nbytes

\* One PUT32: an unmapped address is a data abort, which panics.
PiStore ==
    /\ pPc = "body" /\ Missing /\ IsWord
    /\ toPi' = Tail(toPi)
    /\ \/ /\ Mapped((hdr.addr + 4 * Len(got)) % Width)
          /\ got' = Append(got, Head(toPi)) /\ UNCHANGED <<pPc, toUnix>>
       \/ /\ ~Mapped((hdr.addr + 4 * Len(got)) % Width)
          /\ pPc' = "dead" /\ Reply(Panicked) /\ UNCHANGED got
    /\ UNCHANGED <<unixVars, hdr, high, ran, faults>>

MGood(eot) == eot = EOT
Good(eot) == eot = EOT /\ hdr.cksum = crc32(got)

\* EOT and checksum, the branch to addr + 8, and the program.
PiEot ==
    /\ pPc = "body" /\ ~Missing /\ IsWord
    /\ toPi' = Tail(toPi)
    /\ \/ /\ Good(Head(toPi))
          /\ ran' = <<hdr.addr, got>> /\ pPc' = "running" /\ Reply(<<ACK>>)
       \/ /\ ~Good(Head(toPi))
          /\ pPc' = "shell" /\ Reply(<<NAK>>) /\ UNCHANGED ran
    /\ UNCHANGED <<unixVars, hdr, got, high, faults>>

Pi == PiBoot \/ PiLine \/ PiRun \/ PiJunk \/ PiHeader \/ PiStore \/ PiEot
-----------------------------------------------------------------------------
(* Unix: shell.c, shell-support.c *)

Ended == {"off", "exit", "panic", "killed"}
Unix(pc) == uPc' = pc /\ UNCHANGED <<img, done, sa_flags>>
Send(items) == toPi' = toPi \o items

\* echo_until and fsm_chr_done: after a character that does not match, the
\* matcher starts again at 0 with the next one.
MNoReset(msg) == IF Head(toUnix) # msg[pos + 1] THEN 0 ELSE pos + 1
Match(msg) ==
    IF Head(toUnix) # msg[pos + 1] THEN 0
    ELSE IF pos + 1 = Len(msg) THEN 0 ELSE pos + 1
Seen(msg) == Head(toUnix) = msg[pos + 1] /\ pos + 1 = Len(msg)
echo_until(at, msg) ==
    /\ uPc = at /\ toUnix # <<>>
    /\ pos' = Match(msg)
    /\ Unix(IF Seen(msg) THEN "prompt" ELSE at)
    /\ toUnix' = Tail(toUnix)
    /\ UNCHANGED <<toPi, piVars, faults>>
AwaitReady == echo_until("ready", ready)
AwaitDone  == echo_until("until", cmd_done)

\* The top of the loop; send_reboot when control-C has been seen.
Loop ==
    /\ uPc = "prompt"
    /\ \/ ~done /\ Unix("fgets") /\ UNCHANGED toPi
       \/ done /\ Unix("reboot") /\ Send(<<<<"line", "reboot">>>>)
    /\ UNCHANGED <<pos, toUnix, piVars, faults>>

\* A line from the user.  Nothing for the pi: an empty line, a builtin with the
\* wrong number of arguments, a unix command; end of file ends the shell.
TypeLocal ==
    /\ uPc = "fgets"
    /\ \E next \in {"prompt", "wait", "exit"} : Unix(next)
    /\ UNCHANGED <<pos, toPi, toUnix, piVars, faults>>

\* ls, cat and run wait for the marker, echo and reboot for a line.  An echo
\* longer than the reply buffer is sent before the length is looked at.
MSendReboot == [ls |-> "until", cat |-> "until", run |-> "until", echo |-> "rline",
                echo0 |-> "rline", reboot |-> "off"]
Builtins == [ls |-> "until", cat |-> "until", run |-> "until", echo |-> "rline",
             echo0 |-> "rline", reboot |-> "reboot"]
TypeBuiltin ==
    /\ uPc = "fgets"
    /\ \E op \in DOMAIN Builtins :
         /\ Send(<<<<"line", op>>>>)
         /\ Unix(Builtins[op]) \/ (op = "echo" /\ Unix("panic"))
    /\ UNCHANGED <<pos, toUnix, piVars, faults>>

\* run_pi_prog: "load" is sent before the file is read, so a file that is
\* missing or not a whole number of words leaves the pi inside load_code.
TypeLoad ==
    /\ uPc = "fgets"
    /\ Send(<<<<"line", "load">>>>)
    /\ \/ \E m \in Images : /\ img' = m
                            /\ uPc' = IF m.nbytes % 4 = 0 THEN "ack1" ELSE "panic"
       \/ uPc' = "panic" /\ UNCHANGED img
    /\ UNCHANGED <<done, sa_flags, pos, toUnix, piVars, faults>>

\* do_unix_cmd: the child ends.
ChildEnds ==
    /\ uPc = "wait"
    /\ Unix("prompt")
    /\ UNCHANGED <<pos, toPi, toUnix, piVars, faults>>

\* expect_val: a word that is not ACK ends the shell; after ACK comes what
\* send_prog has to send next.
expect_val(at, next, words) ==
    /\ uPc = at /\ toUnix # <<>>
    /\ toUnix' = Tail(toUnix)
    /\ \/ Head(toUnix) = ACK /\ Unix(next) /\ Send(words)
       \/ Head(toUnix) # ACK /\ Unix("panic") /\ UNCHANGED toPi
    /\ UNCHANGED <<pos, piVars, faults>>
SendHeader == expect_val("ack1", "ack2", <<<<"num", img.version>>, <<"num", img.addr>>,
                                           <<"num", img.nbytes>>, crc32(Words(img))>>)
SendBody   == expect_val("ack2", "ack3", Append(Words(img), EOT))
Sent       == expect_val("ack3", "until", <<>>)

\* pi_readline: the whole line, which send_reboot compares with pi_done.
HasLine == \E i \in 1 .. Len(toUnix) : toUnix[i] = "n"
LineEnd == CHOOSE i \in 1 .. Len(toUnix) :
             toUnix[i] = "n" /\ \A j \in 1 .. i - 1 : toUnix[j] # "n"
pi_readline ==
    /\ uPc \in {"rline", "reboot"} /\ HasLine
    /\ toUnix' = SubSeq(toUnix, LineEnd + 1, Len(toUnix))
    /\ Unix(CASE uPc = "rline" -> "prompt"
              [] SubSeq(toUnix, 1, LineEnd) = pi_done -> "off"
              [] OTHER -> "panic")
    /\ UNCHANGED <<pos, toPi, piVars, faults>>

\* A read gives up after a second without a character (VTIME): pi_readline
\* ends the shell, get_byte panics, and echo_until reads again.
PiBusy == \/ pPc \in {"boot", "running"}
          \/ pPc \in {"shell", "body"} /\ toPi # <<>>
          \/ pPc = "header" /\ Len(toPi) >= 4
Timeout ==
    /\ toUnix = <<>>
    /\ PiBusy => faults.late < MaxLate
    /\ faults' = IF PiBusy THEN [faults EXCEPT !.late = @ + 1] ELSE faults
    /\ \/ uPc \in {"rline", "reboot"} /\ Unix("exit")
       \/ uPc \in {"ack1", "ack2", "ack3"} /\ Unix("panic")
    /\ UNCHANGED <<pos, toPi, toUnix, piVars>>

\* Control-C.  catch_control_c leaves sa_flags uninitialised.  SA_RESETHAND: the
\* second one kills the shell.  Without SA_RESTART a call that blocks fails; one
\* that is about to block does not notice.
Blocked == \/ uPc \in {"fgets", "wait"}
           \/ toUnix = <<>> /\ uPc # "prompt"
Interrupted ==
    CASE ~Blocked \/ "restart" \in sa_flags -> uPc
      [] uPc = "fgets" -> "prompt"
      [] uPc \in {"wait", "ack1", "ack2", "ack3"} -> "panic"
      [] OTHER -> "exit"
ControlC ==
    /\ uPc \notin Ended /\ faults.ints < MaxInts
    /\ faults' = [faults EXCEPT !.ints = @ + 1]
    /\ done' = TRUE
    /\ uPc' \in IF done /\ "resethand" \in sa_flags THEN {"killed"}
                ELSE {uPc, Interrupted}
    /\ UNCHANGED <<img, sa_flags, pos, toPi, toUnix, piVars>>

\* The line garbles a word on its way to the pi.
Noise ==
    /\ faults.noise < MaxNoise
    /\ faults' = [faults EXCEPT !.noise = @ + 1]
    /\ \E i \in 1 .. Len(toPi) :
         \/ /\ toPi[i][1] = "num"
            /\ \E n \in Garbles : toPi' = [toPi EXCEPT ![i] = <<"num", n>>]
         \/ /\ toPi[i][1] \in {"code", "crc"}
            /\ toPi' = [toPi EXCEPT ![i] = <<"junk">>]
    /\ UNCHANGED <<unixVars, toUnix, piVars>>

UnixRuns == \/ AwaitReady \/ AwaitDone \/ Loop \/ ChildEnds \/ SendHeader
            \/ SendBody \/ Sent \/ pi_readline \/ Timeout
User == TypeLocal \/ TypeBuiltin \/ TypeLoad

Init ==
    /\ uPc = "ready" /\ img = NoImage /\ pos = 0 /\ done = FALSE
    /\ sa_flags \in SUBSET {"restart", "resethand"}
    /\ toPi = <<>> /\ toUnix = <<>>
    /\ pPc = "boot" /\ hdr = NoHeader /\ got = <<>> /\ high \in BOOLEAN /\ ran = <<>>
    /\ faults = [noise |-> 0, late |-> 0, ints |-> 0]

Next == Pi \/ UnixRuns \/ User \/ ControlC \/ Noise
Spec == Init /\ [][Next]_vars

\* The pi polls the line and never stops; unix runs the shell, whose reads end
\* with a character or after a second.
FairSpec == Spec /\ WF_vars(Pi) /\ WF_vars(UnixRuns)
-----------------------------------------------------------------------------
(* Properties *)

\* Every variable keeps its type, and the matcher is always inside its marker
\* (the assertion of fsm_chr_done).
TypeOK ==
    /\ uPc \in Ended \cup {"ready", "prompt", "fgets", "wait", "until", "rline",
                           "reboot", "ack1", "ack2", "ack3"}
    /\ pPc \in {"boot", "shell", "running", "looping", "dead", "header", "body"}
    /\ pos < Len(IF uPc = "ready" THEN ready ELSE cmd_done)
    /\ done \in BOOLEAN /\ high \in BOOLEAN
    /\ 4 * Len(got) <= hdr.nbytes \/ got = <<>>

\* When the shell asks for a command the conversation is over: nothing is under
\* way in either direction and the pi waits in readline.  Otherwise the next
\* command's reply would be taken from the last one's.
InSync ==
    uPc \in {"prompt", "fgets", "wait"} => toPi = <<>> /\ toUnix = <<>> /\ pPc = "shell"

\* load_code branches only to the whole of an image that was named, stored
\* inside the range kept for programs, whatever the line does to the words.
LoadSafe ==
    ran # <<>> =>
      /\ \E m \in Images : ran[2] = Words(m)
      /\ ran[1] >= LAST_USED_ADDRESSES /\ ran[1] + 4 * Len(ran[2]) <= MAX_ADDRESS

\* A shell that says that the pi has rebooted is right (send_reboot).
OffMeansRebooted == uPc = "off" => pPc = "dead" /\ toUnix = <<>>

\* A command sent to the pi comes back to the prompt or ends the shell, unless
\* the pi has gone or the program it runs never ends.
InCommand == uPc \in {"until", "rline", "reboot", "ack1", "ack2", "ack3"}
CommandReturns == InCommand ~> (~InCommand \/ pPc \in {"dead", "looping"})
=============================================================================
