------------------------------- MODULE SdCard -------------------------------
(* The kernel's SD card driver (pi-side/kernel/disk/sd.c), the EMMC host     *)
(* controller it polls and the card behind it.  sd_init walks the card       *)
(* through identification, sd_readblock and sd_writeblock move blocks, and   *)
(* all of them talk to the card through sd_cmd, which sends one command (two *)
(* for an application command) and polls the interrupt register for its end. *)
(* A poll with a count either sees what it waits for or runs out.  A failed  *)
(* call makes its caller panic, which restarts the pi and not the card.      *)
(* Operators whose names begin with M and a capital are faulty variants of   *)
(* the definition that follows them: they test the properties.               *)
EXTENDS Integers, Sequences, FiniteSets

CONSTANTS
    Kinds,        \* cards: [hc, blkcnt, wide, volt : BOOLEAN]
    HostSpecs,    \* versions of the host controller, SLOTISR_VER
    Transfers,    \* calls made by the kernel: [op, lba, num]
    NBlocks,      \* blocks on the card
    BlockSize,    \* bytes in a block
    BaseClock,    \* the controller's input clock, Hz
    MaxTries,     \* cnt of the ACMD41 loop
    MaxFaults,    \* bound on lost commands, bad answers and failing waits
    MaxResets     \* bound on restarts of the pi other than by a panic

\* The kernel asks for blocks the card has.
ASSUME SdAssumption ==
    /\ {NBlocks, BlockSize, MaxTries} \subseteq Nat \ {0}
    /\ {BaseClock, MaxFaults, MaxResets} \subseteq Nat
    /\ Kinds \subseteq [hc : BOOLEAN, blkcnt : BOOLEAN, wide : BOOLEAN, volt : BOOLEAN]
    /\ \A t \in Transfers : /\ t.op \in {"read", "write"} /\ t.lba \in Nat /\ t.num \in Nat
                            /\ t.lba < NBlocks /\ t.lba + t.num <= NBlocks

VARIABLES
    pc,      \* where the driver is
    call,    \* sd_cmd: [code, arg, stage, ret]
    drv,     \* sd_scr (flags), sd_rca, sd_err and sd_init's cnt and ccs
    host,    \* the controller's registers, the command and the block it holds
    card,    \* the card
    job,     \* sd_readblock or sd_writeblock: [op, lba, num, c, buf]
    hist     \* [faults, resets] so far, which of two contents the next write
             \* has, and what the writes that succeeded leave on the card

vars == <<pc, call, drv, host, card, job, hist>>

None == [code |-> "none", arg |-> 0]
NoAnswer == [flags |-> {}, rca |-> 0]
NoCall == [code |-> "none", arg |-> 0, ret |-> NoAnswer, stage |-> "main"]
NoDrv == [scr |-> {}, rca |-> 0, err |-> "OK", cnt |-> 0, ccs |-> FALSE]
NoJob == [op |-> "none", lba |-> 0, num |-> 0, c |-> 0, buf |-> <<>>]

Errors == {"ctimeout", "dtimeout", "crc"}          \* INT_ERROR_MASK
AppCodes == {"SET_BUS_WIDTH", "SEND_OP_COND", "SEND_SCR"}   \* CMD_NEED_APP
ReadCodes == {"READ_SINGLE", "READ_MULTI"}
WriteCodes == {"WRITE_SINGLE", "WRITE_MULTI"}

Blocks == 0 .. NBlocks - 1
-----------------------------------------------------------------------------
(* The card, as the driver relies on it *)

PowerUp(k, mem) == [kind |-> k, st |-> "idle", app |-> FALSE, rca |-> 0,
                    wide |-> FALSE, cnt |-> 0, at |-> 0, left |-> 0, mem |-> mem]

\* The card's flags in its SCR register.
Scr(k) == {f \in {"BLKCNT", "WIDTH4"} : (f = "BLKCNT" /\ k.blkcnt)
                                         \/ (f = "WIDTH4" /\ k.wide)}

\* The block a data command's argument addresses.
AddressOf(k, arg) == IF k.hc THEN arg ELSE arg \div BlockSize

\* The card after command c, its answer, and whether it answers at all: an
\* unexpected command is ignored.
Accepts(c) ==
    CASE c.code = "GO_IDLE"       -> TRUE
      [] c.code = "SEND_IF_COND"  -> card.st = "idle"
      [] c.code = "APP_CMD"       -> card.st \in {"idle", "stby", "tran"}
                                     /\ c.arg = card.rca
      [] c.code = "SEND_OP_COND"  -> card.st = "idle" /\ card.app
      [] c.code = "ALL_SEND_CID"  -> card.st = "ready"
      [] c.code = "SEND_REL_ADDR" -> card.st \in {"ident", "stby"}
      [] c.code = "CARD_SELECT"   -> card.st = "stby" /\ c.arg = card.rca
      [] c.code = "SEND_SCR"      -> card.st = "tran" /\ card.app
      [] c.code = "SET_BUS_WIDTH" -> card.st = "tran" /\ card.app
      [] c.code = "SET_BLOCKCNT"  -> card.st = "tran" /\ card.kind.blkcnt
      [] c.code = "STOP_TRANS"    -> card.st \in {"data", "rcv"}
      [] OTHER                    -> card.st = "tran"
                                     /\ AddressOf(card.kind, c.arg) \in Blocks

\* What the card may do with a command it accepts: <<new state, answer>>.
Obeys(c) ==
    LET k == card.kind
        plain == [card EXCEPT !.app = FALSE]
        Goes(st, flags) == {<<[plain EXCEPT !.st = st], [NoAnswer EXCEPT !.flags = flags]>>}
        Moves(st) == {<<[plain EXCEPT !.st = st, !.at = AddressOf(k, c.arg), !.cnt = 0,
                           !.left = IF c.code \in {"READ_SINGLE", "WRITE_SINGLE"} THEN 1
                                    ELSE card.cnt],
                        NoAnswer>>}
    IN  CASE c.code = "GO_IDLE" -> {<<PowerUp(k, card.mem), NoAnswer>>}
          [] c.code = "APP_CMD" ->
               {<<[card EXCEPT !.app = TRUE], [NoAnswer EXCEPT !.flags = {"app"}]>>}
          [] c.code = "SEND_OP_COND" ->
               Goes("idle", {}) \cup
               Goes("ready", {"complete"} \cup (IF k.volt THEN {"volt"} ELSE {})
                                          \cup (IF k.hc THEN {"ccs"} ELSE {}))
          [] c.code = "ALL_SEND_CID" -> Goes("ident", {})
          [] c.code = "SEND_REL_ADDR" ->
               {<<[plain EXCEPT !.st = "stby", !.rca = 1], [NoAnswer EXCEPT !.rca = 1]>>}
          [] c.code \in {"CARD_SELECT", "STOP_TRANS"} -> Goes("prg", {})     \* busy first
          [] c.code = "SEND_SCR" -> Goes("scr", {})
          [] c.code = "SET_BUS_WIDTH" -> {<<[plain EXCEPT !.wide = TRUE], NoAnswer>>}
          [] c.code = "SET_BLOCKCNT" -> {<<[plain EXCEPT !.cnt = c.arg], NoAnswer>>}
          [] c.code \in ReadCodes -> Moves("data")
          [] c.code \in WriteCodes -> Moves("rcv")
          [] OTHER -> Goes(card.st, {})

\* Commands without an answer: nobody notices that they are lost.
Silent(c) == c.code = "GO_IDLE" \/ (c.code = "APP_CMD" /\ c.arg = 0)

Fault == hist.faults < MaxFaults /\ hist' = [hist EXCEPT !.faults = @ + 1]

\* The controller sends a command once the data line is free, and ends it:
\* with the card's answer, an answer it cannot read, or no answer in time.
DatInhibit == host.blk > 0 \/ card.st = "prg"
Ends(bits, answer) ==
    host' = [host EXCEPT !.cmd = None, !.last = host.cmd, !.resp = answer,
                         !.int = @ \cup bits,
                         !.blk = IF card'.st \in {"scr", "data", "rcv"} /\ card # card'
                                 THEN host.blkcnt ELSE 0]
SendCommand ==
    /\ host.cmd # None /\ ~DatInhibit
    /\ UNCHANGED <<pc, call, drv, job>>
    /\ \/ /\ Accepts(host.cmd)
          /\ \E out \in Obeys(host.cmd) :
               /\ card' = out[1]
               /\ \/ Ends({"done"}, out[2]) /\ UNCHANGED hist
                  \/ ~Silent(host.cmd) /\ Ends({"done", "crc"}, out[2]) /\ Fault
                  \/ ~Silent(host.cmd) /\ Ends({"ctimeout"}, NoAnswer) /\ Fault
       \/ /\ UNCHANGED card
          /\ Ends({IF Silent(host.cmd) THEN "done" ELSE "ctimeout"}, NoAnswer)
          /\ IF Accepts(host.cmd) THEN Fault ELSE UNCHANGED hist

\* One block of a transfer is through; left = 0 is a transfer that only
\* STOP_TRANS ends.
Advance(end) ==
    [card EXCEPT !.at = IF @ + 1 \in Blocks THEN @ + 1 ELSE @,
                 !.left = IF @ = 0 THEN 0 ELSE @ - 1,
                 !.st = IF card.left = 1 THEN end ELSE @]

\* Blocks between the card and the controller's buffer, one at a time; the
\* controller moves no more than BLKSIZECNT asked for.
MoveBlock ==
    /\ host.blk > 0
    /\ UNCHANGED <<pc, call, drv, job>>
    /\ \/ /\ card.st \in {"data", "scr"} /\ host.fifo = <<>> /\ "rrdy" \notin host.int
          /\ host' = [host EXCEPT !.int = @ \cup {"rrdy"}, !.blk = @ - 1, !.fifo =
                        IF card.st = "scr" THEN <<Scr(card.kind)>> ELSE <<card.mem[card.at]>>]
          /\ card' = IF card.st = "scr" THEN [card EXCEPT !.st = "tran"] ELSE Advance("tran")
          /\ UNCHANGED hist
       \/ /\ card.st = "rcv" /\ host.fifo = <<>> /\ ~host.asked
          /\ host' = [host EXCEPT !.int = @ \cup {"wrdy"}, !.asked = TRUE]
          /\ UNCHANGED <<card, hist>>
       \/ /\ card.st = "rcv" /\ host.fifo # <<>>
          /\ host' = [host EXCEPT !.fifo = <<>>, !.blk = @ - 1, !.asked = FALSE]
          /\ card' = [Advance("prg") EXCEPT !.mem[card.at] = host.fifo[1]]
          /\ UNCHANGED hist
       \/ /\ card.st \in {"data", "scr", "rcv"}       \* the data do not come
          /\ host' = [host EXCEPT !.int = @ \cup {"dtimeout"}, !.blk = 0,
                                  !.fifo = <<>>, !.asked = FALSE]
          /\ Fault /\ UNCHANGED card

CardProgrammed ==
    /\ card.st = "prg" /\ card' = [card EXCEPT !.st = "tran"]
    /\ UNCHANGED <<pc, call, drv, host, job, hist>>
-----------------------------------------------------------------------------
(* sd_cmd *)

Sees(m) == host.int \cap (m \cup Errors) # {}

\* sd_status: SD_OK when the line is free and no error bit is set; an error
\* bit ends the wait, and stays set.
StatusOK(inhibit) == ~inhibit /\ host.int \cap Errors = {}
StatusFails(inhibit) == \/ host.int \cap Errors # {} /\ UNCHANGED hist
                        \/ inhibit /\ Fault

\* sd_int: the new interrupt register and the value returned.
sd_int(m) == IF host.int \cap {"ctimeout", "dtimeout"} # {} THEN <<{}, "TIMEOUT">>
             ELSE IF host.int \cap Errors # {} THEN <<{}, "ERROR">>
             ELSE <<host.int \ m, "OK">>

\* The head of sd_cmd, and of the sd_cmd(CMD_APP_CMD) it makes first.
sd_cmd(code, arg) ==
    /\ pc' = "status"
    /\ call' = [code |-> code, arg |-> arg, ret |-> NoAnswer,
                stage |-> IF code \in AppCodes THEN "app" ELSE "main"]

\* sd_cmd returns r with sd_err = e.  The inner call returns to the outer one,
\* which gives up only if the card has an address; sd_err is not cleared again.
Returns(r, e) ==
    IF call.stage = "app" /\ (drv.rca = 0 \/ "app" \in r.flags)
    THEN /\ pc' = "status" /\ call' = [call EXCEPT !.stage = "main"]
         /\ drv' = [drv EXCEPT !.err = e]
    ELSE /\ pc' = "ret" /\ call' = [call EXCEPT !.ret = r]
         /\ drv' = [drv EXCEPT !.err = IF call.stage = "app" THEN "ERROR" ELSE e]

Sending == IF call.stage = "app" THEN [code |-> "APP_CMD", arg |-> drv.rca]
           ELSE [code |-> call.code, arg |-> call.arg]

MCmdIssue == /\ pc = "status" /\ StatusOK(host.cmd # None)
             /\ host' = [host EXCEPT !.cmd = Sending]
             /\ pc' = "int"
             /\ UNCHANGED <<call, drv, card, job, hist>>
CmdIssue == /\ pc = "status" /\ StatusOK(host.cmd # None)
            /\ host' = [host EXCEPT !.int = {}, !.cmd = Sending]
            /\ pc' = "int"
            /\ UNCHANGED <<call, drv, card, job, hist>>

CmdBusy == /\ pc = "status" /\ StatusFails(host.cmd # None)
           /\ Returns(NoAnswer, "TIMEOUT")
           /\ UNCHANGED <<host, card, job>>

\* The interrupt comes.  The response keeps the bits its caller looks at: the
\* error bits a card sets itself are not modelled.
CmdDone == /\ pc = "int" /\ Sees({"done"})
           /\ host' = [host EXCEPT !.int = sd_int({"done"})[1]]
           /\ LET e == sd_int({"done"})[2]
              IN  IF e = "OK" THEN Returns(host.resp, drv.err) ELSE Returns(NoAnswer, e)
           /\ UNCHANGED <<card, job, hist>>

\* The count of sd_int runs out: the command is still under way, or it ended
\* just before the last poll.
CmdExpires == /\ pc = "int" /\ Fault
              /\ host' = [host EXCEPT !.int = {}]
              /\ Returns(NoAnswer, "TIMEOUT")
              /\ UNCHANGED <<card, job>>
-----------------------------------------------------------------------------
(* sd_init *)

\* sd_clk: the divisor register for c.  floor(log2(c - 1)) with c - 1 taken
\* modulo 2^32, at most 7, for a controller before version 3.
Log2(x) == CHOOSE s \in 0 .. 31 : 2^s <= x /\ x < 2^s * 2
Shift(c) == IF c = 1 THEN 0 ELSE IF c = 0 \/ c > 128 THEN 7 ELSE Log2(c - 1)
sd_clk(c) == LET d == IF host.hv > 1 THEN c ELSE 2^Shift(c)
             IN  IF d <= 2 THEN 2 ELSE d

SlowDivisor == BaseClock \div 400000
FastDivisor == BaseClock \div 425000000

Fails(e) == pc' = "panic" /\ call' = [call EXCEPT !.code = e] /\ job' = NoJob

\* The controller's reset and first clock, up to CMD_GO_IDLE.
InitStart == /\ pc = "boot"
             /\ host' = [host EXCEPT !.int = {}, !.cmd = None, !.blk = 0, !.fifo = <<>>,
                                     !.asked = FALSE, !.width4 = FALSE,
                                     !.div = sd_clk(SlowDivisor)]
             /\ drv' = NoDrv
             /\ sd_cmd("GO_IDLE", 0)
             /\ UNCHANGED <<card, job, hist>>
InitNoReset == /\ pc = "boot" /\ Fault /\ Fails("ERROR")
               /\ UNCHANGED <<drv, host, card>>

Returned(code) == pc = "ret" /\ call.code = code
Same == UNCHANGED <<card, hist>>
Ok == [drv EXCEPT !.err = "OK"]

\* The steps of sd_init that end it when sd_err is set.
InitFails == /\ pc = "ret" /\ Fails(drv.err) /\ Same /\ UNCHANGED <<host, drv>>
             /\ \/ /\ drv.err # "OK"
                   /\ call.code \in {"GO_IDLE", "SEND_IF_COND", "SEND_REL_ADDR",
                                     "CARD_SELECT", "SEND_SCR", "SET_BUS_WIDTH"}
                \/ call.code = "SEND_OP_COND" /\ drv.err \notin {"OK", "TIMEOUT"}

AskVersion == /\ Returned("GO_IDLE") /\ drv.err = "OK"
              /\ sd_cmd("SEND_IF_COND", 0) /\ drv' = Ok
              /\ Same /\ UNCHANGED <<host, job>>

\* while(!(r & COMPLETE) && cnt--): the first turn, and the others.
MAskOnceMore ==
    /\ \/ Returned("SEND_IF_COND") /\ drv.err = "OK"
          /\ drv' = [Ok EXCEPT !.cnt = MaxTries - 1]
       \/ Returned("SEND_OP_COND") /\ drv.err \in {"OK", "TIMEOUT"}
          /\ "complete" \notin call.ret.flags
          /\ drv' = [Ok EXCEPT !.cnt = @ - 1]
    /\ sd_cmd("SEND_OP_COND", 0)
    /\ Same /\ UNCHANGED <<host, job>>
MAskForever ==
    /\ \/ Returned("SEND_IF_COND") /\ drv.err = "OK"
          /\ drv' = [Ok EXCEPT !.cnt = MaxTries - 1]
       \/ Returned("SEND_OP_COND") /\ drv.err \in {"OK", "TIMEOUT"}
          /\ "complete" \notin call.ret.flags /\ drv.cnt > 0
          /\ drv' = Ok
    /\ sd_cmd("SEND_OP_COND", 0)
    /\ Same /\ UNCHANGED <<host, job>>
AskCondition ==
    /\ \/ Returned("SEND_IF_COND") /\ drv.err = "OK"
          /\ drv' = [Ok EXCEPT !.cnt = MaxTries - 1]
       \/ Returned("SEND_OP_COND") /\ drv.err \in {"OK", "TIMEOUT"}
          /\ "complete" \notin call.ret.flags /\ drv.cnt > 0
          /\ drv' = [Ok EXCEPT !.cnt = @ - 1]
    /\ sd_cmd("SEND_OP_COND", 0)
    /\ Same /\ UNCHANGED <<host, job>>

\* The loop is over: its last turn counts as a timeout whatever it returned.
ConditionFails ==
    /\ Returned("SEND_OP_COND") /\ drv.err \in {"OK", "TIMEOUT"}
    /\ \/ drv.cnt = 0 /\ Fails("TIMEOUT")
       \/ drv.cnt > 0 /\ "complete" \in call.ret.flags
          /\ "volt" \notin call.ret.flags /\ Fails("ERROR")
    /\ Same /\ UNCHANGED <<host, drv>>

AskCid == /\ Returned("SEND_OP_COND") /\ drv.err \in {"OK", "TIMEOUT"} /\ drv.cnt > 0
          /\ {"complete", "volt"} \subseteq call.ret.flags
          /\ sd_cmd("ALL_SEND_CID", 0)
          /\ drv' = [Ok EXCEPT !.ccs = "ccs" \in call.ret.flags]
          /\ Same /\ UNCHANGED <<host, job>>

\* What ALL_SEND_CID returns is not looked at.
AskAddress == /\ Returned("ALL_SEND_CID")
              /\ sd_cmd("SEND_REL_ADDR", 0) /\ drv' = Ok
              /\ Same /\ UNCHANGED <<host, job>>

Select == /\ Returned("SEND_REL_ADDR") /\ drv.err = "OK"
          /\ sd_cmd("CARD_SELECT", call.ret.rca)
          /\ drv' = [Ok EXCEPT !.rca = call.ret.rca]
          /\ host' = [host EXCEPT !.div = sd_clk(FastDivisor)]
          /\ Same /\ UNCHANGED job

\* The clock does not settle in time.
ClockFails == /\ Returned("SEND_REL_ADDR") /\ drv.err = "OK" /\ Fault
              /\ Fails("ERROR") /\ UNCHANGED <<drv, host, card>>

AskScr == /\ Returned("CARD_SELECT") /\ drv.err = "OK" /\ UNCHANGED card
          /\ \/ /\ StatusOK(DatInhibit)
                /\ sd_cmd("SEND_SCR", 0) /\ drv' = Ok
                /\ host' = [host EXCEPT !.blkcnt = 1]
                /\ UNCHANGED <<job, hist>>
             \/ StatusFails(DatInhibit) /\ Fails("TIMEOUT") /\ UNCHANGED <<drv, host>>

AwaitScr == /\ Returned("SEND_SCR") /\ drv.err = "OK"
            /\ pc' = "scr" /\ Same /\ UNCHANGED <<call, drv, host, job>>

InitDone(scr) == /\ pc' = "up"
                 /\ drv' = [drv EXCEPT !.scr = scr \cup (IF drv.ccs THEN {"CCS"} ELSE {})]
                 /\ UNCHANGED call

\* The two words of the SCR; the bus is widened if the card can do that.
ReadScr ==
    /\ pc = "scr" /\ Same
    /\ \/ /\ Sees({"rrdy"}) /\ sd_int({"rrdy"})[2] = "OK"
          /\ host' = [host EXCEPT !.int = sd_int({"rrdy"})[1], !.fifo = <<>>]
          /\ IF "WIDTH4" \in host.fifo[1]
             THEN /\ sd_cmd("SET_BUS_WIDTH", drv.rca)
                  /\ drv' = [Ok EXCEPT !.scr = host.fifo[1]]
             ELSE InitDone(host.fifo[1])
          /\ UNCHANGED job
       \/ /\ Sees({"rrdy"}) /\ sd_int({"rrdy"})[2] # "OK"
          /\ host' = [host EXCEPT !.int = {}]
          /\ Fails("TIMEOUT") /\ UNCHANGED drv

MWiden == /\ Returned("SET_BUS_WIDTH")
          /\ host' = [host EXCEPT !.width4 = TRUE]
          /\ InitDone(drv.scr) /\ Same /\ UNCHANGED job
Widen == /\ Returned("SET_BUS_WIDTH") /\ drv.err = "OK"
         /\ host' = [host EXCEPT !.width4 = TRUE]
         /\ InitDone(drv.scr) /\ Same /\ UNCHANGED job
-----------------------------------------------------------------------------
(* sd_readblock and sd_writeblock *)

CCS == "CCS" \in drv.scr
BlkCnt == "BLKCNT" \in drv.scr
Ready == IF job.op = "read" THEN "rrdy" ELSE "wrdy"

\* The block i of the buffer a write is given.
Content(i) == hist.next + i

CodeFor(op, num) == CASE op = "read"  /\ num = 1 -> "READ_SINGLE"
                      [] op = "read"  /\ num > 1 -> "READ_MULTI"
                      [] op = "write" /\ num = 1 -> "WRITE_SINGLE"
                      [] op = "write" /\ num > 1 -> "WRITE_MULTI"

\* The data command for block c of a transfer: the whole of it on a card with
\* block addresses, this block alone on one with byte addresses.
MSameAddress(j) == IF CCS THEN <<CodeFor(j.op, j.num), j.lba>>
                   ELSE <<CodeFor(j.op, 1), j.lba * BlockSize>>
Command(j) == IF CCS THEN <<CodeFor(j.op, j.num), j.lba>>
              ELSE <<CodeFor(j.op, 1), (j.lba + j.c) * BlockSize>>
AskData(j) == /\ sd_cmd(Command(j)[1], Command(j)[2])
              /\ host' = [host EXCEPT !.blkcnt = IF CCS THEN j.num ELSE 1]

TransferStart(t) ==
    LET j == [op |-> t.op, lba |-> t.lba, num |-> IF t.num < 1 THEN 1 ELSE t.num,
              c |-> 0, buf |-> <<>>]
    IN  /\ pc = "up" /\ UNCHANGED card
        /\ \/ /\ StatusOK(DatInhibit)
              /\ job' = j /\ drv' = Ok
              /\ IF CCS /\ j.num > 1 /\ BlkCnt
                 THEN sd_cmd("SET_BLOCKCNT", j.num) /\ UNCHANGED host
                 ELSE AskData(j)
              /\ UNCHANGED hist
           \/ StatusFails(DatInhibit) /\ Fails("TIMEOUT") /\ UNCHANGED <<drv, host>>

CountSet == /\ Returned("SET_BLOCKCNT") /\ drv.err = "OK"
            /\ AskData(job) /\ drv' = Ok
            /\ Same /\ UNCHANGED job

Asked == /\ pc = "ret" /\ call.code \in ReadCodes \cup WriteCodes /\ drv.err = "OK"
         /\ pc' = "data" /\ Same /\ UNCHANGED <<call, drv, host, job>>

\* num * 512 is returned; what a write leaves on the card is remembered.
Succeeds(j) ==
    /\ pc' = "up"
    /\ hist' = [hist EXCEPT !.next = 300 - @, !.disk = IF j.op = "read" THEN @ ELSE
                  [b \in Blocks |-> IF b - j.lba \in 0 .. j.num - 1
                                    THEN Content(b - j.lba) ELSE @[b]]]

\* The controller's buffer after the 128 words of block c have been moved.
MFilled == IF job.op = "read" THEN <<>> ELSE <<Content(0)>>
Filled == IF job.op = "read" THEN <<>> ELSE <<Content(job.c)>>

\* One block; then the next one, the end of an open transfer, or the return.
TransferBlock ==
    LET j == [job EXCEPT !.c = @ + 1,
                !.buf = IF job.op = "read" THEN Append(@, host.fifo[1]) ELSE @]
    IN  /\ pc = "data" /\ Sees({Ready}) /\ sd_int({Ready})[2] = "OK"
        /\ job' = j
        /\ host' = [host EXCEPT !.int = sd_int({Ready})[1],
                                !.fifo = Filled]
        /\ IF j.c < j.num /\ CCS THEN UNCHANGED <<pc, call, drv, hist>>
           ELSE IF j.c < j.num
           THEN sd_cmd(Command(j)[1], Command(j)[2]) /\ drv' = Ok /\ UNCHANGED hist
           ELSE IF j.num > 1 /\ ~BlkCnt /\ CCS
           THEN sd_cmd("STOP_TRANS", 0) /\ drv' = Ok /\ UNCHANGED hist
           ELSE Succeeds(j) /\ UNCHANGED <<call, drv>>
        /\ UNCHANGED card

Stopped == /\ Returned("STOP_TRANS") /\ drv.err = "OK"
           /\ Succeeds(job) /\ UNCHANGED <<call, drv, host, card, job>>

\* A wait for data sees an error; a wait for data or the SCR runs out; a
\* command of a transfer failed.  The caller (sec_read) panics on a 0.
TransferFails ==
    /\ UNCHANGED <<drv, card>>
    /\ \/ /\ pc = "data" /\ Sees({Ready}) /\ sd_int({Ready})[2] # "OK"
          /\ host' = [host EXCEPT !.int = {}] /\ UNCHANGED hist
       \/ /\ pc \in {"data", "scr"} /\ Fault
          /\ host' = [host EXCEPT !.int = {}]
       \/ /\ pc = "ret" /\ drv.err # "OK"
          /\ call.code \in ReadCodes \cup WriteCodes \cup {"SET_BLOCKCNT", "STOP_TRANS"}
          /\ UNCHANGED <<host, hist>>
    /\ Fails(IF pc = "ret" THEN drv.err ELSE "TIMEOUT")

\* The pi starts again, after a panic or at any moment.  The blocks the
\* controller still holds are gone.
Reboot == /\ pc # "boot"
          /\ \/ pc = "panic" /\ hist' = [hist EXCEPT !.disk = card.mem]
             \/ pc # "panic" /\ hist.resets < MaxResets
                /\ hist' = [hist EXCEPT !.disk = card.mem, !.resets = @ + 1]
          /\ pc' = "boot" /\ job' = NoJob
          /\ host' = [host EXCEPT !.fifo = <<>>, !.cmd = None, !.blk = 0, !.blkcnt = 0,
                                  !.last = None, !.resp = NoAnswer]
          /\ call' = NoCall /\ drv' = NoDrv /\ UNCHANGED card
-----------------------------------------------------------------------------
Init == /\ pc = "boot"
        /\ call = NoCall /\ drv = NoDrv
        /\ \E hv \in HostSpecs :
             host = [int |-> {}, cmd |-> None, last |-> None, resp |-> NoAnswer,
                     fifo |-> <<>>, blk |-> 0, blkcnt |-> 0, asked |-> FALSE, div |-> 2,
                     width4 |-> FALSE, hv |-> hv]
        /\ \E k \in Kinds : card = PowerUp(k, [b \in Blocks |-> b])
        /\ job = NoJob
        /\ hist = [faults |-> 0, resets |-> 0, next |-> 100, disk |-> [b \in Blocks |-> b]]

Driver == \/ CmdIssue \/ CmdBusy \/ CmdDone \/ CmdExpires
          \/ InitStart \/ InitNoReset \/ InitFails \/ AskVersion \/ AskCondition
          \/ ConditionFails \/ AskCid \/ AskAddress \/ Select \/ ClockFails \/ AskScr
          \/ AwaitScr \/ ReadScr \/ Widen
          \/ CountSet \/ Asked \/ TransferBlock \/ Stopped \/ TransferFails

Hardware == SendCommand \/ MoveBlock \/ CardProgrammed

Next == Driver \/ Hardware \/ Reboot \/ \E t \in Transfers : TransferStart(t)
Spec == Init /\ [][Next]_vars

\* The driver polls, so it never stops; the controller ends every command it
\* was given and moves every block it was asked for.
FairSpec == Spec /\ WF_vars(Driver) /\ WF_vars(Hardware)
-----------------------------------------------------------------------------
(* Properties *)

\* Every variable keeps its type; sd_init never asks the card for its condition
\* more often than it may, and no transfer runs past its count.
TypeOK ==
    /\ pc \in {"boot", "status", "int", "ret", "scr", "data", "up", "panic"}
    /\ call.stage \in {"app", "main"}
    /\ drv.scr \subseteq {"CCS", "BLKCNT", "WIDTH4"} /\ drv.rca \in Nat
    /\ drv.err \in {"OK", "TIMEOUT", "ERROR"} /\ drv.cnt \in 0 .. MaxTries
    /\ host.int \subseteq Errors \cup {"done", "rrdy", "wrdy"}
    /\ host.blk \in 0 .. NBlocks /\ Len(host.fifo) <= 1
    /\ card.st \in {"idle", "ready", "ident", "stby", "tran", "scr", "data", "rcv", "prg"}
    /\ card.at \in Blocks /\ job.c \in 0 .. job.num

\* Whenever sd_init has returned SD_OK and the driver is free for the next
\* call, driver, controller and card agree: the card is selected under the
\* address the driver keeps, in the width the controller uses, and the flags
\* in sd_scr are the card's - whatever was lost on the way and whatever state
\* a restart of the pi had left the card in.
CardAgreed ==
    (pc = "up" /\ StatusOK(DatInhibit)) =>
        /\ card.st = "tran" /\ drv.rca = card.rca
        /\ CCS = card.kind.hc /\ BlkCnt = card.kind.blkcnt
        /\ host.width4 = card.wide /\ card.kind.volt

\* A "command done" that sd_int sees while sd_cmd waits is the end of the
\* command sd_cmd has just sent, never of one that an earlier wait gave up
\* on: this is what the wait for CMD_INHIBIT and the clearing of the
\* interrupt register before each command are for.
AnswerIsOurs ==
    (pc = "int" /\ "done" \in host.int) => host.last = Sending

\* A read that returns num * 512 has put exactly the blocks lba .. lba+num-1
\* in the buffer, for both ways a card is addressed and both ways a transfer
\* of several blocks ends.
ReadsRight ==
    (pc = "up" /\ job.op = "read") =>
        job.buf = [i \in 1 .. job.num |-> card.mem[job.lba + i - 1]]

\* When the next call may start (sd_status reports no error), the blocks of
\* every write that returned num * 512 are on the card, and nothing else was
\* overwritten.
WritesLand ==
    (pc = "up" /\ StatusOK(DatInhibit)) => card.mem = hist.disk

\* Every call of the driver returns, whatever the card does: each wait of
\* sd.c has a count, and each failure an early return.
CallsReturn ==
    (pc \notin {"up", "panic"}) ~> (pc \in {"up", "panic"})
=============================================================================
