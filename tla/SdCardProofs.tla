---------------------------- MODULE SdCardProofs ----------------------------
(* Proofs about SdCard, for every card, every transfer and every number of   *)
(* faults and restarts.                                                      *)
EXTENDS SdCard, SequenceTheorems, TLAPS
-----------------------------------------------------------------------------
(* Types *)

InitCodes == {"GO_IDLE", "SEND_IF_COND", "SEND_OP_COND", "ALL_SEND_CID",
              "SEND_REL_ADDR", "CARD_SELECT", "SEND_SCR", "SET_BUS_WIDTH"}
DataCodes == ReadCodes \cup WriteCodes
TransferCodes == DataCodes \cup {"SET_BLOCKCNT", "STOP_TRANS"}
Codes == InitCodes \cup TransferCodes
InCall == pc \in {"status", "int", "ret"}
In(codes) == InCall /\ call.code \in codes

Typed ==
    /\ DOMAIN host = {"int", "cmd", "last", "resp", "fifo", "blk", "blkcnt", "asked",
                      "div", "width4", "hv"}
    /\ DOMAIN card = {"kind", "st", "app", "rca", "wide", "cnt", "at", "left", "mem"}
    /\ DOMAIN call = {"code", "arg", "ret", "stage"}
    /\ DOMAIN drv = {"scr", "rca", "err", "cnt", "ccs"}
    /\ DOMAIN job = {"op", "lba", "num", "c", "buf"}
    /\ pc \in {"boot", "status", "int", "ret", "scr", "data", "up", "panic"}
    /\ call.stage \in {"app", "main"} /\ (InCall => call.code \in Codes)
    /\ drv.scr \subseteq {"CCS", "BLKCNT", "WIDTH4"} /\ drv.rca \in Nat /\ drv.ccs \in BOOLEAN
    /\ drv.err \in {"OK", "TIMEOUT", "ERROR"} /\ drv.cnt \in 0 .. MaxTries
    /\ host.int \subseteq Errors \cup {"done", "rrdy", "wrdy"}
    /\ host.blk \in 0 .. NBlocks /\ host.blkcnt \in 0 .. NBlocks
    /\ host.asked \in BOOLEAN /\ host.width4 \in BOOLEAN
    /\ Len(host.fifo) <= 1
    /\ card.kind \in Kinds /\ card.wide \in BOOLEAN
    /\ card.st \in {"idle", "ready", "ident", "stby", "tran", "scr", "data", "rcv", "prg"}
    /\ card.at \in Blocks /\ card.cnt \in Nat /\ card.left \in Nat
    /\ job.num \in Nat /\ job.c \in 0 .. job.num
-----------------------------------------------------------------------------
(* The command under way *)

\* The controller works on the command sd_cmd waits for, or has ended it.  Only
\* two commands can outlive the call that sent them without a panic: those of
\* the ACMD41 loop, and ALL_SEND_CID, whose result nobody looks at.
Under ==
    /\ pc = "int" => \/ host.cmd = Sending /\ "done" \notin host.int
                     \/ host.cmd = None /\ host.last = Sending
    /\ pc \in {"status", "ret"} =>
         \/ host.cmd = None \/ host.cmd.code = call.code
         \/ host.cmd.code = "APP_CMD" /\ call.code \in AppCodes
         \/ call.code = "SEND_REL_ADDR" /\ host.cmd.code = "ALL_SEND_CID"
    /\ pc = "status" =>
         \/ host.cmd = None \/ call.code = "SEND_OP_COND"
         \/ call.code = "SEND_REL_ADDR" /\ host.cmd.code = "ALL_SEND_CID"
    /\ pc \in {"scr", "data", "up"} => host.cmd = None
    /\ pc = "ret" /\ drv.err = "OK" => host.cmd = None /\ call.stage = "main"
    /\ pc \in {"status", "int"} /\ call.stage = "app" => call.code \in AppCodes

\* sd_cmd has not yet sent its own command, or has seen it succeed.
Pending == pc = "status" \/ (pc = "int" /\ (call.stage = "app" \/ host.cmd # None))
After == /\ call.stage = "main" /\ host.cmd = None
         /\ \/ pc = "int" /\ "done" \in host.int /\ host.int \cap Errors = {}
            \/ pc = "ret" /\ drv.err = "OK"
Answer == IF pc = "int" THEN host.resp ELSE call.ret
-----------------------------------------------------------------------------
(* The card *)

CardSound ==
    /\ card.rca = IF card.st \in {"idle", "ready", "ident"} THEN 0 ELSE 1
    /\ card.st \in {"idle", "ready", "ident", "stby"} => ~card.wide /\ card.cnt = 0

Empty == host.blk = 0 /\ host.fifo = <<>> /\ ~host.asked
Resting == Empty /\ card.st \in {"tran", "prg"}
Errored == host.int \cap Errors # {}
NoData == pc = "int" => host.int \cap {"rrdy", "wrdy"} = {}

\* Up to CARD_SELECT, no block moves.
Identifying ==
    /\ In(InitCodes \ {"SEND_SCR", "SET_BUS_WIDTH"}) => Empty
    /\ In({"GO_IDLE", "SEND_IF_COND", "SEND_OP_COND"}) => drv.rca = 0
InitWidth ==
    /\ In(InitCodes) => ~host.width4
    /\ In({"SEND_OP_COND", "ALL_SEND_CID", "SEND_REL_ADDR",
                                "CARD_SELECT", "SEND_SCR"}) \/ pc = "scr"
         => ~card.wide /\ ~host.width4 /\ card.cnt = 0

IfCond == In({"SEND_IF_COND"}) => (After => card.st = "idle")
OpCond ==
    In({"SEND_OP_COND"}) =>
      /\ card.st \in {"idle", "ready"}
      /\ call.stage = "main" /\ host.cmd = None /\ pc # "status"
           /\ "complete" \in Answer.flags
         => /\ card.st = "ready"
            /\ "volt" \in Answer.flags => card.kind.volt
            /\ ("ccs" \in Answer.flags) = card.kind.hc
      /\ pc = "ret" /\ "complete" \in Answer.flags => host.cmd = None /\ call.stage = "main"
SendCid == In({"ALL_SEND_CID"}) => card.st \in {"ready", "ident"}
RelAddr ==
    In({"SEND_REL_ADDR"}) =>
      /\ Pending => card.st \in {"ready", "ident"}
      /\ After => card.st = "stby" /\ Answer.rca = 1
CardSelect ==
    In({"CARD_SELECT"}) =>
      /\ Pending => card.st = "stby"
      /\ After => card.st \in {"prg", "tran"}

\* The SCR is on its way, in the controller's buffer, or lost.
ScrMoves ==
    \/ /\ host.blk = 1 /\ card.st = "scr" /\ host.fifo = <<>> /\ "rrdy" \notin host.int
       /\ ~host.asked
    \/ /\ host.blk = 0 /\ card.st = "tran" /\ host.fifo = <<Scr(card.kind)>>
       /\ "rrdy" \in host.int /\ ~host.asked
    \/ Errored
SendScr ==
    /\ In({"SEND_SCR"}) =>
         /\ Pending => Empty /\ card.st = "tran" /\ host.blkcnt = 1 /\ NoData
         /\ After => ScrMoves
    /\ pc = "scr" => ScrMoves
BusWidth ==
    In({"SET_BUS_WIDTH"}) =>
      /\ drv.scr = Scr(card.kind) /\ card.cnt = 0
      /\ Pending => Empty /\ card.st = "tran"
      /\ After => Empty /\ card.st = "tran" /\ card.wide

\* What sd_init has learned.
Learned ==
    /\ In({"ALL_SEND_CID", "SEND_REL_ADDR", "CARD_SELECT", "SEND_SCR",
                                "SET_BUS_WIDTH"}) \/ pc = "scr"
         => card.kind.volt /\ drv.ccs = card.kind.hc
    /\ In({"CARD_SELECT", "SEND_SCR", "SET_BUS_WIDTH"}) \/ pc = "scr"
         => drv.rca = 1
    /\ pc \in {"data", "up"} \/ In(TransferCodes) =>
         /\ card.kind.volt /\ drv.rca = 1 /\ host.width4 = card.wide
         /\ drv.scr = Scr(card.kind) \cup (IF card.kind.hc THEN {"CCS"} ELSE {})
-----------------------------------------------------------------------------
(* Transfers *)

Open == CCS /\ job.num > 1 /\ ~BlkCnt           \* only STOP_TRANS ends it
Counted == CCS /\ job.num > 1 /\ BlkCnt         \* SET_BLOCKCNT comes first
Asks == IF CCS THEN job.num ELSE 1              \* blocks of one data command
Moved == IF CCS THEN job.c ELSE 0               \* those the driver has seen

\* The last block of a write is in the controller's buffer.
LastBlock == /\ card.st = "rcv" /\ host.blk = 1 /\ Len(host.fifo) = 1 /\ host.asked
             /\ card.left = IF Open THEN 0 ELSE 1

Reading ==
    /\ job.op = "read" /\ ~host.asked /\ card.left = IF Open THEN 0 ELSE host.blk
    /\ \/ /\ host.fifo = <<>> /\ "rrdy" \notin host.int
          /\ host.blk = Asks - Moved /\ card.st = "data"
       \/ /\ Len(host.fifo) = 1 /\ "rrdy" \in host.int
          /\ host.blk = Asks - Moved - 1
          /\ card.st = IF host.blk = 0 /\ ~Open THEN "tran" ELSE "data"
Writing ==
    /\ job.op = "write" /\ card.st = "rcv" /\ card.left = IF Open THEN 0 ELSE host.blk
    /\ \/ /\ host.fifo = <<>> /\ host.blk = Asks - Moved
          /\ host.asked = ("wrdy" \in host.int)
       \/ /\ Len(host.fifo) = 1 /\ host.blk = Asks - Moved + 1
          /\ host.asked /\ "wrdy" \notin host.int

Transferring ==
    /\ pc = "data" \/ In(TransferCodes) =>
         job.op \in {"read", "write"} /\ job.num \in 1 .. NBlocks
    /\ pc = "data" \/ In(DataCodes) =>
         job.c < job.num /\ host.blkcnt = Asks
    /\ In(DataCodes) =>
         /\ (call.code \in ReadCodes) = (job.op = "read")
         /\ (call.code \in {"READ_SINGLE", "WRITE_SINGLE"}) = (Asks = 1)
         /\ CCS => job.c = 0
    /\ In({"SET_BLOCKCNT"}) =>
         /\ job.c = 0 /\ Counted /\ call.arg = job.num
         /\ Pending => Empty /\ card.st = "tran" /\ card.cnt = 0
         /\ After => Empty /\ card.st = "tran" /\ card.cnt = job.num
    /\ In(DataCodes) /\ Pending =>
         \/ Errored
         \/ Resting /\ NoData /\ card.cnt = IF Counted THEN job.num ELSE 0
         \/ LastBlock /\ NoData /\ ~Open /\ ~Counted /\ card.cnt = 0
    /\ (In(DataCodes) /\ After) \/ pc = "data" =>
         Errored \/ (card.cnt = 0 /\ (Reading \/ Writing))
    /\ In({"STOP_TRANS"}) =>
         /\ Open /\ job.c = job.num
         /\ Pending => \/ Errored
                       \/ Empty /\ card.st \in {"data", "rcv"} /\ card.left = 0 /\ card.cnt = 0
                       \/ LastBlock /\ card.cnt = 0
         /\ After => Resting /\ card.cnt = 0
    /\ pc = "up" => \/ Errored
                    \/ Resting /\ card.cnt = 0
                    \/ LastBlock /\ card.cnt = 0 /\ ~Open

IInv == /\ Typed /\ Under /\ CardSound /\ Identifying /\ InitWidth /\ IfCond /\ OpCond
        /\ SendCid /\ RelAddr /\ CardSelect /\ SendScr /\ BusWidth /\ Learned /\ Transferring
-----------------------------------------------------------------------------
(* Steps that end in a panic or a restart *)

LEMMA Sizes ==
    /\ NBlocks \in Nat /\ NBlocks > 0 /\ MaxTries \in Nat /\ MaxTries > 0
    /\ Blocks = 0 .. NBlocks - 1 /\ 0 \in Blocks
  BY SdAssumption DEF Blocks

LEMMA Down ==
    ASSUME Typed', CardSound', pc' \in {"boot", "panic"}
    PROVE  IInv'
  BY DEF IInv, Under, Identifying, InitWidth, IfCond, OpCond, SendCid, RelAddr,
         CardSelect, SendScr, BusWidth, Learned, Transferring, In, InCall

LEMMA InitInv == Init => IInv
  <1> SUFFICES ASSUME Init PROVE IInv
    OBVIOUS
  <1>1. PICK hv \in HostSpecs :
             host = [int |-> {}, cmd |-> None, last |-> None, resp |-> NoAnswer,
                     fifo |-> <<>>, blk |-> 0, blkcnt |-> 0, asked |-> FALSE, div |-> 2,
                     width4 |-> FALSE, hv |-> hv]
    BY DEF Init
  <1>2. PICK k \in Kinds : card = PowerUp(k, [b \in Blocks |-> b])
    BY DEF Init
  <1>3. Typed
    BY <1>1, <1>2, Sizes DEF Init, Typed, PowerUp, NoCall, NoDrv, NoJob, NoAnswer, InCall
  <1>4. CardSound
    BY <1>2 DEF CardSound, PowerUp
  <1>5. pc = "boot"
    BY DEF Init
  <1>6. QED
    BY <1>3, <1>4, <1>5 DEF IInv, Under, Identifying, InitWidth, IfCond, OpCond, SendCid,
       RelAddr, CardSelect, SendScr, BusWidth, Learned, Transferring, In, InCall

LEMMA PanicStep ==
    ASSUME IInv, NEW e, Fails(e), UNCHANGED <<drv, card>>,
           host' = host \/ host' = [host EXCEPT !.int = {}]
    PROVE  IInv'
  <1>1. /\ pc' = "panic" /\ call' = [call EXCEPT !.code = e] /\ job' = NoJob
        /\ UNCHANGED <<drv, card>>
    BY DEF Fails
  <1>2. /\ DOMAIN host' = DOMAIN host /\ host'.int \subseteq host.int
        /\ host'.blk = host.blk /\ host'.blkcnt = host.blkcnt /\ host'.asked = host.asked
        /\ host'.width4 = host.width4 /\ host'.fifo = host.fifo
    BY DEF IInv, Typed
  <1>3. DOMAIN call' = DOMAIN call /\ call'.stage = call.stage
    BY <1>1 DEF IInv, Typed
  <1>4. Typed'
    BY <1>1, <1>2, <1>3 DEF IInv, Typed, NoJob, InCall
  <1>5. CardSound'
    BY <1>1 DEF IInv, CardSound
  <1>6. QED
    BY <1>1, <1>4, <1>5, Down

LEMMA RebootStep ==
    ASSUME IInv, Reboot
    PROVE  IInv'
  <1>1. /\ pc' = "boot" /\ job' = NoJob /\ call' = NoCall /\ drv' = NoDrv /\ card' = card
        /\ host' = [host EXCEPT !.fifo = <<>>, !.cmd = None, !.blk = 0, !.blkcnt = 0,
                                !.last = None, !.resp = NoAnswer]
    BY DEF Reboot
  <1>2. /\ DOMAIN host' = DOMAIN host /\ host'.int = host.int
        /\ host'.blk = 0 /\ host'.blkcnt = 0 /\ host'.asked = host.asked
        /\ host'.width4 = host.width4 /\ host'.fifo = <<>>
    BY <1>1 DEF IInv, Typed
  <1>3. Typed'
    BY <1>1, <1>2, Sizes DEF IInv, Typed, NoJob, NoCall, NoDrv, InCall
  <1>4. CardSound'
    BY <1>1 DEF IInv, CardSound
  <1>5. QED
    BY <1>1, <1>3, <1>4, Down

\* The steps of sd_init and of the transfers that give up.
LEMMA FailStep ==
    ASSUME IInv, InitNoReset \/ InitFails \/ ConditionFails \/ ClockFails \/ TransferFails
    PROVE  IInv'
  <1>1. PICK e : Fails(e)
    BY DEF InitNoReset, InitFails, ConditionFails, ClockFails, TransferFails
  <1>2. UNCHANGED <<drv, card>> /\ (host' = host \/ host' = [host EXCEPT !.int = {}])
    BY DEF InitNoReset, InitFails, ConditionFails, ClockFails, TransferFails, Same
  <1>3. QED
    BY <1>1, <1>2, PanicStep
-----------------------------------------------------------------------------
(* The steps of sd_init *)

LEMMA Starts ==
    ASSUME NEW code \in Codes, NEW arg, sd_cmd(code, arg)
    PROVE  /\ pc' = "status" /\ DOMAIN call' = {"code", "arg", "ret", "stage"}
           /\ call'.code = code /\ call'.arg = arg
           /\ call'.stage = IF code \in AppCodes THEN "app" ELSE "main"
           /\ InCall' /\ Pending' /\ ~After' /\ NoData'
           /\ \A S : In(S)' <=> code \in S
  BY DEF sd_cmd, InCall, Pending, After, NoData, In

LEMMA InitStartStep ==
    ASSUME IInv, InitStart
    PROVE  IInv'
  <1>1. /\ host' = [host EXCEPT !.int = {}, !.cmd = None, !.blk = 0, !.fifo = <<>>,
                                !.asked = FALSE, !.width4 = FALSE,
                                !.div = sd_clk(SlowDivisor)]
        /\ drv' = NoDrv /\ sd_cmd("GO_IDLE", 0) /\ UNCHANGED <<card, job>>
    BY DEF InitStart
  <1>2. /\ DOMAIN host' = DOMAIN host /\ host'.int = {} /\ host'.cmd = None /\ host'.blk = 0
        /\ host'.fifo = <<>> /\ host'.asked = FALSE /\ host'.width4 = FALSE
        /\ host'.blkcnt = host.blkcnt
    BY <1>1 DEF IInv, Typed
  <1>3. /\ pc' = "status" /\ DOMAIN call' = {"code", "arg", "ret", "stage"}
        /\ call'.code = "GO_IDLE" /\ call'.stage = "main" /\ ~After'
    BY <1>1, Starts DEF Codes, InitCodes, AppCodes
  <1>4. Typed'
    BY <1>1, <1>2, <1>3, Sizes DEF IInv, Typed, NoDrv, Codes, InitCodes
  <1>5. CardSound'
    BY <1>1 DEF IInv, CardSound
  <1>6. QED
    BY <1>1, <1>2, <1>3, <1>4, <1>5 DEF IInv, Under, Identifying, InitWidth, IfCond, OpCond, SendCid,
       RelAddr, CardSelect, SendScr, BusWidth, Learned, Transferring, In, Empty, TransferCodes,
       DataCodes, ReadCodes, WriteCodes, NoDrv

\* sd_cmd has returned SD_OK.
LEMMA Succeeded ==
    ASSUME IInv, pc = "ret", drv.err = "OK"
    PROVE  host.cmd = None /\ call.stage = "main" /\ After /\ InCall /\ Answer = call.ret
  BY DEF IInv, Under, After, InCall, Answer

\* A call that begins where nothing is under way keeps Typed, Under and CardSound.
LEMMA CallBegins ==
    ASSUME IInv, NEW code \in Codes, NEW arg, sd_cmd(code, arg), UNCHANGED <<card, job>>,
           host' = host, \/ host.cmd = None
                         \/ code = "SEND_OP_COND" /\ host.cmd.code \in {"APP_CMD", code}
                         \/ code = "SEND_REL_ADDR" /\ host.cmd.code = "ALL_SEND_CID",
           DOMAIN drv' = DOMAIN drv, drv'.scr = drv.scr, drv'.rca = drv.rca, drv'.err = "OK",
           drv'.cnt \in 0 .. MaxTries, drv'.ccs \in BOOLEAN
    PROVE  Typed' /\ Under' /\ CardSound'
  <1>1. /\ pc' = "status" /\ DOMAIN call' = {"code", "arg", "ret", "stage"}
        /\ call'.code = code /\ call'.stage = IF code \in AppCodes THEN "app" ELSE "main"
    BY Starts
  <1>2. Typed'
    BY <1>1 DEF IInv, Typed, InCall
  <1>3. Under'
    BY <1>1 DEF Under, AppCodes
  <1>4. CardSound'
    BY DEF IInv, CardSound
  <1>5. QED
    BY <1>2, <1>3, <1>4

LEMMA AskVersionStep ==
    ASSUME IInv, AskVersion
    PROVE  IInv'
  <1>1. /\ pc = "ret" /\ call.code = "GO_IDLE" /\ drv.err = "OK"
        /\ sd_cmd("SEND_IF_COND", 0) /\ drv' = Ok /\ UNCHANGED <<card, host, job>>
    BY DEF AskVersion, Returned, Same
  <1>2. host.cmd = None /\ In(InitCodes \ {"SEND_SCR", "SET_BUS_WIDTH"}) /\ In(InitCodes)
    BY <1>1, Succeeded DEF In, InitCodes
  <1>3. /\ pc' = "status" /\ call'.code = "SEND_IF_COND" /\ ~After'
    BY <1>1, Starts DEF Codes, InitCodes
  <1>4. Typed' /\ Under' /\ CardSound'
    <2>1. DOMAIN drv' = DOMAIN drv /\ drv'.scr = drv.scr /\ drv'.rca = drv.rca /\ drv'.err = "OK"
          /\ drv'.cnt \in 0 .. MaxTries /\ drv'.ccs \in BOOLEAN
      BY <1>1 DEF IInv, Typed, Ok
    <2>2. QED
      BY <1>1, <1>2, <2>1, CallBegins DEF Codes, InitCodes
  <1>5. Empty' /\ ~host'.width4 /\ drv'.rca = 0
    BY <1>1, <1>2 DEF IInv, Identifying, InitWidth, Empty, In, Ok, Typed
  <1>6. QED
    BY <1>3, <1>4, <1>5 DEF IInv, Identifying, InitWidth, IfCond, OpCond, SendCid,
       RelAddr, CardSelect, SendScr, BusWidth, Learned, Transferring, In, TransferCodes,
       DataCodes, ReadCodes, WriteCodes

LEMMA AskConditionStep ==
    ASSUME IInv, AskCondition
    PROVE  IInv'
  <1>1. /\ pc = "ret" /\ call.code \in {"SEND_IF_COND", "SEND_OP_COND"}
        /\ sd_cmd("SEND_OP_COND", 0) /\ UNCHANGED <<card, host, job>>
        /\ \/ call.code = "SEND_IF_COND" /\ drv.err = "OK"
              /\ drv' = [Ok EXCEPT !.cnt = MaxTries - 1]
           \/ call.code = "SEND_OP_COND" /\ drv.cnt > 0 /\ drv' = [Ok EXCEPT !.cnt = @ - 1]
    BY DEF AskCondition, Returned, Same
  <1>2. /\ DOMAIN drv' = DOMAIN drv /\ drv'.scr = drv.scr /\ drv'.rca = drv.rca
        /\ drv'.err = "OK" /\ drv'.cnt \in 0 .. MaxTries /\ drv'.ccs \in BOOLEAN
    <2>1. CASE call.code = "SEND_IF_COND"
      <3>1. drv' = [Ok EXCEPT !.cnt = MaxTries - 1] /\ MaxTries - 1 \in 0 .. MaxTries
        BY <1>1, <2>1, Sizes
      <3>2. QED
        BY <3>1 DEF IInv, Typed, Ok
    <2>2. CASE call.code = "SEND_OP_COND"
      <3>1. drv' = [Ok EXCEPT !.cnt = drv.cnt - 1] /\ drv.cnt - 1 \in 0 .. MaxTries
        BY <1>1, <2>2, Sizes DEF IInv, Typed, Ok
      <3>2. QED
        BY <3>1 DEF IInv, Typed, Ok
    <2>3. QED
      BY <1>1, <2>1, <2>2
  <1>3. /\ host.cmd = None \/ host.cmd.code \in {"APP_CMD", "SEND_OP_COND"}
        /\ card.st \in {"idle", "ready"}
    <2>1. CASE call.code = "SEND_IF_COND"
      BY <1>1, <2>1, Succeeded DEF IInv, IfCond, In
    <2>2. CASE call.code = "SEND_OP_COND"
      BY <1>1, <2>2 DEF IInv, Under, OpCond, In, InCall
    <2>3. QED
      BY <1>1, <2>1, <2>2
  <1>4. In(InitCodes \ {"SEND_SCR", "SET_BUS_WIDTH"}) /\ In(InitCodes)
    BY <1>1 DEF In, InitCodes, InCall
  <1>5. Empty' /\ ~host'.width4 /\ ~card'.wide /\ card'.cnt = 0 /\ drv'.rca = 0
    <2>1. drv.rca = 0
      BY <1>1 DEF IInv, Identifying, In, InCall
    <2>2. QED
      BY <1>1, <1>2, <1>3, <1>4, <2>1 DEF IInv, Identifying, InitWidth, Empty, CardSound
  <1>6. /\ pc' = "status" /\ call'.code = "SEND_OP_COND" /\ ~After'
    BY <1>1, Starts DEF Codes, InitCodes
  <1>7. Typed' /\ Under' /\ CardSound'
    BY <1>1, <1>2, <1>3, CallBegins DEF Codes, InitCodes
  <1>8. OpCond'
    BY <1>1, <1>3, <1>5, <1>6 DEF OpCond
  <1>9. QED
    BY <1>5, <1>6, <1>7, <1>8 DEF IInv, Identifying, InitWidth, IfCond, SendCid,
       RelAddr, CardSelect, SendScr, BusWidth, Learned, Transferring, In, TransferCodes,
       DataCodes, ReadCodes, WriteCodes

LEMMA AskCidStep ==
    ASSUME IInv, AskCid
    PROVE  IInv'
  <1>1. /\ pc = "ret" /\ call.code = "SEND_OP_COND" /\ {"complete", "volt"} \subseteq call.ret.flags
        /\ sd_cmd("ALL_SEND_CID", 0) /\ UNCHANGED <<card, host, job>>
        /\ drv' = [Ok EXCEPT !.ccs = "ccs" \in call.ret.flags]
    BY DEF AskCid, Returned, Same
  <1>2. /\ DOMAIN drv' = DOMAIN drv /\ drv'.scr = drv.scr /\ drv'.rca = drv.rca
        /\ drv'.err = "OK" /\ drv'.cnt \in 0 .. MaxTries
        /\ drv'.ccs = ("ccs" \in call.ret.flags) /\ drv'.ccs \in BOOLEAN
    BY <1>1 DEF IInv, Typed, Ok
  <1>3. In({"SEND_OP_COND"}) /\ In(InitCodes \ {"SEND_SCR", "SET_BUS_WIDTH"}) /\ In(InitCodes)
        /\ Answer = call.ret
    BY <1>1 DEF In, InitCodes, InCall, Answer
  <1>4. /\ host.cmd = None /\ card.st = "ready" /\ card.kind.volt
        /\ ("ccs" \in call.ret.flags) = card.kind.hc
    BY <1>1, <1>3 DEF IInv, OpCond
  <1>5. Empty' /\ ~host'.width4 /\ ~card'.wide /\ card'.cnt = 0
    BY <1>1, <1>3, <1>4 DEF IInv, Identifying, InitWidth, Empty, CardSound
  <1>6. /\ pc' = "status" /\ call'.code = "ALL_SEND_CID" /\ ~After'
    BY <1>1, Starts DEF Codes, InitCodes
  <1>7. Typed' /\ Under' /\ CardSound'
    BY <1>1, <1>2, <1>4, CallBegins DEF Codes, InitCodes
  <1>8. Learned' /\ SendCid'
    BY <1>1, <1>2, <1>4, <1>6 DEF Learned, SendCid, In, TransferCodes, DataCodes, ReadCodes,
       WriteCodes
  <1>9. QED
    BY <1>5, <1>6, <1>7, <1>8 DEF IInv, Identifying, InitWidth, IfCond, OpCond,
       RelAddr, CardSelect, SendScr, BusWidth, Transferring, In, TransferCodes,
       DataCodes, ReadCodes, WriteCodes

LEMMA AskAddressStep ==
    ASSUME IInv, AskAddress
    PROVE  IInv'
  <1>1. /\ pc = "ret" /\ call.code = "ALL_SEND_CID"
        /\ sd_cmd("SEND_REL_ADDR", 0) /\ drv' = Ok /\ UNCHANGED <<card, host, job>>
    BY DEF AskAddress, Returned, Same
  <1>2. /\ DOMAIN drv' = DOMAIN drv /\ drv'.scr = drv.scr /\ drv'.rca = drv.rca
        /\ drv'.err = "OK" /\ drv'.cnt \in 0 .. MaxTries
        /\ drv'.ccs = drv.ccs /\ drv'.ccs \in BOOLEAN
    BY <1>1 DEF IInv, Typed, Ok
  <1>3. \A S : In(S) <=> "ALL_SEND_CID" \in S
    BY <1>1 DEF In, InCall
  <1>4. /\ host.cmd = None \/ host.cmd.code = "ALL_SEND_CID"
        /\ card.st \in {"ready", "ident"}
    BY <1>1, <1>3 DEF IInv, Under, SendCid, AppCodes
  <1>5. /\ Empty' /\ ~host'.width4 /\ ~card'.wide /\ card'.cnt = 0
        /\ card'.kind.volt /\ drv'.ccs = card'.kind.hc
    BY <1>1, <1>2, <1>3, <1>4 DEF IInv, Identifying, InitWidth, Empty, CardSound, Learned, InitCodes
  <1>6. /\ pc' = "status" /\ call'.code = "SEND_REL_ADDR" /\ ~After'
    BY <1>1, Starts DEF Codes, InitCodes
  <1>7. Typed' /\ Under' /\ CardSound'
    BY <1>1, <1>2, <1>4, CallBegins DEF Codes, InitCodes
  <1>8. RelAddr'
    BY <1>1, <1>4, <1>6 DEF RelAddr
  <1>9. QED
    BY <1>5, <1>6, <1>7, <1>8 DEF IInv, Identifying, InitWidth, IfCond, OpCond, SendCid,
       CardSelect, SendScr, BusWidth, Transferring, Learned, In, TransferCodes,
       DataCodes, ReadCodes, WriteCodes

LEMMA SelectStep ==
    ASSUME IInv, Select
    PROVE  IInv'
  <1>1. /\ pc = "ret" /\ call.code = "SEND_REL_ADDR" /\ drv.err = "OK"
        /\ sd_cmd("CARD_SELECT", call.ret.rca) /\ UNCHANGED <<card, job>>
        /\ drv' = [Ok EXCEPT !.rca = call.ret.rca]
        /\ host' = [host EXCEPT !.div = sd_clk(FastDivisor)]
    BY DEF Select, Returned, Same
  <1>2. host.cmd = None /\ call.stage = "main" /\ After /\ InCall /\ Answer = call.ret
    BY <1>1, Succeeded
  <1>3. \A S : In(S) <=> "SEND_REL_ADDR" \in S
    BY <1>1 DEF In, InCall
  <1>4. card.st = "stby" /\ call.ret.rca = 1
    BY <1>2, <1>3 DEF IInv, RelAddr
  <1>5. /\ DOMAIN drv' = DOMAIN drv /\ drv'.scr = drv.scr /\ drv'.rca = 1
        /\ drv'.err = "OK" /\ drv'.cnt \in 0 .. MaxTries
        /\ drv'.ccs = drv.ccs /\ drv'.ccs \in BOOLEAN
    BY <1>1, <1>4 DEF IInv, Typed, Ok
  <1>6. /\ DOMAIN host' = DOMAIN host /\ host'.cmd = host.cmd /\ host'.int = host.int
        /\ host'.blk = host.blk /\ host'.blkcnt = host.blkcnt /\ host'.asked = host.asked
        /\ host'.width4 = host.width4 /\ host'.fifo = host.fifo
    BY <1>1 DEF IInv, Typed
  <1>7. /\ pc' = "status" /\ call'.code = "CARD_SELECT" /\ ~After'
        /\ DOMAIN call' = {"code", "arg", "ret", "stage"} /\ call'.stage = "main"
    BY <1>1, Starts DEF Codes, InitCodes, AppCodes
  <1>8. Typed' /\ Under' /\ CardSound'
    <2>1. Typed'
      BY <1>1, <1>5, <1>6, <1>7 DEF IInv, Typed, Codes, InitCodes
    <2>2. Under'
      BY <1>2, <1>6, <1>7 DEF Under
    <2>3. CardSound'
      BY <1>1 DEF IInv, CardSound
    <2>4. QED
      BY <2>1, <2>2, <2>3
  <1>9. /\ Empty' /\ ~host'.width4 /\ ~card'.wide /\ card'.cnt = 0
        /\ card'.kind.volt /\ drv'.ccs = card'.kind.hc
    BY <1>1, <1>3, <1>4, <1>5, <1>6 DEF IInv, Identifying, InitWidth, Empty, CardSound, Learned,
       InitCodes
  <1>10. CardSelect'
    BY <1>1, <1>4, <1>7 DEF CardSelect
  <1>11. QED
    BY <1>5, <1>7, <1>8, <1>9, <1>10 DEF IInv, Identifying, InitWidth, IfCond, OpCond, SendCid,
       RelAddr, SendScr, BusWidth, Transferring, Learned, In, TransferCodes,
       DataCodes, ReadCodes, WriteCodes

LEMMA AskScrStep ==
    ASSUME IInv, AskScr
    PROVE  IInv'
  <1>1. CASE StatusFails(DatInhibit) /\ Fails("TIMEOUT") /\ UNCHANGED <<drv, host>>
    BY <1>1, PanicStep DEF AskScr
  <1>2. CASE /\ StatusOK(DatInhibit) /\ sd_cmd("SEND_SCR", 0) /\ drv' = Ok
             /\ host' = [host EXCEPT !.blkcnt = 1] /\ UNCHANGED job
    <2>1. pc = "ret" /\ call.code = "CARD_SELECT" /\ drv.err = "OK" /\ UNCHANGED card
      BY DEF AskScr, Returned
    <2>2. host.cmd = None /\ call.stage = "main" /\ After
      BY <2>1, Succeeded
    <2>3. \A S : In(S) <=> "CARD_SELECT" \in S
      BY <2>1 DEF In, InCall
    <2>4. card.st = "tran" /\ Empty
      BY <1>2, <2>2, <2>3 DEF IInv, CardSelect, Identifying, InitCodes, StatusOK, DatInhibit
    <2>5. /\ DOMAIN drv' = DOMAIN drv /\ drv'.scr = drv.scr /\ drv'.rca = drv.rca
          /\ drv'.err = "OK" /\ drv'.cnt \in 0 .. MaxTries
          /\ drv'.ccs = drv.ccs /\ drv'.ccs \in BOOLEAN
      BY <1>2 DEF IInv, Typed, Ok
    <2>6. /\ DOMAIN host' = DOMAIN host /\ host'.cmd = host.cmd /\ host'.int = host.int
          /\ host'.blk = host.blk /\ host'.blkcnt = 1 /\ host'.asked = host.asked
          /\ host'.width4 = host.width4 /\ host'.fifo = host.fifo
      BY <1>2 DEF IInv, Typed
    <2>7. /\ pc' = "status" /\ call'.code = "SEND_SCR" /\ ~After' /\ NoData'
          /\ DOMAIN call' = {"code", "arg", "ret", "stage"} /\ call'.stage = "app"
      BY <1>2, Starts DEF Codes, InitCodes, AppCodes
    <2>8. Typed' /\ Under' /\ CardSound'
      <3>1. Typed'
        BY <1>2, <2>1, <2>5, <2>6, <2>7, Sizes DEF IInv, Typed, Codes, InitCodes
      <3>2. Under'
        BY <2>2, <2>6, <2>7 DEF Under, AppCodes
      <3>3. CardSound'
        BY <2>1 DEF IInv, CardSound
      <3>4. QED
        BY <3>1, <3>2, <3>3
    <2>9. /\ ~host'.width4 /\ ~card'.wide /\ card'.cnt = 0 /\ drv'.rca = 1
          /\ card'.kind.volt /\ drv'.ccs = card'.kind.hc
      BY <2>1, <2>3, <2>5, <2>6 DEF IInv, InitWidth, Learned
    <2>10. SendScr'
      BY <2>1, <2>4, <2>6, <2>7 DEF SendScr, Empty
    <2>11. QED
      BY <2>7, <2>8, <2>9, <2>10 DEF IInv, Identifying, InitWidth, IfCond, OpCond, SendCid,
         RelAddr, CardSelect, BusWidth, Transferring, Learned, In, TransferCodes,
         DataCodes, ReadCodes, WriteCodes
  <1>3. QED
    BY <1>1, <1>2 DEF AskScr

LEMMA AwaitScrStep ==
    ASSUME IInv, AwaitScr
    PROVE  IInv'
  <1>1. /\ pc = "ret" /\ call.code = "SEND_SCR" /\ drv.err = "OK" /\ pc' = "scr"
        /\ UNCHANGED <<card, call, drv, host, job>>
    BY DEF AwaitScr, Returned, Same
  <1>2. host.cmd = None /\ call.stage = "main" /\ After
    BY <1>1, Succeeded
  <1>3. \A S : In(S) <=> "SEND_SCR" \in S
    BY <1>1 DEF In, InCall
  <1>4. ScrMoves
    BY <1>2, <1>3 DEF IInv, SendScr
  <1>5. Typed' /\ Under' /\ CardSound'
    BY <1>1, <1>2 DEF IInv, Typed, Under, CardSound, InCall
  <1>6. ScrMoves'
    BY <1>1, <1>4 DEF ScrMoves, Errored
  <1>7. QED
    BY <1>1, <1>3, <1>5, <1>6 DEF IInv, Identifying, InitWidth, IfCond, OpCond, SendCid,
       RelAddr, CardSelect, SendScr, BusWidth, Transferring, Learned, In, InCall

\* sd_init returns SD_OK: driver and card agree.
LEMMA InitDoneStep ==
    ASSUME IInv, NEW scr, InitDone(scr), scr = Scr(card.kind), UNCHANGED <<card, job>>,
           host.cmd = None, Empty', card.st = "tran", card.cnt = 0, drv.rca = 1, card.kind.volt,
           drv.ccs = card.kind.hc, Typed', host'.cmd = host.cmd, host'.width4 = card.wide
    PROVE  IInv'
  <1>1. /\ pc' = "up" /\ call' = call
        /\ drv' = [drv EXCEPT !.scr = scr \cup (IF drv.ccs THEN {"CCS"} ELSE {})]
    BY DEF InitDone
  <1>2. /\ drv'.rca = 1
        /\ drv'.scr = Scr(card.kind) \cup (IF card.kind.hc THEN {"CCS"} ELSE {})
    BY <1>1 DEF IInv, Typed
  <1>3. Under' /\ CardSound'
    BY <1>1 DEF IInv, Under, CardSound
  <1>4. Learned' /\ Transferring'
    BY <1>1, <1>2 DEF Learned, Transferring, In, InCall, Resting
  <1>5. QED
    BY <1>1, <1>3, <1>4 DEF IInv, Identifying, InitWidth, IfCond, OpCond, SendCid,
       RelAddr, CardSelect, SendScr, BusWidth, In, InCall

LEMMA ScrType ==
    ASSUME NEW k
    PROVE  /\ Scr(k) \subseteq {"CCS", "BLKCNT", "WIDTH4"} /\ "CCS" \notin Scr(k)
           /\ Scr(k) \cup {"CCS"} \subseteq {"CCS", "BLKCNT", "WIDTH4"}
           /\ ("BLKCNT" \in Scr(k)) <=> k.blkcnt
  BY DEF Scr

\* What sd_int returns when no error bit is set, and when one is.
LEMMA IntOK ==
    ASSUME Typed, NEW m
    PROVE  /\ (sd_int(m)[2] = "OK") <=> ~Errored
           /\ ~Errored => sd_int(m)[1] = host.int \ m /\ (Sees(m) <=> host.int \cap m # {})
           /\ Errored => sd_int(m)[1] = {} /\ sd_int(m)[2] \in {"TIMEOUT", "ERROR"}
  BY DEF sd_int, Errored, Errors, Sees

LEMMA ReadScrStep ==
    ASSUME IInv, ReadScr
    PROVE  IInv'
  <1>1. CASE /\ host' = [host EXCEPT !.int = {}] /\ Fails("TIMEOUT") /\ UNCHANGED drv
    BY <1>1, PanicStep DEF ReadScr, Same
  <1>2. CASE /\ Sees({"rrdy"}) /\ sd_int({"rrdy"})[2] = "OK"
             /\ host' = [host EXCEPT !.int = sd_int({"rrdy"})[1], !.fifo = <<>>]
             /\ UNCHANGED job
             /\ IF "WIDTH4" \in host.fifo[1]
                THEN /\ sd_cmd("SET_BUS_WIDTH", drv.rca)
                     /\ drv' = [Ok EXCEPT !.scr = host.fifo[1]]
                ELSE InitDone(host.fifo[1])
    <2>1. pc = "scr" /\ UNCHANGED card
      BY DEF ReadScr, Same
    <2>2. ~Errored /\ "rrdy" \in host.int /\ sd_int({"rrdy"})[1] = host.int \ {"rrdy"}
      BY <1>2, IntOK DEF IInv
    <2>3. /\ host.blk = 0 /\ card.st = "tran" /\ host.fifo = <<Scr(card.kind)>> /\ ~host.asked
          /\ host.cmd = None
      BY <2>1, <2>2 DEF IInv, SendScr, ScrMoves, Under
    <2>4. host.fifo[1] = Scr(card.kind)
      BY <2>3
    <2>5. /\ ~host.width4 /\ ~card.wide /\ card.cnt = 0 /\ drv.rca = 1
          /\ card.kind.volt /\ drv.ccs = card.kind.hc
      BY <2>1 DEF IInv, InitWidth, Learned
    <2>6. /\ DOMAIN host' = DOMAIN host /\ host'.cmd = host.cmd
          /\ host'.int = host.int \ {"rrdy"} /\ host'.fifo = <<>>
          /\ host'.blk = host.blk /\ host'.blkcnt = host.blkcnt /\ host'.asked = host.asked
          /\ host'.width4 = host.width4
      BY <1>2, <2>2 DEF IInv, Typed
    <2>7. Empty'
      BY <2>3, <2>6 DEF Empty
    <2>8. CASE /\ sd_cmd("SET_BUS_WIDTH", drv.rca)
               /\ drv' = [Ok EXCEPT !.scr = host.fifo[1]]
      <3>1. /\ pc' = "status" /\ call'.code = "SET_BUS_WIDTH" /\ ~After'
            /\ DOMAIN call' = {"code", "arg", "ret", "stage"} /\ call'.stage = "app"
        BY <2>8, Starts DEF Codes, InitCodes, AppCodes
      <3>2. /\ DOMAIN drv' = DOMAIN drv /\ drv'.scr = Scr(card.kind) /\ drv'.rca = drv.rca
            /\ drv'.err = "OK" /\ drv'.cnt \in 0 .. MaxTries
            /\ drv'.ccs = drv.ccs /\ drv'.ccs \in BOOLEAN
        BY <2>4, <2>8 DEF IInv, Typed, Ok
      <3>3. Typed'
        <4>1. drv'.scr \subseteq {"CCS", "BLKCNT", "WIDTH4"}
          BY <3>2, ScrType
        <4>2. QED
          BY <1>2, <2>1, <2>6, <3>1, <3>2, <4>1 DEF IInv, Typed, Codes, InitCodes
      <3>4. Under' /\ CardSound'
        BY <2>1, <2>3, <2>6, <3>1 DEF IInv, Under, CardSound, AppCodes
      <3>5. BusWidth'
        BY <2>1, <2>3, <2>5, <2>7, <3>1, <3>2 DEF BusWidth
      <3>6. QED
        BY <2>1, <2>5, <2>6, <3>1, <3>2, <3>3, <3>4, <3>5 DEF IInv, Identifying, InitWidth,
           IfCond, OpCond, SendCid, RelAddr, CardSelect, SendScr, Transferring, Learned, In,
           TransferCodes, DataCodes, ReadCodes, WriteCodes
    <2>9. CASE InitDone(host.fifo[1])
      <3>1. /\ pc' = "up" /\ call' = call
            /\ drv' = [drv EXCEPT !.scr = Scr(card.kind) \cup (IF drv.ccs THEN {"CCS"} ELSE {})]
        BY <2>4, <2>9 DEF InitDone
      <3>2. /\ DOMAIN drv' = DOMAIN drv /\ drv'.rca = drv.rca /\ drv'.err = drv.err
            /\ drv'.scr = Scr(card.kind) \cup (IF drv.ccs THEN {"CCS"} ELSE {})
            /\ drv'.cnt = drv.cnt /\ drv'.ccs = drv.ccs
        BY <3>1 DEF IInv, Typed
      <3>3. Typed'
        <4>1. drv'.scr \subseteq {"CCS", "BLKCNT", "WIDTH4"}
          BY <3>2, ScrType
        <4>2. QED
          BY <1>2, <2>1, <2>6, <3>1, <3>2, <4>1 DEF IInv, Typed, InCall
      <3>4. host'.width4 = card.wide
        BY <2>5, <2>6 DEF IInv, Typed
      <3>5. QED
        BY <1>2, <2>1, <2>3, <2>4, <2>5, <2>6, <2>7, <2>9, <3>3, <3>4, InitDoneStep
    <2>10. QED
      BY <1>2, <2>8, <2>9
  <1>3. QED
    BY <1>1, <1>2 DEF ReadScr

LEMMA WidenStep ==
    ASSUME IInv, Widen
    PROVE  IInv'
  <1>1. /\ pc = "ret" /\ call.code = "SET_BUS_WIDTH" /\ drv.err = "OK"
        /\ host' = [host EXCEPT !.width4 = TRUE] /\ InitDone(drv.scr) /\ UNCHANGED <<card, job>>
    BY DEF Widen, Returned, Same
  <1>2. host.cmd = None /\ After
    BY <1>1, Succeeded
  <1>3. \A S : In(S) <=> "SET_BUS_WIDTH" \in S
    BY <1>1 DEF In, InCall
  <1>4. Empty /\ card.st = "tran" /\ card.wide /\ drv.scr = Scr(card.kind) /\ card.cnt = 0
    BY <1>2, <1>3 DEF IInv, BusWidth
  <1>5. drv.rca = 1 /\ card.kind.volt /\ drv.ccs = card.kind.hc
    BY <1>3 DEF IInv, Learned
  <1>6. /\ DOMAIN host' = DOMAIN host /\ host'.cmd = host.cmd /\ host'.int = host.int
        /\ host'.fifo = host.fifo /\ host'.blk = host.blk /\ host'.blkcnt = host.blkcnt
        /\ host'.asked = host.asked /\ host'.width4 = TRUE
    BY <1>1 DEF IInv, Typed
  <1>7. /\ pc' = "up" /\ call' = call
        /\ drv' = [drv EXCEPT !.scr = Scr(card.kind) \cup (IF drv.ccs THEN {"CCS"} ELSE {})]
    BY <1>1, <1>4 DEF InitDone
  <1>8. /\ DOMAIN drv' = DOMAIN drv /\ drv'.rca = drv.rca /\ drv'.err = drv.err
        /\ drv'.scr = Scr(card.kind) \cup (IF drv.ccs THEN {"CCS"} ELSE {})
        /\ drv'.cnt = drv.cnt /\ drv'.ccs = drv.ccs
    BY <1>7 DEF IInv, Typed
  <1>9. Typed'
    <2>1. drv'.scr \subseteq {"CCS", "BLKCNT", "WIDTH4"}
      BY <1>8, ScrType
    <2>2. QED
      BY <1>1, <1>6, <1>7, <1>8, <2>1 DEF IInv, Typed, InCall
  <1>10. Empty' /\ host'.width4 = card.wide
    <2>1. card.wide = TRUE
      BY <1>4, Zenon DEF IInv, Typed
    <2>2. QED
      BY <1>4, <1>6, <2>1 DEF Empty
  <1>11. QED
    BY <1>1, <1>2, <1>4, <1>5, <1>6, <1>9, <1>10, InitDoneStep
-----------------------------------------------------------------------------
(* The steps of sd_readblock and sd_writeblock *)

LEMMA CommandCode ==
    ASSUME NEW j, j.op \in {"read", "write"}, j.num \in Nat, j.num >= 1
    PROVE  /\ Command(j)[1] \in DataCodes
           /\ (Command(j)[1] \in ReadCodes) = (j.op = "read")
           /\ (Command(j)[1] \in {"READ_SINGLE", "WRITE_SINGLE"})
                = ((IF CCS THEN j.num ELSE 1) = 1)
  <1>1. ASSUME NEW n \in Nat, n >= 1
        PROVE  /\ CodeFor(j.op, n) \in DataCodes
               /\ (CodeFor(j.op, n) \in ReadCodes) = (j.op = "read")
               /\ (CodeFor(j.op, n) \in {"READ_SINGLE", "WRITE_SINGLE"}) = (n = 1)
    <2>1. CASE j.op = "read" /\ n = 1
      BY <2>1 DEF CodeFor, DataCodes, ReadCodes, WriteCodes
    <2>2. CASE j.op = "read" /\ n > 1
      BY <2>2 DEF CodeFor, DataCodes, ReadCodes, WriteCodes
    <2>3. CASE j.op = "write" /\ n = 1
      BY <2>3 DEF CodeFor, DataCodes, ReadCodes, WriteCodes
    <2>4. CASE j.op = "write" /\ n > 1
      BY <2>4 DEF CodeFor, DataCodes, ReadCodes, WriteCodes
    <2>5. QED
      BY <1>1, <2>1, <2>2, <2>3, <2>4
  <1>2. Command(j)[1] = CodeFor(j.op, IF CCS THEN j.num ELSE 1)
    BY DEF Command
  <1>3. QED
    BY <1>1, <1>2

\* What holds of the driver during a transfer and between two of them is kept
\* by every step that changes no more than sd_err.
LEMMA StillAgreed ==
    ASSUME IInv, pc \in {"data", "up"} \/ In(TransferCodes), card' = card,
           pc' \in {"data", "up"} \/ In(TransferCodes)', host'.width4 = host.width4,
           drv' \in {drv, Ok}
    PROVE  /\ Learned' /\ CardSound' /\ CCS' = CCS /\ BlkCnt' = BlkCnt
           /\ DOMAIN drv' = DOMAIN drv /\ drv'.scr = drv.scr /\ drv'.rca = drv.rca
           /\ drv'.err \in {"OK", drv.err} /\ drv'.cnt = drv.cnt /\ drv'.ccs = drv.ccs
  <1>1. /\ DOMAIN drv' = DOMAIN drv /\ drv'.scr = drv.scr /\ drv'.rca = drv.rca
        /\ drv'.err \in {"OK", drv.err} /\ drv'.cnt = drv.cnt /\ drv'.ccs = drv.ccs
    BY DEF IInv, Typed, Ok
  <1>2. CardSound' /\ CCS' = CCS /\ BlkCnt' = BlkCnt
    BY <1>1 DEF IInv, CardSound, CCS, BlkCnt
  <1>3. TransferCodes \cap InitCodes = {}
    BY DEF TransferCodes, DataCodes, ReadCodes, WriteCodes, InitCodes
  <1>4. Learned'
    BY <1>1, <1>3 DEF IInv, Learned, In, InCall, InitCodes
  <1>5. QED
    BY <1>1, <1>2, <1>4

\* Nothing of sd_init is left in a transfer.
LEMMA InTransfer ==
    ASSUME Typed', Under', CardSound', Learned', Transferring',
           pc' \in {"data", "up"} \/ In(TransferCodes)'
    PROVE  IInv'
  <1>1. TransferCodes \cap InitCodes = {}
    BY DEF TransferCodes, DataCodes, ReadCodes, WriteCodes, InitCodes
  <1>2. pc' # "scr" /\ ~In(InitCodes)'
    BY <1>1 DEF In, InCall
  <1>3. QED
    BY <1>2 DEF IInv, Identifying, InitWidth, IfCond, OpCond, SendCid, RelAddr,
       CardSelect, SendScr, BusWidth, In, InitCodes

\* sd_cmd is called with a data command.
LEMMA DataBegins ==
    ASSUME Typed', Under', CardSound', Learned', pc' = "status", call'.code \in DataCodes,
           job'.op \in {"read", "write"}, job'.num \in 1 .. NBlocks, job'.c < job'.num,
           host'.blkcnt = Asks', CCS' => job'.c = 0,
           (call'.code \in ReadCodes) = (job'.op = "read"),
           (call'.code \in {"READ_SINGLE", "WRITE_SINGLE"}) = (Asks' = 1),
           \/ Resting' /\ card'.cnt = IF Counted' THEN job'.num ELSE 0
           \/ LastBlock' /\ ~Open' /\ ~Counted' /\ card'.cnt = 0
    PROVE  IInv'
  <1>1. In(DataCodes)' /\ In(TransferCodes)' /\ ~After' /\ NoData'
    BY DEF In, InCall, TransferCodes, After, NoData
  <1>2. call'.code \notin {"SET_BLOCKCNT", "STOP_TRANS"}
    BY DEF DataCodes, ReadCodes, WriteCodes
  <1>3. Transferring'
    BY <1>1, <1>2 DEF Transferring, In
  <1>4. QED
    BY <1>1, <1>3, InTransfer

\* The call of sd_cmd for the data, with its count of blocks.
LEMMA AskDataStep ==
    ASSUME IInv, pc = "up" \/ In(TransferCodes), NEW j, AskData(j), job' = j, drv' = Ok,
           card' = card, host.cmd = None, DOMAIN j = DOMAIN job,
           j.op \in {"read", "write"}, j.num \in 1 .. NBlocks, j.c = 0,
           Empty, card.st = "tran",
           card.cnt = IF CCS /\ j.num > 1 /\ BlkCnt THEN j.num ELSE 0
    PROVE  IInv'
  <1>1. PICK code : code = Command(j)[1]
    OBVIOUS
  <1>2. /\ code \in DataCodes /\ code \in Codes /\ code \notin AppCodes
        /\ (code \in ReadCodes) = (j.op = "read")
        /\ (code \in {"READ_SINGLE", "WRITE_SINGLE"}) = ((IF CCS THEN j.num ELSE 1) = 1)
    BY <1>1, Sizes, CommandCode DEF Codes, TransferCodes, DataCodes, ReadCodes, WriteCodes,
       AppCodes
  <1>3. /\ pc' = "status" /\ DOMAIN call' = {"code", "arg", "ret", "stage"}
        /\ call'.code = code /\ call'.stage = "main"
    BY <1>1, <1>2, Starts DEF AskData
  <1>4. /\ DOMAIN host' = DOMAIN host /\ host'.cmd = host.cmd /\ host'.int = host.int
        /\ host'.fifo = host.fifo /\ host'.blk = host.blk
        /\ host'.blkcnt = IF CCS THEN j.num ELSE 1
        /\ host'.asked = host.asked /\ host'.width4 = host.width4
    BY DEF IInv, Typed, AskData
  <1>5. In(TransferCodes)'
    BY <1>2, <1>3 DEF In, InCall, TransferCodes
  <1>6. /\ Learned' /\ CardSound' /\ CCS' = CCS /\ BlkCnt' = BlkCnt
        /\ DOMAIN drv' = DOMAIN drv /\ drv'.scr = drv.scr /\ drv'.rca = drv.rca
        /\ drv'.err \in {"OK", drv.err} /\ drv'.cnt = drv.cnt /\ drv'.ccs = drv.ccs
    BY <1>4, <1>5, StillAgreed
  <1>7. host'.blkcnt \in 0 .. NBlocks
    BY <1>4, Sizes
  <1>8. Typed'
    BY <1>2, <1>3, <1>4, <1>6, <1>7, Sizes DEF IInv, Typed
  <1>9. Under'
    BY <1>3, <1>4 DEF Under
  <1>10. Asks' = (IF CCS THEN j.num ELSE 1) /\ Counted' = (CCS /\ j.num > 1 /\ BlkCnt)
    BY <1>6 DEF Asks, Counted
  <1>11. Resting'
    BY <1>4 DEF Empty, Resting
  <1>12. job'.c < job'.num
    BY Sizes
  <1>13. QED
    BY <1>2, <1>3, <1>4, <1>6, <1>8, <1>9, <1>10, <1>11, <1>12, DataBegins

\* Between two calls: when sd_status reports no error, the card waits.
LEMMA UpRests ==
    ASSUME IInv, pc = "up", StatusOK(DatInhibit)
    PROVE  Empty /\ card.st = "tran" /\ card.cnt = 0
  <1>1. ~Errored /\ ~(host.blk > 0) /\ card.st # "prg"
    BY DEF StatusOK, DatInhibit, Errored
  <1>2. ~LastBlock
    BY <1>1 DEF LastBlock
  <1>3. QED
    BY <1>1, <1>2 DEF IInv, Transferring, Resting

LEMMA TransferStartStep ==
    ASSUME IInv, NEW t \in Transfers, TransferStart(t)
    PROVE  IInv'
  <1> DEFINE j == [op |-> t.op, lba |-> t.lba, num |-> IF t.num < 1 THEN 1 ELSE t.num,
                   c |-> 0, buf |-> <<>>]
  <1>1. CASE StatusFails(DatInhibit) /\ Fails("TIMEOUT") /\ UNCHANGED <<drv, host>>
    BY <1>1, PanicStep DEF TransferStart
  <1>2. CASE /\ StatusOK(DatInhibit) /\ job' = j /\ drv' = Ok
             /\ IF CCS /\ j.num > 1 /\ BlkCnt
                THEN sd_cmd("SET_BLOCKCNT", j.num) /\ UNCHANGED host
                ELSE AskData(j)
    <2>1. pc = "up" /\ card' = card
      BY DEF TransferStart
    <2>2. Empty /\ card.st = "tran" /\ card.cnt = 0 /\ host.cmd = None
      BY <1>2, <2>1, UpRests DEF IInv, Under
    <2>3. /\ DOMAIN j = DOMAIN job /\ j.op \in {"read", "write"} /\ j.num \in 1 .. NBlocks
          /\ j.c = 0
      <3>1. t.op \in {"read", "write"} /\ t.num \in Nat /\ t.num <= NBlocks
        BY Sizes, SdAssumption
      <3>2. (IF t.num < 1 THEN 1 ELSE t.num) \in 1 .. NBlocks
        BY <3>1, Sizes
      <3>3. DOMAIN j = DOMAIN job
        BY DEF IInv, Typed
      <3>4. QED
        BY <3>1, <3>2, <3>3
    <2> HIDE DEF j
    <2>4. CASE CCS /\ j.num > 1 /\ BlkCnt /\ sd_cmd("SET_BLOCKCNT", j.num) /\ UNCHANGED host
      <3>1. /\ pc' = "status" /\ DOMAIN call' = {"code", "arg", "ret", "stage"}
            /\ call'.code = "SET_BLOCKCNT" /\ call'.stage = "main" /\ call'.arg = j.num
            /\ ~After'
        <4>1. "SET_BLOCKCNT" \in Codes /\ "SET_BLOCKCNT" \notin AppCodes
          BY DEF Codes, TransferCodes, AppCodes
        <4>2. QED
          BY <2>4, <4>1, Starts
      <3>2. In(TransferCodes)' /\ ~In(DataCodes)' /\ ~In({"STOP_TRANS"})'
        BY <3>1 DEF In, InCall, TransferCodes, DataCodes, ReadCodes, WriteCodes
      <3>3. /\ Learned' /\ CardSound' /\ CCS' = CCS /\ BlkCnt' = BlkCnt
            /\ DOMAIN drv' = DOMAIN drv /\ drv'.scr = drv.scr /\ drv'.rca = drv.rca
            /\ drv'.err \in {"OK", drv.err} /\ drv'.cnt = drv.cnt /\ drv'.ccs = drv.ccs
        BY <1>2, <2>1, <2>4, <3>2, StillAgreed
      <3>4. Typed'
        BY <1>2, <2>1, <2>3, <2>4, <3>1, <3>3, Sizes DEF IInv, Typed, Codes, TransferCodes
      <3>5. Under'
        BY <2>2, <2>4, <3>1 DEF Under
      <3>6. Transferring'
        BY <1>2, <2>1, <2>2, <2>3, <2>4, <3>1, <3>2, <3>3 DEF Transferring, Counted, Empty
      <3>7. QED
        BY <3>2, <3>3, <3>4, <3>5, <3>6, InTransfer
    <2>5. CASE ~(CCS /\ j.num > 1 /\ BlkCnt) /\ AskData(j)
      <3>1. card.cnt = IF CCS /\ j.num > 1 /\ BlkCnt THEN j.num ELSE 0
        BY <2>2, <2>5
      <3>2. QED
        BY <1>2, <2>1, <2>2, <2>3, <2>5, <3>1, AskDataStep
    <2>6. QED
      BY <1>2, <2>4, <2>5
  <1>3. QED
    BY <1>1, <1>2 DEF TransferStart

LEMMA CountSetStep ==
    ASSUME IInv, CountSet
    PROVE  IInv'
  <1>1. /\ pc = "ret" /\ call.code = "SET_BLOCKCNT" /\ drv.err = "OK"
        /\ AskData(job) /\ drv' = Ok /\ UNCHANGED <<card, job>>
    BY DEF CountSet, Returned, Same
  <1>2. host.cmd = None /\ After
    BY <1>1, Succeeded
  <1>3. In({"SET_BLOCKCNT"}) /\ In(TransferCodes)
    BY <1>1 DEF In, InCall, TransferCodes
  <1>4. /\ Empty /\ card.st = "tran" /\ card.cnt = job.num /\ Counted /\ job.c = 0
        /\ job.op \in {"read", "write"} /\ job.num \in 1 .. NBlocks
    BY <1>2, <1>3 DEF IInv, Transferring
  <1>5. card.cnt = IF CCS /\ job.num > 1 /\ BlkCnt THEN job.num ELSE 0
    BY <1>4 DEF Counted
  <1>6. QED
    BY <1>1, <1>2, <1>3, <1>4, <1>5, AskDataStep

LEMMA AskedStep ==
    ASSUME IInv, Asked
    PROVE  IInv'
  <1>1. /\ pc = "ret" /\ call.code \in DataCodes /\ drv.err = "OK"
        /\ pc' = "data" /\ UNCHANGED <<card, call, drv, host, job>>
    BY DEF Asked, Same, DataCodes
  <1>2. host.cmd = None /\ After
    BY <1>1, Succeeded
  <1>3. In(DataCodes) /\ In(TransferCodes) /\ ~InCall'
    BY <1>1 DEF In, InCall, TransferCodes
  <1>4. Typed' /\ Under'
    BY <1>1, <1>2 DEF IInv, Typed, Under, InCall
  <1>5. Learned' /\ CardSound' /\ CCS' = CCS /\ BlkCnt' = BlkCnt
    BY <1>1, <1>3, StillAgreed
  <1>6. /\ job.op \in {"read", "write"} /\ job.num \in 1 .. NBlocks
        /\ job.c < job.num /\ host.blkcnt = Asks
        /\ Errored \/ (card.cnt = 0 /\ (Reading \/ Writing))
    BY <1>2, <1>3 DEF IInv, Transferring
  <1>7. Asks' = Asks /\ Moved' = Moved /\ Open' = Open /\ Errored' = Errored
    BY <1>1, <1>5 DEF Asks, Moved, Open, Errored
  <1>8. Errored' \/ (card'.cnt = 0 /\ (Reading' \/ Writing'))
    BY <1>1, <1>6, <1>7 DEF Reading, Writing
  <1>9. Transferring'
    BY <1>1, <1>3, <1>6, <1>7, <1>8 DEF Transferring, In
  <1>10. QED
    BY <1>1, <1>4, <1>5, <1>9, InTransfer

LEMMA StoppedStep ==
    ASSUME IInv, Stopped
    PROVE  IInv'
  <1>1. /\ pc = "ret" /\ call.code = "STOP_TRANS" /\ drv.err = "OK"
        /\ pc' = "up" /\ UNCHANGED <<card, call, drv, host, job>>
    BY DEF Stopped, Returned, Succeeds
  <1>2. host.cmd = None /\ After
    BY <1>1, Succeeded
  <1>3. In({"STOP_TRANS"}) /\ In(TransferCodes) /\ ~InCall'
    BY <1>1 DEF In, InCall, TransferCodes
  <1>4. Resting /\ card.cnt = 0
    BY <1>2, <1>3 DEF IInv, Transferring
  <1>5. Typed' /\ Under'
    BY <1>1, <1>2 DEF IInv, Typed, Under, InCall
  <1>6. Learned' /\ CardSound'
    BY <1>1, <1>3, StillAgreed
  <1>7. Transferring'
    BY <1>1, <1>3, <1>4 DEF Transferring, In, Resting, Empty
  <1>8. QED
    BY <1>1, <1>5, <1>6, <1>7, InTransfer

\* What TransferBlock finds: a block to read, or room for one to write.
LEMMA BlockReady ==
    ASSUME IInv, pc = "data", ~Errored, Ready \in host.int
    PROVE  /\ card.cnt = 0 /\ host.cmd = None
           /\ \/ /\ job.op = "read" /\ Ready = "rrdy" /\ ~host.asked /\ Len(host.fifo) = 1
                 /\ host.blk = Asks - Moved - 1 /\ card.left = IF Open THEN 0 ELSE host.blk
                 /\ card.st = IF host.blk = 0 /\ ~Open THEN "tran" ELSE "data"
              \/ /\ job.op = "write" /\ Ready = "wrdy" /\ host.asked /\ host.fifo = <<>>
                 /\ host.blk = Asks - Moved /\ card.left = IF Open THEN 0 ELSE host.blk
                 /\ card.st = "rcv"
  <1>1. card.cnt = 0 /\ (Reading \/ Writing) /\ host.cmd = None
    BY DEF IInv, Transferring, Under
  <1>2. CASE Reading
    BY <1>1, <1>2 DEF Reading, Ready
  <1>3. CASE Writing
    BY <1>1, <1>3 DEF Writing, Ready
  <1>4. QED
    BY <1>1, <1>2, <1>3

LEMMA TransferBlockStep ==
    ASSUME IInv, TransferBlock
    PROVE  IInv'
  <1> DEFINE j == [job EXCEPT !.c = @ + 1,
                     !.buf = IF job.op = "read" THEN Append(@, host.fifo[1]) ELSE @]
  <1>1. /\ pc = "data" /\ Sees({Ready}) /\ sd_int({Ready})[2] = "OK"
        /\ job' = j /\ card' = card
        /\ host' = [host EXCEPT !.int = sd_int({Ready})[1], !.fifo = Filled]
        /\ \/ j.c < j.num /\ CCS /\ UNCHANGED <<pc, call, drv>>
           \/ j.c < j.num /\ ~CCS /\ sd_cmd(Command(j)[1], Command(j)[2]) /\ drv' = Ok
           \/ /\ ~(j.c < j.num) /\ j.num > 1 /\ ~BlkCnt /\ CCS
              /\ sd_cmd("STOP_TRANS", 0) /\ drv' = Ok
           \/ /\ ~(j.c < j.num) /\ ~(j.num > 1 /\ ~BlkCnt /\ CCS)
              /\ pc' = "up" /\ UNCHANGED <<call, drv>>
    BY DEF TransferBlock, Succeeds
  <1>2. ~Errored /\ Ready \in host.int /\ sd_int({Ready})[1] = host.int \ {Ready}
    BY <1>1, IntOK DEF IInv
  <1>3. /\ job.op \in {"read", "write"} /\ job.num \in 1 .. NBlocks /\ job.c \in Nat
        /\ job.c < job.num /\ host.blkcnt = Asks
    BY <1>1 DEF IInv, Transferring, Typed
  <1>4. /\ DOMAIN j = DOMAIN job /\ j.op = job.op /\ j.num = job.num /\ j.c = job.c + 1
    BY DEF IInv, Typed
  <1> HIDE DEF j
  <1>5. /\ DOMAIN host' = DOMAIN host /\ host'.cmd = host.cmd /\ host'.blk = host.blk
        /\ host'.int = host.int \ {Ready} /\ host'.fifo = Filled
        /\ host'.blkcnt = host.blkcnt /\ host'.asked = host.asked
        /\ host'.width4 = host.width4
    BY <1>1, <1>2 DEF IInv, Typed
  <1>6. /\ job.op = "read" => host'.fifo = <<>>
        /\ job.op = "write" => Len(host'.fifo) = 1
        /\ Len(host'.fifo) <= 1
    BY <1>3, <1>5 DEF Filled
  <1>7. /\ card.cnt = 0 /\ host.cmd = None
        /\ \/ /\ job.op = "read" /\ Ready = "rrdy" /\ ~host.asked /\ Len(host.fifo) = 1
              /\ host.blk = Asks - Moved - 1 /\ card.left = IF Open THEN 0 ELSE host.blk
              /\ card.st = IF host.blk = 0 /\ ~Open THEN "tran" ELSE "data"
           \/ /\ job.op = "write" /\ Ready = "wrdy" /\ host.asked /\ host.fifo = <<>>
              /\ host.blk = Asks - Moved /\ card.left = IF Open THEN 0 ELSE host.blk
              /\ card.st = "rcv"
    BY <1>1, <1>2, BlockReady
  <1>8. host.blk \in Nat /\ job.num \in Nat
    BY Sizes DEF IInv, Typed
  <1>9. /\ DOMAIN job' = DOMAIN job /\ job'.num \in Nat /\ job'.c \in 0 .. job'.num
         /\ host'.int \subseteq Errors \cup {"done", "rrdy", "wrdy"}
    <2>1. job.c + 1 \in 0 .. job.num
      BY <1>3, <1>8
    <2>2. host'.int \subseteq host.int
      BY <1>5
    <2>3. host.int \subseteq Errors \cup {"done", "rrdy", "wrdy"}
      BY DEF IInv, Typed
    <2>4. QED
      BY <1>1, <1>4, <1>8, <2>1, <2>2, <2>3
  <1>10. CASE j.c < j.num /\ CCS /\ UNCHANGED <<pc, call, drv>>
    <2>1. Learned' /\ CardSound' /\ CCS' = CCS /\ BlkCnt' = BlkCnt
      BY <1>1, <1>5, <1>10, StillAgreed
    <2>2. /\ Asks = job.num /\ Moved = job.c /\ Asks' = job.num /\ Moved' = job.c + 1
          /\ Open' = Open
      BY <1>1, <1>4, <1>10, <2>1 DEF Asks, Moved, Open
    <2>3. Typed'
      BY <1>1, <1>5, <1>6, <1>10, <1>9 DEF IInv, Typed, InCall
    <2>4. Under'
      BY <1>1, <1>5, <1>7, <1>10 DEF Under
    <2>5. Reading' \/ Writing'
      <3>1. CASE job.op = "read"
        <4>1. host.blk # 0
          BY <1>3, <1>4, <1>7, <1>10, <2>2, <3>1
        <4>2. Reading'
          BY <1>1, <1>3, <1>4, <1>5, <1>6, <1>7, <2>2, <3>1, <4>1 DEF Reading
        <4>3. QED
          BY <4>2
      <3>2. CASE job.op = "write"
        <4>1. Writing'
          BY <1>1, <1>3, <1>4, <1>5, <1>6, <1>7, <2>2, <3>2 DEF Writing
        <4>2. QED
          BY <4>1
      <3>3. QED
        BY <1>3, <3>1, <3>2
    <2>6. Transferring'
      BY <1>1, <1>3, <1>4, <1>5, <1>7, <1>10, <2>2, <2>5 DEF Transferring, In, InCall
    <2>7. QED
      BY <1>1, <1>10, <2>1, <2>3, <2>4, <2>6, InTransfer
  <1>11. \/ j.c < j.num /\ CCS
         \/ /\ job.op = "read" => ~host'.asked /\ host.blk = 0
            /\ job.op = "write" => host.blk = 1
    <2>1. CASE CCS
      BY <1>3, <1>4, <1>5, <1>7, <2>1 DEF Asks, Moved
    <2>2. CASE ~CCS
      BY <1>3, <1>4, <1>5, <1>7, <2>2 DEF Asks, Moved
    <2>3. QED
      BY <2>1, <2>2
  <1>12. CASE j.c < j.num /\ ~CCS /\ sd_cmd(Command(j)[1], Command(j)[2]) /\ drv' = Ok
    <2>1. PICK code : code = Command(j)[1]
      OBVIOUS
    <2>2. /\ code \in DataCodes /\ code \in Codes /\ code \notin AppCodes
          /\ (code \in ReadCodes) = (j.op = "read")
          /\ (code \in {"READ_SINGLE", "WRITE_SINGLE"}) = ((IF CCS THEN j.num ELSE 1) = 1)
      BY <1>3, <1>4, <2>1, Sizes, CommandCode DEF Codes, TransferCodes, DataCodes, ReadCodes,
         WriteCodes, AppCodes
    <2>3. /\ pc' = "status" /\ DOMAIN call' = {"code", "arg", "ret", "stage"}
          /\ call'.code = code /\ call'.stage = "main"
      BY <1>12, <2>1, <2>2, Starts
    <2>4. In(TransferCodes)'
      BY <2>2, <2>3 DEF In, InCall, TransferCodes
    <2>5. /\ Learned' /\ CardSound' /\ CCS' = CCS /\ BlkCnt' = BlkCnt
          /\ DOMAIN drv' = DOMAIN drv /\ drv'.scr = drv.scr /\ drv'.rca = drv.rca
          /\ drv'.err \in {"OK", drv.err} /\ drv'.cnt = drv.cnt /\ drv'.ccs = drv.ccs
      BY <1>1, <1>5, <1>12, <2>4, StillAgreed
    <2>6. Typed'
      BY <1>1, <1>5, <1>6, <1>9, <2>2, <2>3, <2>5 DEF IInv, Typed
    <2>7. Under'
      BY <1>5, <1>7, <2>3 DEF Under
    <2>8. /\ Asks' = 1 /\ Asks = 1 /\ ~Open' /\ ~Open /\ ~Counted'
      BY <1>12, <2>5 DEF Asks, Open, Counted
    <2>9. Resting' \/ LastBlock'
      <3>1. CASE job.op = "read"
        BY <1>1, <1>5, <1>6, <1>7, <1>11, <1>12, <2>8, <3>1 DEF Resting, Empty
      <3>2. CASE job.op = "write"
        BY <1>1, <1>5, <1>6, <1>7, <1>11, <1>12, <2>8, <3>2 DEF LastBlock
      <3>3. QED
        BY <1>3, <3>1, <3>2
    <2>10. job'.c < job'.num /\ job'.op \in {"read", "write"} /\ job'.num \in 1 .. NBlocks
      BY <1>1, <1>3, <1>4, <1>12
    <2>11. QED
      BY <1>1, <1>3, <1>4, <1>5, <1>7, <1>12, <2>2, <2>3, <2>5, <2>6, <2>7, <2>8, <2>9, <2>10,
         DataBegins
  <1>13. CASE /\ ~(j.c < j.num) /\ j.num > 1 /\ ~BlkCnt /\ CCS
              /\ sd_cmd("STOP_TRANS", 0) /\ drv' = Ok
    <2>1. /\ pc' = "status" /\ DOMAIN call' = {"code", "arg", "ret", "stage"}
          /\ call'.code = "STOP_TRANS" /\ call'.stage = "main" /\ ~After'
      <3>1. "STOP_TRANS" \in Codes /\ "STOP_TRANS" \notin AppCodes
        BY DEF Codes, TransferCodes, AppCodes
      <3>2. QED
        BY <1>13, <3>1, Starts
    <2>2. In(TransferCodes)' /\ ~In(DataCodes)' /\ ~In({"SET_BLOCKCNT"})'
      BY <2>1 DEF In, InCall, TransferCodes, DataCodes, ReadCodes, WriteCodes
    <2>3. /\ Learned' /\ CardSound' /\ CCS' = CCS /\ BlkCnt' = BlkCnt
          /\ DOMAIN drv' = DOMAIN drv /\ drv'.scr = drv.scr /\ drv'.rca = drv.rca
          /\ drv'.err \in {"OK", drv.err} /\ drv'.cnt = drv.cnt /\ drv'.ccs = drv.ccs
      BY <1>1, <1>5, <1>13, <2>2, StillAgreed
    <2>4. Typed'
      BY <1>1, <1>5, <1>6, <1>9, <2>1, <2>3 DEF IInv, Typed, Codes, TransferCodes
    <2>5. Under'
      BY <1>5, <1>7, <2>1 DEF Under
    <2>6. Open /\ Open' /\ job'.c = job'.num
      BY <1>1, <1>3, <1>4, <1>13, <2>3 DEF Open
    <2>7. \/ Empty' /\ card'.st \in {"data", "rcv"} /\ card'.left = 0 /\ card'.cnt = 0
          \/ LastBlock' /\ card'.cnt = 0
      <3>1. CASE job.op = "read"
        BY <1>1, <1>5, <1>6, <1>7, <1>11, <1>13, <2>6, <3>1 DEF Empty
      <3>2. CASE job.op = "write"
        BY <1>1, <1>5, <1>6, <1>7, <1>11, <1>13, <2>6, <3>2 DEF LastBlock
      <3>3. QED
        BY <1>3, <3>1, <3>2
    <2>8. Transferring'
      BY <1>1, <1>3, <1>4, <2>1, <2>2, <2>6, <2>7 DEF Transferring
    <2>9. QED
      BY <2>2, <2>3, <2>4, <2>5, <2>8, InTransfer
  <1>14. CASE /\ ~(j.c < j.num) /\ ~(j.num > 1 /\ ~BlkCnt /\ CCS)
              /\ pc' = "up" /\ UNCHANGED <<call, drv>>
    <2>1. Learned' /\ CardSound' /\ CCS' = CCS /\ BlkCnt' = BlkCnt
      BY <1>1, <1>5, <1>14, StillAgreed
    <2>2. Typed'
      BY <1>1, <1>5, <1>6, <1>14, <1>9 DEF IInv, Typed, InCall
    <2>3. Under'
      BY <1>5, <1>7, <1>14 DEF Under
    <2>4. ~Open /\ ~Open'
      BY <1>1, <1>4, <1>14, <2>1 DEF Open
    <2>5. (Resting' \/ LastBlock') /\ card'.cnt = 0
      <3>1. CASE job.op = "read"
        BY <1>1, <1>5, <1>6, <1>7, <1>11, <1>14, <2>4, <3>1 DEF Resting, Empty
      <3>2. CASE job.op = "write"
        BY <1>1, <1>5, <1>6, <1>7, <1>11, <1>14, <2>4, <3>2 DEF LastBlock
      <3>3. QED
        BY <1>3, <3>1, <3>2
    <2>6. Transferring'
      BY <1>14, <2>4, <2>5 DEF Transferring, In, InCall
    <2>7. QED
      BY <1>14, <2>1, <2>2, <2>3, <2>6, InTransfer
  <1>15. QED
    BY <1>1, <1>10, <1>12, <1>13, <1>14
-----------------------------------------------------------------------------
(* The steps of sd_cmd *)

\* A step of sd_cmd that the card does not see: what was true before the
\* command was sent, or after it succeeded, is true still.
LEMMA CallKept ==
    ASSUME IInv, InCall, InCall', card' = card, job' = job,
           call'.code = call.code, call'.arg = call.arg,
           host'.fifo = host.fifo, host'.blk = host.blk, host'.blkcnt = host.blkcnt,
           host'.asked = host.asked, host'.width4 = host.width4,
           drv'.scr = drv.scr, drv'.rca = drv.rca, drv'.ccs = drv.ccs,
           Typed', Under', OpCond',
           Pending' => Pending /\ NoData' /\ (Errored => Errored' \/ call.code \in AppCodes),
           After' => /\ After /\ ~Errored /\ ~Errored' /\ Answer' = Answer
                     /\ ("rrdy" \in host'.int) = ("rrdy" \in host.int)
                     /\ ("wrdy" \in host'.int) = ("wrdy" \in host.int)
    PROVE  IInv'
  <1>1. \A S : In(S)' <=> In(S)
    BY DEF In
  <1>2. pc' \notin {"scr", "data", "up"} /\ pc \notin {"scr", "data", "up"}
    BY DEF InCall
  <1>3. /\ Empty' = Empty /\ Resting' = Resting /\ CCS' = CCS /\ BlkCnt' = BlkCnt
        /\ Open' = Open /\ Counted' = Counted /\ Asks' = Asks /\ Moved' = Moved
        /\ LastBlock' = LastBlock
    BY DEF Empty, Resting, CCS, BlkCnt, Open, Counted, Asks, Moved, LastBlock
  <1>4. CardSound' /\ Identifying' /\ InitWidth' /\ IfCond' /\ SendCid' /\ RelAddr' /\ CardSelect'
    BY <1>1, <1>2, <1>3 DEF IInv, CardSound, Identifying, InitWidth, IfCond, SendCid, RelAddr,
       CardSelect
  <1>5. SendScr' /\ BusWidth' /\ Learned'
    <2>1. After' /\ ScrMoves => ScrMoves'
      BY DEF ScrMoves
    <2>2. SendScr'
      BY <1>1, <1>2, <1>3, <2>1 DEF IInv, SendScr
    <2>3. BusWidth' /\ Learned'
      BY <1>1, <1>2, <1>3 DEF IInv, BusWidth, Learned
    <2>4. QED
      BY <2>2, <2>3
  <1>6. Transferring'
    <2>1. After' => Reading' = Reading /\ Writing' = Writing
      BY <1>3 DEF Reading, Writing
    <2>2. In(TransferCodes) => call.code \notin AppCodes
      BY DEF In, TransferCodes, DataCodes, ReadCodes, WriteCodes, AppCodes
    <2>3. /\ In(DataCodes) => In(TransferCodes)
          /\ In({"SET_BLOCKCNT"}) => In(TransferCodes)
          /\ In({"STOP_TRANS"}) => In(TransferCodes)
      BY DEF In, TransferCodes
    <2>4. QED
      BY <1>1, <1>2, <1>3, <2>1, <2>2, <2>3 DEF IInv, Transferring
  <1>7. QED
    BY <1>4, <1>5, <1>6 DEF IInv

LEMMA SendingIsCommand ==
    ASSUME Typed, InCall
    PROVE  Sending # None /\ Sending.code \in {"APP_CMD", call.code}
  <1>1. call.code # "none"
    BY DEF Typed, Codes, InitCodes, TransferCodes, DataCodes, ReadCodes, WriteCodes
  <1>2. Sending.code \in {"APP_CMD", call.code} /\ None.code = "none"
    BY DEF Sending, None
  <1>3. QED
    BY <1>1, <1>2

LEMMA CmdIssueStep ==
    ASSUME IInv, CmdIssue
    PROVE  IInv'
  <1>1. /\ pc = "status" /\ host.cmd = None /\ ~Errored /\ pc' = "int"
        /\ host' = [host EXCEPT !.int = {}, !.cmd = Sending]
        /\ UNCHANGED <<call, drv, card, job>>
    BY DEF CmdIssue, StatusOK, Errored
  <1>2. /\ DOMAIN host' = DOMAIN host /\ host'.cmd = Sending /\ host'.int = {}
        /\ host'.fifo = host.fifo /\ host'.blk = host.blk /\ host'.blkcnt = host.blkcnt
        /\ host'.asked = host.asked /\ host'.width4 = host.width4
    BY <1>1 DEF IInv, Typed
  <1>3. InCall /\ InCall' /\ Pending /\ NoData' /\ Sending' = Sending
    BY <1>1, <1>2 DEF InCall, Pending, NoData, Sending
  <1>4. host'.cmd # None
    BY <1>2, <1>3, SendingIsCommand DEF IInv
  <1>5. Typed' /\ Under'
    <2>1. Typed'
      BY <1>1, <1>2, <1>3 DEF IInv, Typed
    <2>2. Under'
      BY <1>1, <1>2, <1>3 DEF IInv, Under
    <2>3. QED
      BY <2>1, <2>2
  <1>6. ~After' /\ OpCond'
    BY <1>1, <1>3, <1>4 DEF IInv, After, OpCond, In
  <1>7. QED
    BY <1>1, <1>2, <1>3, <1>5, <1>6, CallKept

\* sd_cmd returns: its application command to its own, or to its caller.
LEMMA ReturnStep ==
    ASSUME IInv, pc \in {"status", "int"}, NEW r, NEW e \in {"OK", "TIMEOUT", "ERROR"},
           Returns(r, e), card' = card, job' = job,
           DOMAIN host' = DOMAIN host, host'.cmd = host.cmd, host'.int \subseteq host.int,
           host'.fifo = host.fifo, host'.blk = host.blk, host'.blkcnt = host.blkcnt,
           host'.asked = host.asked, host'.width4 = host.width4,
           \/ r = NoAnswer /\ e # "OK"
           \/ /\ pc = "int" /\ "done" \in host.int /\ ~Errored /\ r = host.resp
              /\ host'.int = host.int \ {"done"} /\ e = drv.err
    PROVE  IInv'
  <1>1. InCall /\ (r = NoAnswer => r.flags = {})
    BY DEF InCall, NoAnswer
  <1>2. \/ host.cmd = None \/ host.cmd.code = call.code
        \/ host.cmd.code = "APP_CMD" /\ call.code \in AppCodes
        \/ call.code = "SEND_REL_ADDR" /\ host.cmd.code = "ALL_SEND_CID"
    BY <1>1 DEF IInv, Typed, Under, Sending
  <1>3. r # NoAnswer => host.cmd = None
    BY DEF IInv, Under
  <1>4. In({"SEND_OP_COND"}) => drv.rca = 0
    BY DEF IInv, Identifying, In
  <1>5. CASE /\ call.stage = "app" /\ pc' = "status" /\ call' = [call EXCEPT !.stage = "main"]
             /\ drv' = [drv EXCEPT !.err = e]
    <2>1. /\ DOMAIN call' = DOMAIN call /\ call'.code = call.code /\ call'.arg = call.arg
          /\ call'.stage = "main"
      BY <1>5 DEF IInv, Typed
    <2>2. /\ DOMAIN drv' = DOMAIN drv /\ drv'.scr = drv.scr /\ drv'.rca = drv.rca
          /\ drv'.ccs = drv.ccs /\ drv'.cnt = drv.cnt /\ drv'.err = e
      BY <1>5 DEF IInv, Typed
    <2>3. InCall' /\ Pending /\ NoData' /\ ~After' /\ call.code \in AppCodes
      BY <1>5 DEF InCall, Pending, NoData, After, IInv, Under
    <2>4. Typed'
      BY <1>1, <1>5, <2>1, <2>2 DEF IInv, Typed
    <2>5. Under'
      <3>1. host.cmd = None \/ call.code = "SEND_OP_COND"
        <4>1. call.code \in {"SEND_SCR", "SET_BUS_WIDTH"} => drv.rca = 1
          BY <1>1 DEF IInv, Learned, In
        <4>2. QED
          BY <1>1, <1>3, <1>5, <2>3, <4>1 DEF AppCodes, Returns
      <3>2. QED
        BY <1>2, <1>5, <2>1, <3>1 DEF Under
    <2>6. OpCond'
      BY <1>1, <1>5, <2>1, <2>3 DEF IInv, OpCond, In
    <2>7. QED
      BY <1>1, <2>1, <2>2, <2>3, <2>4, <2>5, <2>6, CallKept
  <1>6. CASE /\ ~(call.stage = "app" /\ (drv.rca = 0 \/ "app" \in r.flags))
             /\ pc' = "ret" /\ call' = [call EXCEPT !.ret = r]
             /\ drv' = [drv EXCEPT !.err = IF call.stage = "app" THEN "ERROR" ELSE e]
    <2>1. /\ DOMAIN call' = DOMAIN call /\ call'.code = call.code /\ call'.arg = call.arg
          /\ call'.stage = call.stage /\ call'.ret = r
      BY <1>6 DEF IInv, Typed
    <2>2. /\ DOMAIN drv' = DOMAIN drv /\ drv'.scr = drv.scr /\ drv'.rca = drv.rca
          /\ drv'.ccs = drv.ccs /\ drv'.cnt = drv.cnt
          /\ drv'.err = IF call.stage = "app" THEN "ERROR" ELSE e
      BY <1>6 DEF IInv, Typed
    <2>3. InCall' /\ ~Pending'
      BY <1>6 DEF InCall, Pending
    <2>4. drv'.err = "OK" =>
            /\ call.stage = "main" /\ pc = "int" /\ "done" \in host.int /\ ~Errored
            /\ r = host.resp /\ host'.int = host.int \ {"done"} /\ host.cmd = None
      BY <2>2 DEF IInv, Under, Typed
    <2>5. After' => /\ After /\ ~Errored /\ ~Errored' /\ Answer' = Answer
                    /\ ("rrdy" \in host'.int) = ("rrdy" \in host.int)
                    /\ ("wrdy" \in host'.int) = ("wrdy" \in host.int)
      BY <1>6, <2>1, <2>4 DEF After, Errored, Answer
    <2>6. Typed'
      BY <1>1, <1>6, <2>1, <2>2 DEF IInv, Typed
    <2>7. Under'
      BY <1>2, <1>6, <2>1, <2>4 DEF Under, IInv, Typed
    <2>8. OpCond'
      <3>1. In({"SEND_OP_COND"})' => In({"SEND_OP_COND"}) /\ call.stage = "main"
        BY <1>1, <1>4, <1>6, <2>1 DEF In, IInv, Typed
      <3>2. Answer' = r
        BY <1>6, <2>1 DEF Answer
      <3>3. "complete" \in r.flags => pc = "int" /\ host.cmd = None /\ r = Answer
        BY <1>1, <1>3 DEF Answer
      <3>4. QED
        BY <1>6, <2>1, <3>1, <3>2, <3>3 DEF IInv, OpCond
    <2>9. QED
      BY <1>1, <2>1, <2>2, <2>3, <2>5, <2>6, <2>7, <2>8, CallKept
  <1>7. QED
    BY <1>5, <1>6 DEF Returns

LEMMA CmdReturnStep ==
    ASSUME IInv, CmdBusy \/ CmdDone \/ CmdExpires
    PROVE  IInv'
  <1> USE DEF IInv
  <1>1. CASE CmdBusy
    BY <1>1, ReturnStep DEF CmdBusy
  <1>2. CASE CmdExpires
    <2>1. /\ pc = "int" /\ host' = [host EXCEPT !.int = {}] /\ Returns(NoAnswer, "TIMEOUT")
          /\ card' = card /\ job' = job
      BY <1>2 DEF CmdExpires
    <2>2. /\ DOMAIN host' = DOMAIN host /\ host'.cmd = host.cmd /\ host'.int = {}
          /\ host'.fifo = host.fifo /\ host'.blk = host.blk /\ host'.blkcnt = host.blkcnt
          /\ host'.asked = host.asked /\ host'.width4 = host.width4
      BY <2>1 DEF Typed
    <2>3. QED
      BY <2>1, <2>2, ReturnStep
  <1>3. CASE CmdDone
    <2>1. /\ pc = "int" /\ Sees({"done"}) /\ host' = [host EXCEPT !.int = sd_int({"done"})[1]]
          /\ LET e == sd_int({"done"})[2]
             IN  IF e = "OK" THEN Returns(host.resp, drv.err) ELSE Returns(NoAnswer, e)
          /\ card' = card /\ job' = job
      BY <1>3 DEF CmdDone
    <2>2. /\ DOMAIN host' = DOMAIN host /\ host'.cmd = host.cmd
          /\ host'.int = sd_int({"done"})[1]
          /\ host'.fifo = host.fifo /\ host'.blk = host.blk /\ host'.blkcnt = host.blkcnt
          /\ host'.asked = host.asked /\ host'.width4 = host.width4
      BY <2>1 DEF Typed
    <2>3. CASE Errored
      <3>1. sd_int({"done"})[1] = {} /\ sd_int({"done"})[2] \in {"TIMEOUT", "ERROR"}
        BY <2>3 DEF sd_int, Errored
      <3>2. QED
        BY <2>1, <2>2, <3>1, ReturnStep
    <2>4. CASE ~Errored
      <3>1. sd_int({"done"})[1] = host.int \ {"done"} /\ sd_int({"done"})[2] = "OK"
        BY <2>4 DEF sd_int, Errored, Errors
      <3>2. "done" \in host.int
        BY <2>1, <2>4 DEF Sees, Errored
      <3>3. Returns(host.resp, drv.err) /\ drv.err \in {"OK", "TIMEOUT", "ERROR"}
        BY <2>1, <3>1 DEF Typed
      <3>4. QED
        BY <2>1, <2>2, <2>4, <3>1, <3>2, <3>3, ReturnStep
    <2>5. QED
      BY <2>3, <2>4
  <1>4. QED
    BY <1>1, <1>2, <1>3
-----------------------------------------------------------------------------
(* The steps of the controller and the card *)

\* The count the card is told is a number.
CountIsNumber == host.cmd.code = "SET_BLOCKCNT" => host.cmd.arg \in Nat

\* The card n that has obeyed command c, and its answer a.
Keeps(n) == /\ n.rca = card.rca /\ n.wide = card.wide /\ n.cnt = card.cnt
            /\ n.at = card.at /\ n.left = card.left
IdentEffect(c, n, a) ==
    /\ c.code = "GO_IDLE" => /\ n.st = "idle" /\ n.rca = 0 /\ n.wide = FALSE /\ n.cnt = 0
                             /\ n.at = 0 /\ n.left = 0
    /\ c.code = "SEND_IF_COND" => Keeps(n) /\ card.st = "idle" /\ n.st = "idle"
    /\ c.code = "APP_CMD" => Keeps(n) /\ n.st = card.st
    /\ c.code = "SEND_OP_COND" =>
         /\ Keeps(n) /\ card.st = "idle" /\ n.st \in {"idle", "ready"}
         /\ "complete" \in a.flags => /\ n.st = "ready" /\ ("volt" \in a.flags => n.kind.volt)
                                      /\ ("ccs" \in a.flags) = n.kind.hc
    /\ c.code = "ALL_SEND_CID" => Keeps(n) /\ card.st = "ready" /\ n.st = "ident"
    /\ c.code = "SEND_REL_ADDR" =>
         /\ card.st \in {"ident", "stby"} /\ n.st = "stby" /\ n.rca = 1 /\ a.rca = 1
         /\ n.wide = card.wide /\ n.cnt = card.cnt /\ n.at = card.at /\ n.left = card.left
    /\ c.code = "CARD_SELECT" => Keeps(n) /\ card.st = "stby" /\ n.st = "prg"
DataEffect(c, n) ==
    /\ c.code = "SEND_SCR" => Keeps(n) /\ card.st = "tran" /\ n.st = "scr"
    /\ c.code = "SET_BUS_WIDTH" =>
         /\ card.st = "tran" /\ n.st = "tran" /\ n.wide = TRUE /\ n.rca = card.rca
         /\ n.cnt = card.cnt /\ n.at = card.at /\ n.left = card.left
    /\ c.code = "SET_BLOCKCNT" =>
         /\ card.st = "tran" /\ n.st = "tran" /\ n.cnt = c.arg /\ n.rca = card.rca
         /\ n.wide = card.wide /\ n.at = card.at /\ n.left = card.left
    /\ c.code = "STOP_TRANS" => Keeps(n) /\ card.st \in {"data", "rcv"} /\ n.st = "prg"
    /\ c.code \in DataCodes =>
         /\ card.st = "tran" /\ n.st = IF c.code \in ReadCodes THEN "data" ELSE "rcv"
         /\ n.at \in Blocks /\ n.cnt = 0 /\ n.rca = card.rca /\ n.wide = card.wide
         /\ n.left = IF c.code \in {"READ_SINGLE", "WRITE_SINGLE"} THEN 1 ELSE card.cnt
    /\ c.code \notin Codes \cup {"APP_CMD"} => Keeps(n) /\ n.st = card.st

LEMMA Obeyed ==
    ASSUME Typed, NEW c, Accepts(c), NEW out \in Obeys(c)
    PROVE  /\ DOMAIN out[1] = DOMAIN card /\ out[1].kind = card.kind
           /\ IdentEffect(c, out[1], out[2]) /\ DataEffect(c, out[1])
  <1> USE DEF ReadCodes, WriteCodes, Keeps
  <1>1. CASE c.code = "GO_IDLE"
    <2>1. out = <<PowerUp(card.kind, card.mem), NoAnswer>>
      BY <1>1 DEF Obeys
    <2>2. QED
      BY <1>1, <2>1 DEF PowerUp, Typed, IdentEffect, DataEffect, DataCodes, Codes, InitCodes
  <1>2. CASE c.code = "APP_CMD"
    <2>1. out[1] = [card EXCEPT !.app = TRUE]
      BY <1>2 DEF Obeys
    <2>2. QED
      BY <1>2, <2>1 DEF Typed, IdentEffect, DataEffect, DataCodes, Codes
  <1>3. CASE c.code = "SEND_OP_COND"
    <2>1. \/ /\ out[1] = [[card EXCEPT !.app = FALSE] EXCEPT !.st = "idle"]
             /\ out[2] = [NoAnswer EXCEPT !.flags = {}]
          \/ /\ out[1] = [[card EXCEPT !.app = FALSE] EXCEPT !.st = "ready"]
             /\ out[2] = [NoAnswer EXCEPT !.flags =
                            {"complete"} \cup (IF card.kind.volt THEN {"volt"} ELSE {})
                                         \cup (IF card.kind.hc THEN {"ccs"} ELSE {})]
      BY <1>3 DEF Obeys
    <2>2. card.st = "idle"
      BY <1>3 DEF Accepts
    <2>3. card.kind.hc \in BOOLEAN
      BY SdAssumption DEF Typed
    <2>4. CASE out[1].st = "idle"
      BY <1>3, <2>1, <2>2, <2>4 DEF Typed, IdentEffect, DataEffect, DataCodes, Codes, InitCodes,
         NoAnswer
    <2>5. CASE out[1].st # "idle"
      <3>1. /\ DOMAIN out[1] = DOMAIN card /\ out[1].kind = card.kind /\ Keeps(out[1])
            /\ out[1].st = "ready"
        BY <2>1, <2>5 DEF Typed
      <3>2. out[2].flags = {"complete"} \cup (IF card.kind.volt THEN {"volt"} ELSE {})
                                        \cup (IF card.kind.hc THEN {"ccs"} ELSE {})
        BY <2>1, <2>5 DEF Typed, NoAnswer
      <3>3. /\ "volt" \in out[2].flags => card.kind.volt
            /\ ("ccs" \in out[2].flags) = card.kind.hc
        BY <2>3, <3>2
      <3>4. QED
        BY <1>3, <2>2, <3>1, <3>3 DEF IdentEffect, DataEffect, DataCodes, Codes, InitCodes
    <2>6. QED
      BY <2>4, <2>5
  <1>4. CASE c.code = "SEND_REL_ADDR"
    <2>1. /\ out[1] = [[card EXCEPT !.app = FALSE] EXCEPT !.st = "stby", !.rca = 1]
          /\ out[2] = [NoAnswer EXCEPT !.rca = 1]
      BY <1>4 DEF Obeys
    <2>2. card.st \in {"ident", "stby"}
      BY <1>4 DEF Accepts
    <2>3. QED
      BY <1>4, <2>1, <2>2 DEF Typed, IdentEffect, DataEffect, DataCodes, Codes, InitCodes, NoAnswer
  <1>5. CASE c.code = "SET_BUS_WIDTH"
    <2>1. out[1] = [[card EXCEPT !.app = FALSE] EXCEPT !.wide = TRUE]
      BY <1>5 DEF Obeys
    <2>2. card.st = "tran"
      BY <1>5 DEF Accepts
    <2>3. QED
      BY <1>5, <2>1, <2>2 DEF Typed, IdentEffect, DataEffect, DataCodes, Codes, InitCodes
  <1>6. CASE c.code = "SET_BLOCKCNT"
    <2>1. out[1] = [[card EXCEPT !.app = FALSE] EXCEPT !.cnt = c.arg]
      BY <1>6 DEF Obeys
    <2>2. card.st = "tran"
      BY <1>6 DEF Accepts
    <2>3. QED
      BY <1>6, <2>1, <2>2 DEF Typed, IdentEffect, DataEffect, DataCodes, Codes, TransferCodes
  <1>7. CASE c.code \in DataCodes
    <2>1. card.st = "tran" /\ AddressOf(card.kind, c.arg) \in Blocks
      BY <1>7 DEF Accepts, DataCodes
    <2>2. CASE c.code \in ReadCodes
      <3>1. out[1] = [[card EXCEPT !.app = FALSE] EXCEPT
                      !.st = "data", !.at = AddressOf(card.kind, c.arg), !.cnt = 0,
                      !.left = IF c.code \in {"READ_SINGLE", "WRITE_SINGLE"} THEN 1
                               ELSE card.cnt]
        BY <2>2 DEF Obeys
      <3>2. QED
        BY <2>1, <2>2, <3>1 DEF Typed, IdentEffect, DataEffect, DataCodes, Codes, TransferCodes
    <2>3. CASE c.code \in WriteCodes
      <3>1. out[1] = [[card EXCEPT !.app = FALSE] EXCEPT
                      !.st = "rcv", !.at = AddressOf(card.kind, c.arg), !.cnt = 0,
                      !.left = IF c.code \in {"READ_SINGLE", "WRITE_SINGLE"} THEN 1
                               ELSE card.cnt]
        BY <2>3 DEF Obeys
      <3>2. QED
        BY <2>1, <2>3, <3>1 DEF Typed, IdentEffect, DataEffect, DataCodes, Codes, TransferCodes
    <2>4. QED
      BY <1>7, <2>2, <2>3 DEF DataCodes
  <1>8. CASE c.code \in {"ALL_SEND_CID", "CARD_SELECT", "STOP_TRANS", "SEND_SCR"}
    <2>1. /\ c.code = "ALL_SEND_CID" => card.st = "ready"
          /\ c.code = "CARD_SELECT" => card.st = "stby"
          /\ c.code = "STOP_TRANS" => card.st \in {"data", "rcv"}
          /\ c.code = "SEND_SCR" => card.st = "tran"
      BY <1>8 DEF Accepts
    <2>2. PICK st \in {"ident", "prg", "scr"} :
            /\ out[1] = [[card EXCEPT !.app = FALSE] EXCEPT !.st = st]
            /\ c.code = "ALL_SEND_CID" => st = "ident"
            /\ c.code \in {"CARD_SELECT", "STOP_TRANS"} => st = "prg"
            /\ c.code = "SEND_SCR" => st = "scr"
      <3>1. CASE c.code = "ALL_SEND_CID"
        BY <3>1 DEF Obeys
      <3>2. CASE c.code \in {"CARD_SELECT", "STOP_TRANS"}
        BY <3>2 DEF Obeys
      <3>3. CASE c.code = "SEND_SCR"
        BY <3>3 DEF Obeys
      <3>4. QED
        BY <1>8, <3>1, <3>2, <3>3
    <2>3. QED
      BY <1>8, <2>1, <2>2 DEF Typed, IdentEffect, DataEffect, DataCodes, Codes, InitCodes,
         TransferCodes
  <1>9. CASE c.code = "SEND_IF_COND" \/ c.code \notin Codes \cup {"APP_CMD"}
    <2>1. c.code = "SEND_IF_COND" => card.st = "idle"
      BY DEF Accepts
    <2>2. out[1] = [[card EXCEPT !.app = FALSE] EXCEPT !.st = card.st]
      BY <1>9 DEF Obeys, Codes, InitCodes, TransferCodes, DataCodes
    <2>3. QED
      BY <1>9, <2>1, <2>2 DEF Typed, IdentEffect, DataEffect, DataCodes, Codes, InitCodes,
         TransferCodes
  <1>10. QED
    BY <1>1, <1>2, <1>3, <1>4, <1>5, <1>6, <1>7, <1>8, <1>9 DEF Codes, InitCodes, TransferCodes

\* The card has ignored the command, or obeyed it.
Ignored == card' = card /\ host'.resp = NoAnswer /\ (Errored' \/ Silent(host.cmd))
Done == \E a : /\ IdentEffect(host.cmd, card', a) /\ DataEffect(host.cmd, card')
               /\ host'.resp = a \/ (Errored' /\ host'.resp = NoAnswer)

LEMMA Sent ==
    ASSUME Typed, SendCommand
    PROVE  /\ UNCHANGED <<pc, call, drv, job>>
           /\ host.cmd # None /\ host.blk = 0 /\ card.st # "prg"
           /\ DOMAIN host' = DOMAIN host /\ host'.cmd = None /\ host'.last = host.cmd
           /\ host'.fifo = host.fifo /\ host'.blkcnt = host.blkcnt
           /\ host'.asked = host.asked /\ host'.width4 = host.width4
           /\ host'.blk = IF card'.st \in {"scr", "data", "rcv"} /\ card # card'
                          THEN host.blkcnt ELSE 0
           /\ host.int \subseteq host'.int
           /\ host'.int \subseteq host.int \cup {"done", "crc", "ctimeout"}
           /\ DOMAIN card' = DOMAIN card /\ card'.kind = card.kind
           /\ Ignored \/ Done
  <1>1. UNCHANGED <<pc, call, drv, job>> /\ host.cmd # None /\ host.blk = 0 /\ card.st # "prg"
    BY DEF SendCommand, DatInhibit, Typed
  <1>2. ASSUME NEW bits, NEW answer, Ends(bits, answer),
               bits \in {{"done"}, {"done", "crc"}, {"ctimeout"}}
        PROVE  /\ DOMAIN host' = DOMAIN host /\ host'.cmd = None /\ host'.last = host.cmd
               /\ host'.fifo = host.fifo /\ host'.blkcnt = host.blkcnt
               /\ host'.asked = host.asked /\ host'.width4 = host.width4
               /\ host'.blk = IF card'.st \in {"scr", "data", "rcv"} /\ card # card'
                              THEN host.blkcnt ELSE 0
               /\ host'.resp = answer /\ host'.int = host.int \cup bits
               /\ bits # {"done"} => Errored'
    <2>1. /\ DOMAIN host' = DOMAIN host /\ host'.cmd = None /\ host'.last = host.cmd
          /\ host'.fifo = host.fifo /\ host'.blkcnt = host.blkcnt
          /\ host'.asked = host.asked /\ host'.width4 = host.width4
          /\ host'.blk = IF card'.st \in {"scr", "data", "rcv"} /\ card # card'
                         THEN host.blkcnt ELSE 0
          /\ host'.resp = answer /\ host'.int = host.int \cup bits
      BY <1>2 DEF Ends, Typed
    <2>2. bits # {"done"} => Errored'
      BY <1>2, <2>1 DEF Errored, Errors
    <2>3. QED
      BY <2>1, <2>2
  <1>3. CASE /\ card' = card
             /\ Ends({IF Silent(host.cmd) THEN "done" ELSE "ctimeout"}, NoAnswer)
    <2>1. PICK bits \in {{"done"}, {"ctimeout"}} :
               Ends(bits, NoAnswer) /\ (bits = {"done"} => Silent(host.cmd))
      <3>1. CASE Silent(host.cmd)
        BY <1>3, <3>1
      <3>2. CASE ~Silent(host.cmd)
        BY <1>3, <3>2
      <3>3. QED
        BY <3>1, <3>2
    <2>2. Ignored
      BY <1>2, <1>3, <2>1 DEF Ignored
    <2>3. QED
      BY <1>1, <1>2, <1>3, <2>1, <2>2
  <1>4. ASSUME Accepts(host.cmd), NEW out \in Obeys(host.cmd), card' = out[1],
               \/ Ends({"done"}, out[2])
               \/ Ends({"done", "crc"}, out[2])
               \/ Ends({"ctimeout"}, NoAnswer)
        PROVE  /\ DOMAIN card' = DOMAIN card /\ card'.kind = card.kind /\ Done
               /\ \E bits \in {{"done"}, {"done", "crc"}, {"ctimeout"}} : Ends(bits, host'.resp)
    <2>1. /\ DOMAIN card' = DOMAIN card /\ card'.kind = card.kind
          /\ IdentEffect(host.cmd, card', out[2]) /\ DataEffect(host.cmd, card')
      BY <1>4, Obeyed
    <2>2. PICK bits \in {{"done"}, {"done", "crc"}, {"ctimeout"}},
               answer \in {out[2], NoAnswer} :
               /\ Ends(bits, answer)
               /\ answer = out[2] \/ (bits = {"ctimeout"} /\ answer = NoAnswer)
      BY <1>4
    <2>3. host'.resp = out[2] \/ (Errored' /\ host'.resp = NoAnswer)
      BY <1>2, <2>2
    <2>4. Done
      BY <2>1, <2>3 DEF Done
    <2>5. Ends(bits, host'.resp)
      BY <1>2, <2>2
    <2>6. QED
      BY <2>1, <2>2, <2>4, <2>5
  <1>5. CASE /\ Accepts(host.cmd)
             /\ \E out \in Obeys(host.cmd) :
                  /\ card' = out[1]
                  /\ \/ Ends({"done"}, out[2])
                     \/ Ends({"done", "crc"}, out[2])
                     \/ Ends({"ctimeout"}, NoAnswer)
    <2>1. /\ DOMAIN card' = DOMAIN card /\ card'.kind = card.kind /\ Done
          /\ \E bits \in {{"done"}, {"done", "crc"}, {"ctimeout"}} : Ends(bits, host'.resp)
      BY <1>4, <1>5
    <2>2. PICK bits \in {{"done"}, {"done", "crc"}, {"ctimeout"}} : Ends(bits, host'.resp)
      BY <2>1
    <2>3. QED
      BY <1>1, <1>2, <2>1, <2>2
  <1>6. QED
    BY <1>3, <1>5 DEF SendCommand

\* A command leaves the types and the card's own rules alone.
LEMMA SentTyped ==
    ASSUME IInv, CountIsNumber, SendCommand
    PROVE  Typed' /\ CardSound'
  <1>1. /\ UNCHANGED <<pc, call, drv, job>>
        /\ DOMAIN host' = DOMAIN host /\ host'.fifo = host.fifo /\ host'.blkcnt = host.blkcnt
        /\ host'.asked = host.asked /\ host'.width4 = host.width4
        /\ host'.blk = IF card'.st \in {"scr", "data", "rcv"} /\ card # card'
                       THEN host.blkcnt ELSE 0
        /\ host'.int \subseteq host.int \cup {"done", "crc", "ctimeout"}
        /\ DOMAIN card' = DOMAIN card /\ card'.kind = card.kind
        /\ Ignored \/ Done
    BY Sent DEF IInv
  <1>2. /\ card'.wide \in BOOLEAN /\ card'.at \in Blocks /\ card'.cnt \in Nat /\ card'.left \in Nat
        /\ card'.st \in {"idle", "ready", "ident", "stby", "tran", "scr", "data", "rcv", "prg"}
        /\ CardSound'
    <2>1. CASE Ignored
      BY <2>1 DEF Ignored, IInv, Typed, CardSound
    <2>2. CASE Done
      <3>1. PICK a : IdentEffect(host.cmd, card', a) /\ DataEffect(host.cmd, card')
        BY <2>2 DEF Done
      <3>2. CASE host.cmd.code \in {"SEND_IF_COND", "APP_CMD"}
        BY <3>1, <3>2 DEF IdentEffect, IInv, Typed, CardSound, Keeps
      <3>3. CASE host.cmd.code = "GO_IDLE"
        <4>1. /\ card'.st = "idle" /\ card'.rca = 0 /\ card'.wide = FALSE /\ card'.cnt = 0
              /\ card'.at = 0 /\ card'.left = 0
          BY <3>1, <3>3 DEF IdentEffect
        <4>2. card'.at \in Blocks /\ card'.cnt \in Nat /\ card'.left \in Nat
          BY <4>1, Sizes
        <4>3. CardSound'
          BY <4>1 DEF CardSound
        <4>4. QED
          BY <4>1, <4>2, <4>3
      <3>4. CASE host.cmd.code = "SEND_OP_COND"
        BY <3>1, <3>4 DEF IdentEffect, IInv, Typed, CardSound, Keeps
      <3>5. CASE host.cmd.code \in {"ALL_SEND_CID", "CARD_SELECT"}
        BY <3>1, <3>5 DEF IdentEffect, IInv, Typed, CardSound, Keeps
      <3>6. CASE host.cmd.code = "SEND_REL_ADDR"
        BY <3>1, <3>6 DEF IdentEffect, IInv, Typed, CardSound
      <3>7. CASE host.cmd.code \in {"SEND_SCR", "STOP_TRANS"}
        BY <3>1, <3>7 DEF DataEffect, IInv, Typed, CardSound, Keeps
      <3>8. CASE host.cmd.code = "SET_BUS_WIDTH"
        BY <3>1, <3>8 DEF DataEffect, IInv, Typed, CardSound
      <3>9. CASE host.cmd.code = "SET_BLOCKCNT"
        BY <3>1, <3>9 DEF DataEffect, IInv, Typed, CardSound, CountIsNumber
      <3>10. CASE host.cmd.code \in DataCodes
        BY <3>1, <3>10 DEF DataEffect, IInv, Typed, CardSound
      <3>11. CASE host.cmd.code \notin Codes \cup {"APP_CMD"}
        BY <3>1, <3>11 DEF DataEffect, IInv, Typed, CardSound, Keeps
      <3>12. QED
        BY <3>2, <3>3, <3>4, <3>5, <3>6, <3>7, <3>8, <3>9, <3>10, <3>11
           DEF Codes, InitCodes, TransferCodes
    <2>3. QED
      BY <1>1, <2>1, <2>2
  <1>3. Typed'
    <2>1. host'.blk \in 0 .. NBlocks
      BY <1>1, Sizes DEF IInv, Typed
    <2>2. host'.int \subseteq Errors \cup {"done", "rrdy", "wrdy"}
      BY <1>1 DEF IInv, Typed, Errors
    <2>3. QED
      BY <1>1, <1>2, <2>1, <2>2 DEF IInv, Typed, InCall
  <1>4. QED
    BY <1>2, <1>3

\* What a command can change.
LEMMA SentChanges ==
    ASSUME Ignored \/ Done, NEW code, code = host.cmd.code
    PROVE  /\ code \notin {"GO_IDLE", "SET_BUS_WIDTH"} /\ code \in Codes \cup {"APP_CMD"} =>
                card'.wide = card.wide
           /\ code \notin {"GO_IDLE", "SET_BLOCKCNT"} \cup DataCodes
                /\ code \in Codes \cup {"APP_CMD"} => card'.cnt = card.cnt
           /\ code \in {"SEND_IF_COND", "APP_CMD", "SET_BUS_WIDTH"} => card'.st = card.st
           /\ code = "SEND_OP_COND" =>
                card'.st = card.st \/ (card.st = "idle" /\ card'.st = "ready")
           /\ code = "ALL_SEND_CID" =>
                card'.st = card.st \/ (card.st = "ready" /\ card'.st = "ident")
           /\ code \in InitCodes \ {"SEND_SCR", "SET_BUS_WIDTH"} =>
                card' = card \/ card'.st \notin {"scr", "data", "rcv"}
  <1>1. CASE Ignored
    BY <1>1 DEF Ignored
  <1>2. CASE Done
    <2>1. PICK a : IdentEffect(host.cmd, card', a) /\ DataEffect(host.cmd, card')
      BY <1>2 DEF Done
    <2>2. code \notin {"GO_IDLE", "SET_BUS_WIDTH"} /\ code \in Codes \cup {"APP_CMD"} =>
             card'.wide = card.wide
      BY <2>1 DEF IdentEffect, DataEffect, Keeps, Codes, InitCodes, TransferCodes
    <2>3. code \notin {"GO_IDLE", "SET_BLOCKCNT"} \cup DataCodes
             /\ code \in Codes \cup {"APP_CMD"} => card'.cnt = card.cnt
      BY <2>1 DEF IdentEffect, DataEffect, Keeps, Codes, InitCodes, TransferCodes
    <2>4. code \in {"SEND_IF_COND", "APP_CMD", "SET_BUS_WIDTH"} => card'.st = card.st
      BY <2>1 DEF IdentEffect, DataEffect
    <2>5. /\ code = "SEND_OP_COND" =>
               card'.st = card.st \/ (card.st = "idle" /\ card'.st = "ready")
          /\ code = "ALL_SEND_CID" =>
               card'.st = card.st \/ (card.st = "ready" /\ card'.st = "ident")
      BY <2>1 DEF IdentEffect
    <2>6. code \in InitCodes \ {"SEND_SCR", "SET_BUS_WIDTH"} =>
             card'.st \notin {"scr", "data", "rcv"}
      BY <2>1 DEF IdentEffect, InitCodes
    <2>7. QED
      BY <2>2, <2>3, <2>4, <2>5, <2>6
  <1>3. QED
    BY <1>1, <1>2

\* While sd_cmd waits: whose command it is, and what its end means.
LEMMA SentInCall ==
    ASSUME IInv, SendCommand, InCall
    PROVE  /\ Under'
           /\ \/ host.cmd.code = call.code
              \/ host.cmd.code = "APP_CMD" /\ call.code \in AppCodes
              \/ call.code = "SEND_REL_ADDR" /\ host.cmd.code = "ALL_SEND_CID"
           /\ Pending' => \/ pc = "status" /\ call.code = "SEND_OP_COND"
                          \/ /\ pc = "status" /\ call.code = "SEND_REL_ADDR"
                             /\ host.cmd.code = "ALL_SEND_CID"
                          \/ /\ pc = "int" /\ call.stage = "app" /\ call.code \in AppCodes
                             /\ Pending /\ host.cmd.code = "APP_CMD"
           /\ After' => /\ pc = "int" /\ call.stage = "main" /\ Pending /\ ~Errored /\ ~Errored'
                        /\ host.cmd.code = call.code /\ host.cmd.arg = call.arg
                        /\ Answer' = host'.resp /\ (NoData => NoData')
                        /\ call.code # "GO_IDLE" =>
                             /\ IdentEffect(host.cmd, card', Answer')
                             /\ DataEffect(host.cmd, card')
           /\ pc = "ret" => ~After' /\ ~Pending'
  <1>1. /\ UNCHANGED <<pc, call, drv, job>> /\ host.cmd # None
        /\ host'.cmd = None /\ host'.last = host.cmd /\ host.int \subseteq host'.int
        /\ host'.int \subseteq host.int \cup {"done", "crc", "ctimeout"}
        /\ Ignored \/ Done
    BY Sent DEF IInv
  <1>2. pc \in {"status", "int", "ret"} /\ call.stage \in {"app", "main"} /\ call.code \in Codes
    BY DEF InCall, IInv, Typed
  <1>3. pc = "int" => host.cmd = Sending
    BY <1>1 DEF IInv, Under
  <1>4. pc = "ret" => drv.err # "OK"
    BY <1>1 DEF IInv, Under
  <1>5. Sending' = Sending
    BY <1>1 DEF Sending
  <1>6. Under'
    BY <1>1, <1>2, <1>3, <1>4, <1>5 DEF IInv, Under
  <1>7. \/ host.cmd.code = call.code
        \/ host.cmd.code = "APP_CMD" /\ call.code \in AppCodes
        \/ call.code = "SEND_REL_ADDR" /\ host.cmd.code = "ALL_SEND_CID"
    BY <1>1, <1>2, <1>3 DEF IInv, Under, Sending
  <1>8. Pending' => \/ pc = "status" /\ call.code = "SEND_OP_COND"
                    \/ /\ pc = "status" /\ call.code = "SEND_REL_ADDR"
                       /\ host.cmd.code = "ALL_SEND_CID"
                    \/ /\ pc = "int" /\ call.stage = "app" /\ call.code \in AppCodes
                       /\ Pending /\ host.cmd.code = "APP_CMD"
    BY <1>1, <1>2, <1>3 DEF IInv, Under, Pending, Sending
  <1>9. ASSUME After'
        PROVE  /\ pc = "int" /\ call.stage = "main" /\ Pending /\ ~Errored /\ ~Errored'
               /\ host.cmd.code = call.code /\ host.cmd.arg = call.arg
               /\ Answer' = host'.resp /\ (NoData => NoData')
               /\ call.code # "GO_IDLE" =>
                    IdentEffect(host.cmd, card', Answer') /\ DataEffect(host.cmd, card')
    <2>1. pc = "int" /\ call.stage = "main" /\ ~Errored'
      BY <1>1, <1>4, <1>9 DEF After, Errored
    <2>2. ~Errored
      BY <1>1, <2>1 DEF Errored
    <2>3. Pending /\ host.cmd.code = call.code /\ host.cmd.arg = call.arg
      BY <1>1, <1>3, <2>1 DEF Pending, Sending
    <2>4. Answer' = host'.resp /\ (NoData => NoData')
      BY <1>1, <2>1 DEF Answer, NoData
    <2>5. ASSUME call.code # "GO_IDLE"
          PROVE  IdentEffect(host.cmd, card', Answer') /\ DataEffect(host.cmd, card')
      <3>1. call.code # "APP_CMD"
        BY <1>2 DEF Codes, InitCodes, TransferCodes, DataCodes, ReadCodes, WriteCodes
      <3>2. ~Silent(host.cmd)
        BY <2>3, <2>5, <3>1 DEF Silent
      <3>3. QED
        BY <1>1, <2>1, <2>4, <3>2 DEF Ignored, Done
    <2>6. QED
      BY <2>1, <2>2, <2>3, <2>4, <2>5
  <1>10. pc = "ret" => ~After' /\ ~Pending'
    BY <1>1, <1>9 DEF Pending
  <1>11. QED
    BY <1>6, <1>7, <1>8, <1>9, <1>10

\* The part of sd_init.
LEMMA SentInInit ==
    ASSUME IInv, SendCommand, InCall
    PROVE  /\ Identifying' /\ InitWidth' /\ IfCond' /\ OpCond' /\ SendCid' /\ RelAddr'
           /\ CardSelect' /\ SendScr' /\ BusWidth' /\ Learned'
  <1>1. /\ UNCHANGED <<pc, call, drv, job>> /\ host.blk = 0 /\ card.st # "prg"
        /\ host'.cmd = None /\ host.cmd # None
        /\ host'.fifo = host.fifo /\ host'.blkcnt = host.blkcnt
        /\ host'.asked = host.asked /\ host'.width4 = host.width4
        /\ host'.blk = IF card'.st \in {"scr", "data", "rcv"} /\ card # card'
                       THEN host.blkcnt ELSE 0
        /\ card'.kind = card.kind
        /\ Ignored \/ Done
    BY Sent DEF IInv
  <1>2. /\ pc \in {"status", "int", "ret"} /\ call.stage \in {"app", "main"}
        /\ call.code \in Codes
        /\ \A S : In(S)' <=> call.code \in S
        /\ \A S : In(S) <=> call.code \in S
    BY <1>1 DEF InCall, IInv, Typed, In
  <1>3. PICK code : code = host.cmd.code
    OBVIOUS
  <1>4. /\ \/ code = call.code
           \/ code = "APP_CMD" /\ call.code \in AppCodes
           \/ call.code = "SEND_REL_ADDR" /\ code = "ALL_SEND_CID"
        /\ Pending' => \/ pc = "status" /\ call.code = "SEND_OP_COND"
                       \/ pc = "status" /\ call.code = "SEND_REL_ADDR" /\ code = "ALL_SEND_CID"
                       \/ /\ pc = "int" /\ call.stage = "app" /\ call.code \in AppCodes
                          /\ Pending /\ code = "APP_CMD"
        /\ After' => /\ pc = "int" /\ call.stage = "main" /\ Pending /\ ~Errored /\ ~Errored'
                     /\ code = call.code /\ (NoData => NoData')
                     /\ call.code # "GO_IDLE" =>
                          IdentEffect(host.cmd, card', Answer') /\ DataEffect(host.cmd, card')
    BY <1>3, SentInCall
  <1>5. /\ code \notin {"GO_IDLE", "SET_BUS_WIDTH"} /\ code \in Codes \cup {"APP_CMD"} =>
             card'.wide = card.wide
        /\ code \notin {"GO_IDLE", "SET_BLOCKCNT"} \cup DataCodes
             /\ code \in Codes \cup {"APP_CMD"} => card'.cnt = card.cnt
        /\ code \in {"SEND_IF_COND", "APP_CMD", "SET_BUS_WIDTH"} => card'.st = card.st
        /\ code = "SEND_OP_COND" =>
             card'.st = card.st \/ (card.st = "idle" /\ card'.st = "ready")
        /\ code = "ALL_SEND_CID" =>
             card'.st = card.st \/ (card.st = "ready" /\ card'.st = "ident")
        /\ code \in InitCodes \ {"SEND_SCR", "SET_BUS_WIDTH"} =>
             card' = card \/ card'.st \notin {"scr", "data", "rcv"}
    BY <1>1, <1>3, SentChanges
  <1>6. pc' \notin {"scr", "data", "up"} /\ pc \notin {"scr", "data", "up"}
    BY <1>1, <1>2
  <1>7. OpCond'
    <2> SUFFICES ASSUME call.code = "SEND_OP_COND"
                 PROVE  OpCond'
      BY <1>2 DEF OpCond
    <2>1. card.st \in {"idle", "ready"} /\ card'.st \in {"idle", "ready"}
      BY <1>2, <1>4, <1>5 DEF IInv, OpCond
    <2>2. pc = "ret" => "complete" \notin Answer'.flags
      BY <1>1, <1>2 DEF IInv, OpCond, Answer
    <2>3. ASSUME pc = "int", call.stage = "main", "complete" \in Answer'.flags
          PROVE  /\ card'.st = "ready"
                 /\ "volt" \in Answer'.flags => card'.kind.volt
                 /\ ("ccs" \in Answer'.flags) = card'.kind.hc
      <3>1. host.cmd.code = "SEND_OP_COND"
        BY <1>1, <2>3 DEF IInv, Under, Sending
      <3>2. Answer' = host'.resp /\ Answer' # NoAnswer
        BY <1>1, <2>3 DEF Answer, NoAnswer
      <3>3. IdentEffect(host.cmd, card', Answer')
        BY <1>1, <3>2 DEF Ignored, Done
      <3>4. QED
        BY <2>3, <3>1, <3>3 DEF IdentEffect
    <2>4. QED
      BY <1>1, <1>2, <2>1, <2>2, <2>3 DEF OpCond
  <1>8. Identifying'
    <2> SUFFICES ASSUME call.code \in InitCodes \ {"SEND_SCR", "SET_BUS_WIDTH"}
                 PROVE  Identifying'
      BY <1>2 DEF Identifying, InitCodes
    <2>1. Empty
      BY <1>2 DEF IInv, Identifying
    <2>2. card' = card \/ card'.st \notin {"scr", "data", "rcv"}
      <3>1. CASE code = "APP_CMD"
        <4>1. call.code = "SEND_OP_COND"
          BY <1>4, <3>1 DEF AppCodes, InitCodes
        <4>2. QED
          BY <1>2, <1>7, <4>1 DEF OpCond
      <3>2. CASE code # "APP_CMD"
        BY <1>4, <1>5, <3>2 DEF InitCodes
      <3>3. QED
        BY <3>1, <3>2
    <2>3. Empty'
      BY <1>1, <2>1, <2>2 DEF Empty
    <2>4. QED
      BY <1>1, <1>2, <2>3 DEF IInv, Identifying
  <1>9. InitWidth' /\ IfCond' /\ SendCid'
    <2>1. InitWidth'
      BY <1>1, <1>2, <1>4, <1>5, <1>6 DEF IInv, InitWidth, Codes, InitCodes, DataCodes, ReadCodes,
         WriteCodes
    <2>2. IfCond'
      BY <1>2, <1>3, <1>4 DEF IfCond, IdentEffect
    <2>3. SendCid'
      BY <1>2, <1>4, <1>5 DEF IInv, SendCid, AppCodes
    <2>4. QED
      BY <2>1, <2>2, <2>3
  <1>10. RelAddr' /\ CardSelect'
    <2>1. ASSUME call.code = "SEND_REL_ADDR"
          PROVE  /\ Pending' => card'.st \in {"ready", "ident"}
                 /\ After' => card'.st = "stby" /\ Answer'.rca = 1
      <3>1. pc = "status" => card.st \in {"ready", "ident"}
        BY <1>2, <2>1 DEF IInv, RelAddr, Pending
      <3>2. Pending' => card'.st \in {"ready", "ident"}
        BY <1>4, <1>5, <2>1, <3>1 DEF AppCodes
      <3>3. After' => card'.st = "stby" /\ Answer'.rca = 1
        BY <1>3, <1>4, <2>1 DEF IdentEffect
      <3>4. QED
        BY <3>2, <3>3
    <2>2. ASSUME call.code = "CARD_SELECT"
          PROVE  ~Pending' /\ (After' => card'.st \in {"prg", "tran"})
      BY <1>3, <1>4, <2>2 DEF IdentEffect, AppCodes
    <2>3. QED
      BY <1>2, <2>1, <2>2 DEF RelAddr, CardSelect
  <1>11. SendScr'
    <2> SUFFICES ASSUME call.code = "SEND_SCR"
                 PROVE  SendScr'
      BY <1>2, <1>6 DEF SendScr
    <2>2. Pending => Empty /\ card.st = "tran" /\ host.blkcnt = 1 /\ NoData
      BY <1>2 DEF IInv, SendScr
    <2>3. Pending' => Empty' /\ card'.st = "tran" /\ host'.blkcnt = 1 /\ NoData'
      <3>1. Pending' => Pending /\ code = "APP_CMD" /\ card'.st = "tran"
        BY <1>4, <1>5, <2>2
      <3>2. host'.int \subseteq host.int \cup {"done", "crc", "ctimeout"}
        BY Sent DEF IInv
      <3>3. QED
        BY <1>1, <2>2, <3>1, <3>2 DEF Empty, NoData
    <2>4. After' => ScrMoves'
      <3>1. After' => Pending /\ card.st = "tran" /\ card'.st = "scr" /\ NoData' /\ pc' = "int"
        BY <1>1, <1>3, <1>4, <2>2 DEF DataEffect
      <3>2. QED
        BY <1>1, <2>2, <3>1 DEF ScrMoves, Empty, NoData
    <2>5. QED
      BY <1>6, <2>3, <2>4 DEF SendScr
  <1>12. BusWidth'
    <2> SUFFICES ASSUME call.code = "SET_BUS_WIDTH"
                 PROVE  BusWidth'
      BY <1>2 DEF BusWidth
    <2>1. drv'.scr = Scr(card'.kind) /\ card.cnt = 0
      BY <1>1, <1>2 DEF IInv, BusWidth, Scr
    <2>2. card'.cnt = 0
      BY <1>4, <1>5, <2>1 DEF Codes, InitCodes, DataCodes, ReadCodes, WriteCodes
    <2>3. Pending => Empty /\ card.st = "tran"
      BY <1>2 DEF IInv, BusWidth
    <2>4. Pending' => Empty' /\ card'.st = "tran"
      BY <1>1, <1>4, <1>5, <2>3 DEF Empty
    <2>5. After' => Empty' /\ card'.st = "tran" /\ card'.wide
      BY <1>1, <1>3, <1>4, <2>3 DEF Empty, DataEffect
    <2>6. QED
      BY <2>1, <2>2, <2>4, <2>5 DEF BusWidth
  <1>13. Learned'
    <2>1. Scr(card'.kind) = Scr(card.kind)
      BY <1>1
    <2>2. call.code \in TransferCodes => card'.wide = card.wide
      BY <1>4, <1>5 DEF TransferCodes, DataCodes, ReadCodes, WriteCodes, AppCodes, Codes
    <2>3. QED
      BY <1>1, <1>2, <1>6, <2>1, <2>2 DEF IInv, Learned
  <1>14. QED
    BY <1>7, <1>8, <1>9, <1>10, <1>11, <1>12, <1>13

\* The part of the transfers.
LEMMA SentInTransfer ==
    ASSUME IInv, SendCommand, InCall
    PROVE  Transferring'
  <1>1. /\ UNCHANGED <<pc, call, drv, job>> /\ host.blk = 0 /\ card.st # "prg"
        /\ host'.fifo = host.fifo /\ host'.blkcnt = host.blkcnt /\ host'.asked = host.asked
        /\ host'.blk = IF card'.st \in {"scr", "data", "rcv"} /\ card # card'
                       THEN host.blkcnt ELSE 0
    BY Sent DEF IInv
  <1>2. /\ pc \in {"status", "int", "ret"}
        /\ \A S : In(S)' <=> call.code \in S
        /\ \A S : In(S) <=> call.code \in S
    BY <1>1 DEF InCall, In
  <1>3. pc' \notin {"data", "up"}
    BY <1>1, <1>2
  <1>4. /\ CCS' = CCS /\ BlkCnt' = BlkCnt /\ Open' = Open /\ Counted' = Counted
        /\ Asks' = Asks /\ Moved' = Moved
    BY <1>1 DEF CCS, BlkCnt, Open, Counted, Asks, Moved
  <1> SUFFICES ASSUME call.code \in TransferCodes
               PROVE  Transferring'
    BY <1>2, <1>3 DEF Transferring, TransferCodes
  <1>5. /\ ~Pending'
        /\ After' => /\ pc = "int" /\ call.stage = "main" /\ Pending /\ ~Errored /\ ~Errored'
                     /\ host.cmd.code = call.code /\ host.cmd.arg = call.arg
                     /\ (NoData => NoData') /\ DataEffect(host.cmd, card')
    <2>1. call.code \notin AppCodes \cup {"GO_IDLE", "SEND_OP_COND", "SEND_REL_ADDR"}
      BY DEF TransferCodes, DataCodes, ReadCodes, WriteCodes, AppCodes
    <2>2. QED
      BY <2>1, SentInCall
  <1>6. job.op \in {"read", "write"} /\ job.num \in 1 .. NBlocks
    BY <1>2 DEF IInv, Transferring
  <1>7. CASE call.code = "SET_BLOCKCNT"
    <2>1. job.c = 0 /\ Counted /\ call.arg = job.num
      BY <1>2, <1>7 DEF IInv, Transferring
    <2>2. Pending => Empty /\ card.st = "tran"
      BY <1>2, <1>7 DEF IInv, Transferring
    <2>3. After' => Empty' /\ card'.st = "tran" /\ card'.cnt = job.num
      BY <1>1, <1>5, <1>7, <2>1, <2>2 DEF Empty, DataEffect
    <2>4. call.code \notin DataCodes
      BY <1>7 DEF DataCodes, ReadCodes, WriteCodes
    <2>5. QED
      BY <1>1, <1>2, <1>3, <1>4, <1>5, <1>6, <1>7, <2>1, <2>3, <2>4 DEF Transferring
  <1>8. CASE call.code = "STOP_TRANS"
    <2>1. Open /\ job.c = job.num
      BY <1>2, <1>8 DEF IInv, Transferring
    <2>2. Pending /\ ~Errored => Empty /\ card.st \in {"data", "rcv"} /\ card.cnt = 0
      BY <1>1, <1>2, <1>8 DEF IInv, Transferring, LastBlock
    <2>3. After' => Resting' /\ card'.cnt = 0
      BY <1>1, <1>5, <1>8, <2>2 DEF Empty, Resting, DataEffect, Keeps
    <2>4. call.code \notin DataCodes
      BY <1>8 DEF DataCodes, ReadCodes, WriteCodes
    <2>5. QED
      BY <1>1, <1>2, <1>3, <1>4, <1>5, <1>6, <1>8, <2>1, <2>3, <2>4 DEF Transferring
  <1>9. CASE call.code \in DataCodes
    <2>1. /\ job.c < job.num /\ host.blkcnt = Asks
          /\ (call.code \in ReadCodes) = (job.op = "read")
          /\ (call.code \in {"READ_SINGLE", "WRITE_SINGLE"}) = (Asks = 1)
          /\ CCS => job.c = 0
      BY <1>2, <1>9 DEF IInv, Transferring
    <2>2. Pending /\ ~Errored => /\ Empty /\ card.st = "tran" /\ NoData
                                 /\ card.cnt = IF Counted THEN job.num ELSE 0
      BY <1>1, <1>2, <1>9 DEF IInv, Transferring, LastBlock, Resting
    <2>3. ASSUME After' PROVE card'.cnt = 0 /\ (Reading' \/ Writing')
      <3>1. /\ pc' = "int" /\ Empty /\ card.st = "tran" /\ NoData'
            /\ card.cnt = IF Counted THEN job.num ELSE 0
        BY <1>1, <1>5, <2>2, <2>3
      <3>2. /\ card'.st = IF call.code \in ReadCodes THEN "data" ELSE "rcv"
            /\ card'.cnt = 0
            /\ card'.left = IF call.code \in {"READ_SINGLE", "WRITE_SINGLE"} THEN 1
                            ELSE card.cnt
        BY <1>5, <1>9, <2>3 DEF DataEffect
      <3>3. host'.blk = Asks /\ host'.fifo = <<>> /\ ~host'.asked
        BY <1>1, <2>1, <3>1, <3>2 DEF Empty
      <3>4. "rrdy" \notin host'.int /\ "wrdy" \notin host'.int
        BY <3>1 DEF NoData
      <3>5. Moved = 0 /\ Asks - Moved = Asks
        BY <1>6, <2>1 DEF Moved, Asks
      <3>6. card'.left = IF Open THEN 0 ELSE Asks
        <4>1. CASE Asks = 1
          BY <1>6, <2>1, <3>2, <4>1 DEF Asks, Open
        <4>2. CASE Asks # 1
          <5>1. CCS /\ job.num > 1 /\ Asks = job.num
            BY <1>6, <4>2 DEF Asks
          <5>2. Counted = ~Open
            BY <5>1 DEF Counted, Open
          <5>3. card'.left = card.cnt
            BY <2>1, <3>2, <4>2
          <5>4. QED
            BY <3>1, <5>1, <5>2, <5>3
        <4>3. QED
          BY <4>1, <4>2
      <3>7. CASE job.op = "read"
        <4>1. card'.st = "data"
          BY <2>1, <3>2, <3>7
        <4>2. Reading'
          BY <1>1, <1>4, <3>3, <3>4, <3>5, <3>6, <3>7, <4>1 DEF Reading
        <4>3. QED
          BY <3>2, <4>2
      <3>8. CASE job.op = "write"
        <4>1. card'.st = "rcv"
          BY <2>1, <3>2, <3>8
        <4>2. host'.asked = ("wrdy" \in host'.int)
          <5>1. host'.asked \in BOOLEAN
            BY <1>1 DEF IInv, Typed
          <5>2. QED
            BY <3>3, <3>4, <5>1
        <4>3. Writing'
          BY <1>1, <1>4, <3>3, <3>5, <3>6, <3>8, <4>1, <4>2 DEF Writing
        <4>4. QED
          BY <3>2, <4>3
      <3>9. QED
        BY <1>6, <3>7, <3>8
    <2>4. call.code \notin {"SET_BLOCKCNT", "STOP_TRANS"}
      BY <1>9 DEF DataCodes, ReadCodes, WriteCodes
    <2>5. QED
      BY <1>1, <1>2, <1>3, <1>4, <1>5, <1>6, <2>1, <2>3, <2>4 DEF Transferring
  <1>10. QED
    BY <1>7, <1>8, <1>9 DEF TransferCodes

LEMMA SendCommandStep ==
    ASSUME IInv, CountIsNumber, SendCommand
    PROVE  IInv'
  <1>1. Typed' /\ CardSound' /\ pc' = pc /\ host.cmd # None
    BY SentTyped, Sent DEF IInv
  <1>2. CASE pc \in {"boot", "panic"}
    BY <1>1, <1>2, Down
  <1>3. CASE InCall
    BY <1>1, <1>3, SentInCall, SentInInit, SentInTransfer DEF IInv
  <1>4. QED
    BY <1>1, <1>2, <1>3 DEF IInv, Typed, Under, InCall

\* The SCR or a block comes in, the next block is asked for, goes out, or is lost.
ScrIn == /\ card.st = "scr" /\ card'.st = "tran" /\ card'.left = card.left
         /\ host.fifo = <<>> /\ host'.fifo = <<Scr(card.kind)>>
         /\ host'.int = host.int \cup {"rrdy"} /\ host'.blk = host.blk - 1
         /\ host'.asked = host.asked
Counts(end) == /\ card'.left = IF card.left = 0 THEN 0 ELSE card.left - 1
               /\ card'.st = IF card.left = 1 THEN end ELSE card.st
BlockIn == /\ card.st = "data" /\ Counts("tran")
           /\ host.fifo = <<>> /\ Len(host'.fifo) = 1 /\ "rrdy" \notin host.int
           /\ host'.int = host.int \cup {"rrdy"} /\ host'.blk = host.blk - 1
           /\ host'.asked = host.asked
BlockAsked == /\ card.st = "rcv" /\ card'.st = "rcv" /\ card'.left = card.left
              /\ host.fifo = <<>> /\ host'.fifo = <<>> /\ ~host.asked /\ host'.asked = TRUE
              /\ host'.int = host.int \cup {"wrdy"} /\ host'.blk = host.blk
BlockOut == /\ card.st = "rcv" /\ Counts("prg")
            /\ host.fifo # <<>> /\ host'.fifo = <<>> /\ host'.asked = FALSE
            /\ host'.int = host.int /\ host'.blk = host.blk - 1
BlockLost == /\ card.st \in {"data", "scr", "rcv"} /\ card' = card
             /\ host'.fifo = <<>> /\ host'.asked = FALSE /\ host'.blk = 0
             /\ host'.int = host.int \cup {"dtimeout"} /\ Errored'

LEMMA BlockMoves ==
    ASSUME Typed, MoveBlock
    PROVE  /\ UNCHANGED <<pc, call, drv, job>> /\ host.blk > 0
           /\ DOMAIN host' = DOMAIN host /\ host'.cmd = host.cmd /\ host'.last = host.last
           /\ host'.resp = host.resp /\ host'.blkcnt = host.blkcnt /\ host'.width4 = host.width4
           /\ DOMAIN card' = DOMAIN card /\ card'.kind = card.kind /\ card'.rca = card.rca
           /\ card'.wide = card.wide /\ card'.cnt = card.cnt /\ card'.at \in Blocks
           /\ ScrIn \/ BlockIn \/ BlockAsked \/ BlockOut \/ BlockLost
  <1>1. UNCHANGED <<pc, call, drv, job>> /\ host.blk > 0
    BY DEF MoveBlock
  <1>2. ASSUME NEW end, NEW n, n = Advance(end)
        PROVE  /\ DOMAIN n = DOMAIN card /\ n.kind = card.kind /\ n.rca = card.rca
               /\ n.wide = card.wide /\ n.cnt = card.cnt /\ n.at \in Blocks
               /\ n.left = (IF card.left = 0 THEN 0 ELSE card.left - 1)
               /\ n.st = (IF card.left = 1 THEN end ELSE card.st)
    BY <1>2 DEF Advance, Typed
  <1>3. CASE /\ card.st = "scr" /\ host.fifo = <<>>
             /\ host' = [host EXCEPT !.int = @ \cup {"rrdy"}, !.blk = @ - 1,
                                     !.fifo = <<Scr(card.kind)>>]
             /\ card' = [card EXCEPT !.st = "tran"]
    <2>1. ScrIn
      BY <1>3 DEF ScrIn, Typed
    <2>2. QED
      BY <1>1, <1>3, <2>1 DEF Typed
  <1>4. CASE /\ card.st = "data" /\ host.fifo = <<>> /\ "rrdy" \notin host.int
             /\ host' = [host EXCEPT !.int = @ \cup {"rrdy"}, !.blk = @ - 1,
                                     !.fifo = <<card.mem[card.at]>>]
             /\ card' = Advance("tran")
    <2>1. Counts("tran")
      BY <1>2, <1>4 DEF Counts
    <2>2. host'.fifo = <<card.mem[card.at]>>
      BY <1>4 DEF Typed
    <2>3. Len(host'.fifo) = 1
      BY <2>2
    <2>4. BlockIn
      BY <1>4, <2>1, <2>3 DEF BlockIn, Typed
    <2>5. QED
      BY <1>1, <1>2, <1>4, <2>4 DEF Typed
  <1>5. CASE /\ card.st = "rcv" /\ host.fifo = <<>> /\ ~host.asked /\ card' = card
             /\ host' = [host EXCEPT !.int = @ \cup {"wrdy"}, !.asked = TRUE]
    <2>1. BlockAsked
      BY <1>5 DEF BlockAsked, Typed
    <2>2. QED
      BY <1>1, <1>5, <2>1 DEF Typed
  <1>6. CASE /\ card.st = "rcv" /\ host.fifo # <<>>
             /\ host' = [host EXCEPT !.fifo = <<>>, !.blk = @ - 1, !.asked = FALSE]
             /\ card' = [Advance("prg") EXCEPT !.mem[card.at] = host.fifo[1]]
    <2>1. PICK n : n = Advance("prg")
      OBVIOUS
    <2>2. /\ DOMAIN card' = DOMAIN n /\ card'.kind = n.kind /\ card'.rca = n.rca
          /\ card'.wide = n.wide /\ card'.cnt = n.cnt /\ card'.at = n.at
          /\ card'.left = n.left /\ card'.st = n.st
      BY <1>2, <1>6, <2>1 DEF Typed
    <2>3. Counts("prg")
      BY <1>2, <2>1, <2>2 DEF Counts
    <2>4. BlockOut
      BY <1>6, <2>3 DEF BlockOut, Typed
    <2>5. QED
      BY <1>1, <1>2, <1>6, <2>1, <2>2, <2>4 DEF Typed
  <1>7. CASE /\ card.st \in {"data", "scr", "rcv"} /\ card' = card
             /\ host' = [host EXCEPT !.int = @ \cup {"dtimeout"}, !.blk = 0,
                                     !.fifo = <<>>, !.asked = FALSE]
    <2>1. BlockLost
      BY <1>7 DEF BlockLost, Typed, Errored, Errors
    <2>2. QED
      BY <1>1, <1>7, <2>1 DEF Typed
  <1>8. QED
    BY <1>3, <1>4, <1>5, <1>6, <1>7 DEF MoveBlock

LEMMA MovesTyped ==
    ASSUME IInv, MoveBlock
    PROVE  Typed' /\ CardSound' /\ (Errored => Errored') /\ host.int \subseteq host'.int
  <1>1. /\ UNCHANGED <<pc, call, drv, job>> /\ host.blk > 0
        /\ DOMAIN host' = DOMAIN host /\ host'.cmd = host.cmd
        /\ host'.blkcnt = host.blkcnt /\ host'.width4 = host.width4
        /\ DOMAIN card' = DOMAIN card /\ card'.kind = card.kind /\ card'.rca = card.rca
        /\ card'.wide = card.wide /\ card'.cnt = card.cnt /\ card'.at \in Blocks
        /\ ScrIn \/ BlockIn \/ BlockAsked \/ BlockOut \/ BlockLost
    BY BlockMoves DEF IInv
  <1>2. /\ host'.int \subseteq Errors \cup {"done", "rrdy", "wrdy"} /\ host.int \subseteq host'.int
        /\ host'.asked \in BOOLEAN
    <2>1. host.int \subseteq host'.int /\ host'.int \subseteq host.int \cup {"rrdy", "wrdy", "dtimeout"}
      BY <1>1 DEF ScrIn, BlockIn, BlockAsked, BlockOut, BlockLost
    <2>2. host'.asked \in {TRUE, FALSE, host.asked}
      BY <1>1 DEF ScrIn, BlockIn, BlockAsked, BlockOut, BlockLost
    <2>3. QED
      BY <2>1, <2>2 DEF IInv, Typed, Errors
  <1>3. host'.blk \in 0 .. NBlocks
    BY <1>1, Sizes DEF ScrIn, BlockIn, BlockAsked, BlockOut, BlockLost, IInv, Typed
  <1>4. Len(host'.fifo) <= 1
    <2>1. \/ host'.fifo = <<>> \/ host'.fifo = <<Scr(card.kind)>> \/ Len(host'.fifo) = 1
      BY <1>1 DEF ScrIn, BlockIn, BlockAsked, BlockOut, BlockLost
    <2>2. Len(<<>>) = 0 /\ Len(<<Scr(card.kind)>>) = 1
      OBVIOUS
    <2>3. Len(host'.fifo) \in {0, 1}
      <3>1. CASE host'.fifo = <<>>
        BY <2>2, <3>1
      <3>2. CASE host'.fifo = <<Scr(card.kind)>>
        BY <2>2, <3>2
      <3>3. QED
        BY <2>1, <3>1, <3>2
    <2>4. \A n \in {0, 1} : n <= 1
      OBVIOUS
    <2>5. QED
      BY <2>3, <2>4
  <1>5. /\ card'.left \in Nat
        /\ card'.st \in {"tran", "scr", "data", "rcv", "prg"}
        /\ card.st \in {"scr", "data", "rcv"}
    <2>1. CASE ScrIn \/ BlockAsked \/ BlockLost
      BY <2>1 DEF ScrIn, BlockAsked, BlockLost, IInv, Typed
    <2>2. CASE BlockIn \/ BlockOut
      BY <2>2 DEF BlockIn, BlockOut, Counts, IInv, Typed
    <2>3. QED
      BY <1>1, <2>1, <2>2
  <1>6. Typed'
    BY <1>1, <1>2, <1>3, <1>4, <1>5 DEF IInv, Typed, InCall
  <1>7. CardSound'
    BY <1>1, <1>5 DEF IInv, CardSound
  <1>8. QED
    BY <1>2, <1>6, <1>7 DEF Errored

LEMMA NotEmpty == \A s : Len(s) = 1 => s # <<>>
  <1>1. Len(<<>>) = 0
    OBVIOUS
  <1>2. QED
    BY <1>1

\* The blocks of a transfer, one step on.
LEMMA MovesReading ==
    ASSUME IInv, MoveBlock, Reading, ~Errored', job.num \in 1 .. NBlocks, job.c < job.num
    PROVE  Reading'
  <1>1. /\ UNCHANGED <<pc, call, drv, job>> /\ host.blk > 0
        /\ ScrIn \/ BlockIn \/ BlockAsked \/ BlockOut \/ BlockLost
    BY BlockMoves DEF IInv
  <1>2. Open' = Open /\ Asks' = Asks /\ Moved' = Moved
    BY <1>1 DEF CCS, BlkCnt, Open, Asks, Moved
  <1>3. /\ job.op = "read" /\ ~host.asked /\ card.left = IF Open THEN 0 ELSE host.blk
        /\ card.st \in {"data", "tran"} /\ (host.fifo = <<>> => host.blk = Asks - Moved)
        /\ host.blk \in Nat /\ card.left \in Nat
    BY NotEmpty DEF Reading, IInv, Typed
  <1>4. BlockIn
    BY <1>1, <1>3 DEF ScrIn, BlockIn, BlockAsked, BlockOut, BlockLost
  <1>5. host'.blk = Asks - Moved - 1 /\ "rrdy" \in host'.int /\ Len(host'.fifo) = 1 /\ ~host'.asked
    BY <1>3, <1>4 DEF BlockIn
  <1>6. card'.left = IF Open THEN 0 ELSE host'.blk
    BY <1>1, <1>3, <1>4 DEF BlockIn, Counts
  <1>7. card'.st = IF host'.blk = 0 /\ ~Open THEN "tran" ELSE "data"
    BY <1>1, <1>3, <1>4 DEF BlockIn, Counts
  <1>8. QED
    BY <1>1, <1>2, <1>3, <1>5, <1>6, <1>7 DEF Reading

LEMMA MovesWriting ==
    ASSUME IInv, MoveBlock, Writing, ~Errored', job.num \in 1 .. NBlocks, job.c < job.num
    PROVE  Writing'
  <1>1. /\ UNCHANGED <<pc, call, drv, job>> /\ host.blk > 0
        /\ ScrIn \/ BlockIn \/ BlockAsked \/ BlockOut \/ BlockLost
    BY BlockMoves DEF IInv
  <1>2. Open' = Open /\ Asks' = Asks /\ Moved' = Moved
    BY <1>1 DEF CCS, BlkCnt, Open, Asks, Moved
  <1>3. /\ job.op = "write" /\ card.st = "rcv" /\ card.left = IF Open THEN 0 ELSE host.blk
        /\ host.blk \in Nat /\ card.left \in Nat /\ host.asked \in BOOLEAN
    BY DEF Writing, IInv, Typed
  <1>4. CASE BlockAsked
    <2>1. host'.blk = Asks - Moved /\ host'.fifo = <<>> /\ host'.asked = TRUE /\ "wrdy" \in host'.int
      BY <1>4 DEF Writing, BlockAsked
    <2>2. host'.asked = ("wrdy" \in host'.int)
      BY <2>1
    <2>3. card'.st = "rcv" /\ card'.left = IF Open THEN 0 ELSE host'.blk
      BY <1>3, <1>4 DEF BlockAsked
    <2>4. QED
      BY <1>1, <1>2, <1>3, <2>1, <2>2, <2>3 DEF Writing
  <1>5. CASE BlockOut
    <2>1. host.blk = Asks - Moved + 1 /\ "wrdy" \notin host.int
      BY <1>5 DEF Writing, BlockOut
    <2>2. Asks \in Nat /\ Moved \in Nat /\ Asks - Moved > 0
      BY Sizes DEF Asks, Moved, IInv, Typed
    <2>3. host'.blk = Asks - Moved /\ host'.fifo = <<>> /\ host.blk > 1
      BY <1>5, <2>1, <2>2 DEF BlockOut
    <2>4. host'.asked = ("wrdy" \in host'.int)
      <3>1. ~host'.asked /\ "wrdy" \notin host'.int
        BY <1>5, <2>1 DEF BlockOut
      <3>2. host'.asked \in BOOLEAN
        BY MovesTyped DEF Typed
      <3>3. QED
        BY <3>1, <3>2
    <2>5. card'.st = "rcv" /\ card'.left = IF Open THEN 0 ELSE host'.blk
      BY <1>3, <1>5, <2>3 DEF BlockOut, Counts
    <2>6. QED
      BY <1>1, <1>2, <1>3, <2>3, <2>4, <2>5 DEF Writing
  <1>6. QED
    BY <1>1, <1>3, <1>4, <1>5 DEF ScrIn, BlockIn, BlockLost

\* The last block of a write goes to the card.
LEMMA MovesLast ==
    ASSUME IInv, MoveBlock, LastBlock
    PROVE  \/ Errored' /\ host'.int = host.int \cup {"dtimeout"}
           \/ /\ Empty' /\ card'.left = 0 /\ host'.int = host.int
              /\ card'.st = IF Open THEN "rcv" ELSE "prg"
  <1>1. ScrIn \/ BlockIn \/ BlockAsked \/ BlockOut \/ BlockLost
    BY BlockMoves DEF IInv
  <1>2. host.fifo # <<>>
    BY NotEmpty DEF LastBlock
  <1>3. BlockOut \/ BlockLost
    BY <1>1, <1>2 DEF LastBlock, ScrIn, BlockIn, BlockAsked
  <1>4. CASE BlockLost
    BY <1>4 DEF BlockLost
  <1>5. CASE BlockOut
    BY <1>5 DEF BlockOut, LastBlock, Counts, Empty
  <1>6. QED
    BY <1>3, <1>4, <1>5

LEMMA MoveBlockStep ==
    ASSUME IInv, MoveBlock
    PROVE  IInv'
  <1>1. /\ UNCHANGED <<pc, call, drv, job>> /\ host.blk > 0
        /\ host'.cmd = host.cmd /\ host'.last = host.last /\ host'.resp = host.resp
        /\ host'.blkcnt = host.blkcnt /\ host'.width4 = host.width4
        /\ card'.kind = card.kind /\ card'.wide = card.wide /\ card'.cnt = card.cnt
        /\ ScrIn \/ BlockIn \/ BlockAsked \/ BlockOut \/ BlockLost
    BY BlockMoves DEF IInv
  <1>2. Typed' /\ CardSound' /\ (Errored => Errored') /\ host.int \subseteq host'.int
    BY MovesTyped
  <1>3. /\ InCall' = InCall /\ Pending' = Pending
        /\ \A S : In(S)' <=> In(S)
    BY <1>1 DEF InCall, In, Pending
  <1>4. ("done" \in host'.int) <=> ("done" \in host.int)
    BY <1>1 DEF ScrIn, BlockIn, BlockAsked, BlockOut, BlockLost
  <1>5. After' => After
    <2>1. ~Errored' => ~Errored
      BY <1>2
    <2>2. QED
      BY <1>1, <1>4, <2>1 DEF After, Errored
  <1>6. ~Empty
    BY <1>1 DEF Empty
  <1>7. Under'
    BY <1>1, <1>4 DEF IInv, Under, Sending
  <1>8. /\ CCS' = CCS /\ BlkCnt' = BlkCnt /\ Open' = Open /\ Counted' = Counted
        /\ Asks' = Asks /\ Moved' = Moved
    BY <1>1 DEF CCS, BlkCnt, Open, Counted, Asks, Moved
  <1>9. /\ ~In(InitCodes \ {"SEND_SCR", "SET_BUS_WIDTH"})
        /\ In({"SET_BUS_WIDTH"}) => ~Pending /\ ~After
        /\ In({"SEND_SCR"}) => ~Pending
        /\ In({"SET_BLOCKCNT"}) => ~Pending /\ ~After
        /\ In({"STOP_TRANS"}) => ~After
    BY <1>6 DEF IInv, Identifying, BusWidth, SendScr, Transferring, Resting
  <1>10. Identifying' /\ IfCond' /\ OpCond' /\ SendCid' /\ RelAddr' /\ CardSelect'
    BY <1>3, <1>9 DEF Identifying, IfCond, OpCond, SendCid, RelAddr, CardSelect, In, InitCodes
  <1>11. InitWidth' /\ BusWidth' /\ Learned'
    <2>1. InitWidth'
      BY <1>1, <1>3 DEF IInv, InitWidth
    <2>2. Scr(card'.kind) = Scr(card.kind)
      BY <1>1
    <2>3. BusWidth'
      BY <1>1, <1>3, <1>5, <1>9, <2>2 DEF IInv, BusWidth
    <2>4. Learned'
      BY <1>1, <1>3, <2>2 DEF IInv, Learned
    <2>5. QED
      BY <2>1, <2>3, <2>4
  <1>12. SendScr'
    <2>1. ScrMoves => ScrMoves'
      <3>1. CASE Errored
        BY <1>2, <3>1 DEF ScrMoves
      <3>2. CASE ~Errored
        <4>1. SUFFICES ASSUME ScrMoves PROVE ScrMoves'
          OBVIOUS
        <4>2. host.blk = 1 /\ card.st = "scr" /\ ~host.asked
          BY <1>1, <3>2, <4>1 DEF ScrMoves
        <4>3. CASE BlockLost
          BY <4>3 DEF BlockLost, ScrMoves
        <4>4. CASE ScrIn
          BY <1>1, <4>2, <4>4 DEF ScrIn, ScrMoves
        <4>5. QED
          BY <1>1, <4>2, <4>3, <4>4 DEF BlockIn, BlockAsked, BlockOut
      <3>3. QED
        BY <3>1, <3>2
    <2>2. QED
      BY <1>1, <1>3, <1>5, <1>9, <2>1 DEF IInv, SendScr
  <1>13. Transferring'
    <2>1. ASSUME (In(DataCodes) /\ After) \/ pc = "data"
          PROVE  Errored' \/ (card'.cnt = 0 /\ (Reading' \/ Writing'))
      <3>1. job.num \in 1 .. NBlocks /\ job.c < job.num
        BY <2>1 DEF IInv, Transferring, In, TransferCodes
      <3>2. Errored \/ (card.cnt = 0 /\ (Reading \/ Writing))
        BY <2>1 DEF IInv, Transferring
      <3>3. QED
        BY <1>1, <1>2, <3>1, <3>2, MovesReading, MovesWriting
    <2>2. ASSUME In(DataCodes), Pending
          PROVE  \/ Errored'
                 \/ Resting' /\ NoData' /\ card'.cnt = IF Counted THEN job.num ELSE 0
      <3>1. Errored \/ (LastBlock /\ NoData /\ ~Open /\ ~Counted /\ card.cnt = 0)
        BY <1>6, <2>2 DEF IInv, Transferring, Resting
      <3>2. QED
        BY <1>1, <1>2, <3>1, MovesLast DEF Resting, NoData
    <2>3. ASSUME In({"STOP_TRANS"}), Pending
          PROVE  Errored' \/ (Empty' /\ card'.st \in {"data", "rcv"} /\ card'.left = 0 /\ card'.cnt = 0)
      <3>1. Open /\ (Errored \/ (LastBlock /\ card.cnt = 0))
        BY <1>6, <2>3 DEF IInv, Transferring
      <3>2. QED
        BY <1>1, <1>2, <3>1, MovesLast
    <2>4. ASSUME pc = "up"
          PROVE  Errored' \/ (Resting' /\ card'.cnt = 0)
      <3>1. Errored \/ (LastBlock /\ card.cnt = 0 /\ ~Open)
        BY <1>6, <2>4 DEF IInv, Transferring, Resting
      <3>2. QED
        BY <1>1, <1>2, <3>1, MovesLast DEF Resting
    <2>5. QED
      BY <1>1, <1>3, <1>5, <1>8, <1>9, <2>1, <2>2, <2>3, <2>4 DEF IInv, Transferring
  <1>14. QED
    BY <1>2, <1>7, <1>10, <1>11, <1>12, <1>13 DEF IInv

LEMMA CardProgrammedStep ==
    ASSUME IInv, CardProgrammed
    PROVE  IInv'
  <1>1. /\ card.st = "prg" /\ card' = [card EXCEPT !.st = "tran"]
        /\ UNCHANGED <<pc, call, drv, host, job>>
    BY DEF CardProgrammed
  <1>2. /\ DOMAIN card' = DOMAIN card /\ card'.st = "tran" /\ card'.kind = card.kind
        /\ card'.rca = card.rca /\ card'.wide = card.wide /\ card'.cnt = card.cnt
        /\ card'.at = card.at /\ card'.left = card.left
    BY <1>1 DEF IInv, Typed
  <1>3. Typed' /\ Under' /\ CardSound'
    BY <1>1, <1>2 DEF IInv, Typed, Under, CardSound, InCall, Sending
  <1>4. /\ \A S : In(S)' <=> In(S)
        /\ Pending' = Pending /\ After' = After /\ Empty' = Empty /\ NoData' = NoData
        /\ Errored' = Errored /\ Answer' = Answer
    BY <1>1 DEF In, InCall, Pending, After, Empty, NoData, Errored, Answer
  <1>5. /\ CCS' = CCS /\ BlkCnt' = BlkCnt /\ Open' = Open /\ Counted' = Counted
        /\ Asks' = Asks /\ Moved' = Moved
    BY <1>1 DEF CCS, BlkCnt, Open, Counted, Asks, Moved
  <1>6. /\ Identifying' /\ InitWidth' /\ IfCond' /\ OpCond' /\ SendCid' /\ RelAddr' /\ CardSelect'
    BY <1>1, <1>2, <1>4 DEF IInv, Identifying, InitWidth, IfCond, OpCond, SendCid, RelAddr, CardSelect
  <1>7. SendScr' /\ BusWidth' /\ Learned'
    <2>1. Scr(card'.kind) = Scr(card.kind)
      BY <1>2
    <2>2. SendScr'
      BY <1>1, <1>2, <1>4 DEF IInv, SendScr, ScrMoves
    <2>3. BusWidth' /\ Learned'
      BY <1>1, <1>2, <1>4, <2>1 DEF IInv, BusWidth, Learned
    <2>4. QED
      BY <2>2, <2>3
  <1>8. Transferring'
    <2>1. ~LastBlock /\ ~Reading /\ ~Writing
      BY <1>1 DEF LastBlock, Reading, Writing
    <2>2. Resting => Resting'
      BY <1>1, <1>2 DEF Resting, Empty
    <2>3. QED
      BY <1>1, <1>2, <1>4, <1>5, <2>1, <2>2 DEF IInv, Transferring
  <1>9. QED
    BY <1>3, <1>6, <1>7, <1>8 DEF IInv

LEMMA Stutter ==
    ASSUME IInv, UNCHANGED vars
    PROVE  IInv'
  <1>1. UNCHANGED <<pc, call, drv, host, card, job>>
    BY DEF vars
  <1>2. \A S : In(S)' <=> In(S)
    BY <1>1 DEF In, InCall
  <1>3. Typed' /\ Under' /\ CardSound' /\ Identifying' /\ InitWidth'
    BY <1>1, <1>2 DEF IInv, Typed, Under, CardSound, Identifying, InitWidth, InCall, Sending, Empty
  <1>4. /\ Pending' = Pending /\ After' = After /\ Empty' = Empty /\ NoData' = NoData
        /\ Errored' = Errored /\ Answer' = Answer /\ Resting' = Resting
    BY <1>1 DEF Pending, After, Empty, NoData, Errored, Answer, Resting
  <1>5. IfCond' /\ OpCond' /\ SendCid' /\ RelAddr' /\ CardSelect'
    BY <1>1, <1>2, <1>4 DEF IInv, IfCond, OpCond, SendCid, RelAddr, CardSelect
  <1>6. SendScr' /\ BusWidth' /\ Learned'
    BY <1>1, <1>2, <1>4 DEF IInv, SendScr, ScrMoves, BusWidth, Learned
  <1>7. /\ CCS' = CCS /\ BlkCnt' = BlkCnt /\ Open' = Open /\ Counted' = Counted
        /\ Asks' = Asks /\ Moved' = Moved
    BY <1>1 DEF CCS, BlkCnt, Open, Counted, Asks, Moved
  <1>8. LastBlock' = LastBlock /\ Reading' = Reading /\ Writing' = Writing
    BY <1>1, <1>7 DEF LastBlock, Reading, Writing
  <1>9. Transferring'
    BY <1>1, <1>2, <1>4, <1>7, <1>8 DEF IInv, Transferring
  <1>10. QED
    BY <1>3, <1>5, <1>6, <1>9 DEF IInv

\* The controller holds no command but the ones sd_cmd gave it.
LEMMA CountStep ==
    ASSUME IInv, CountIsNumber, [Next]_vars
    PROVE  CountIsNumber'
  <1>1. None.code = "none"
    BY DEF None
  <1>2. CASE CmdIssue
    <2>1. pc = "status" /\ host'.cmd = Sending
      BY <1>2 DEF CmdIssue, IInv, Typed
    <2>2. call.code = "SET_BLOCKCNT" => call.arg = job.num /\ job.num \in Nat
      BY <2>1 DEF IInv, Typed, Transferring, In, InCall
    <2>3. QED
      BY <2>1, <2>2 DEF CountIsNumber, Sending
  <1>3. CASE SendCommand
    BY <1>1, <1>3, Sent DEF IInv, CountIsNumber
  <1>4. CASE MoveBlock
    BY <1>4, BlockMoves DEF IInv, CountIsNumber
  <1>5. CASE InitStart \/ Reboot
    <2>1. host'.cmd = None
      BY <1>5 DEF InitStart, Reboot, IInv, Typed
    <2>2. QED
      BY <1>1, <2>1 DEF CountIsNumber
  <1>6. ASSUME host' = host \/ host'.cmd = host.cmd PROVE CountIsNumber'
    BY <1>6 DEF CountIsNumber
  <1>7. CASE CmdBusy \/ CmdDone \/ CmdExpires
    <2>1. host' = host \/ host'.cmd = host.cmd
      BY <1>7 DEF CmdBusy, CmdDone, CmdExpires, IInv, Typed
    <2>2. QED
      BY <1>6, <2>1
  <1>8. CASE \/ InitNoReset \/ InitFails \/ AskVersion \/ AskCondition \/ ConditionFails
             \/ AskCid \/ AskAddress \/ ClockFails \/ AwaitScr \/ Asked \/ Stopped
             \/ CardProgrammed \/ UNCHANGED vars
    <2>1. host' = host
      BY <1>8 DEF InitNoReset, InitFails, AskVersion, AskCondition, ConditionFails, AskCid,
         AskAddress, ClockFails, AwaitScr, Asked, Stopped, CardProgrammed, vars
    <2>2. QED
      BY <1>6, <2>1
  <1>9. CASE Select \/ AskScr \/ ReadScr \/ Widen
    <2>1. host' = host \/ host'.cmd = host.cmd
      BY <1>9 DEF Select, AskScr, ReadScr, Widen, IInv, Typed
    <2>2. QED
      BY <1>6, <2>1
  <1>10. CASE CountSet \/ TransferBlock \/ TransferFails
    <2>1. host' = host \/ host'.cmd = host.cmd
      BY <1>10 DEF CountSet, AskData, TransferBlock, TransferFails, IInv, Typed
    <2>2. QED
      BY <1>6, <2>1
  <1>11. ASSUME NEW t \in Transfers, TransferStart(t)
         PROVE  CountIsNumber'
    <2>1. host' = host \/ host'.cmd = host.cmd
      BY <1>11 DEF TransferStart, AskData, IInv, Typed
    <2>2. QED
      BY <1>6, <2>1
  <1>12. QED
    BY <1>2, <1>3, <1>4, <1>5, <1>7, <1>8, <1>9, <1>10, <1>11 DEF Next, Driver, Hardware

LEMMA StepInv ==
    ASSUME IInv, CountIsNumber, [Next]_vars
    PROVE  IInv'
  <1>1. CASE CmdIssue \/ CmdBusy \/ CmdDone \/ CmdExpires
    BY <1>1, CmdIssueStep, CmdReturnStep
  <1>2. CASE InitNoReset \/ InitFails \/ ConditionFails \/ ClockFails \/ TransferFails
    BY <1>2, FailStep
  <1>3. CASE InitStart \/ AskVersion \/ AskCondition \/ AskCid \/ AskAddress \/ Select
    BY <1>3, InitStartStep, AskVersionStep, AskConditionStep, AskCidStep, AskAddressStep,
       SelectStep
  <1>4. CASE AskScr \/ AwaitScr \/ ReadScr \/ Widen
    BY <1>4, AskScrStep, AwaitScrStep, ReadScrStep, WidenStep
  <1>5. CASE CountSet \/ Asked \/ TransferBlock \/ Stopped
    BY <1>5, CountSetStep, AskedStep, TransferBlockStep, StoppedStep
  <1>6. CASE SendCommand \/ MoveBlock \/ CardProgrammed
    BY <1>6, SendCommandStep, MoveBlockStep, CardProgrammedStep
  <1>7. CASE Reboot \/ UNCHANGED vars
    BY <1>7, RebootStep, Stutter
  <1>8. ASSUME NEW t \in Transfers, TransferStart(t)
        PROVE  IInv'
    BY <1>8, TransferStartStep
  <1>9. QED
    BY <1>1, <1>2, <1>3, <1>4, <1>5, <1>6, <1>7, <1>8 DEF Next, Driver, Hardware

\* The inductive invariant holds: at every point of sd_init, of a transfer and
\* of a command under way, what driver, controller and card hold fits together.
THEOREM Invariant == Spec => [](IInv /\ CountIsNumber)
  <1>1. Init => IInv /\ CountIsNumber
    <2>1. Init => host.cmd = None
      BY DEF Init
    <2>2. None.code = "none"
      BY DEF None
    <2>3. QED
      BY <2>1, <2>2, InitInv DEF CountIsNumber
  <1>2. IInv /\ CountIsNumber /\ [Next]_vars => (IInv /\ CountIsNumber)'
    BY StepInv, CountStep
  <1>3. QED
    BY <1>1, <1>2, PTL DEF Spec
-----------------------------------------------------------------------------
(* What the blocks hold *)

Fcn(f) == f = [b \in Blocks |-> f[b]]

\* The driver is in a transfer that has not failed.
Busy == pc \in {"data", "up"} \/ (In(TransferCodes) /\ (Pending \/ After))
Moving == pc = "data" \/ (In(DataCodes) /\ After)

\* The card's blocks once the one in the controller's buffer is on it, and those
\* it should have when n blocks of the present write are.
Image == IF card.st = "rcv" /\ host.fifo # <<>>
         THEN [card.mem EXCEPT ![card.at] = host.fifo[1]] ELSE card.mem
Target(n) == [b \in Blocks |-> IF b - job.lba \in 0 .. n - 1 THEN Content(b - job.lba)
                               ELSE hist.disk[b]]

\* A job is there from the start of a transfer to the next panic or restart, and
\* a data command names the next block of it.
JobSound ==
    /\ DOMAIN hist = {"faults", "resets", "next", "disk"} /\ Fcn(card.mem) /\ Fcn(hist.disk)
    /\ job.op \in {"none", "read", "write"}
    /\ job.op # "none" => /\ job.lba \in Nat /\ job.num \in Nat /\ job.lba + job.num <= NBlocks
                          /\ pc \in {"data", "up"} \/ In(TransferCodes)
    /\ In(DataCodes) => call.arg = Command(job)[2]
    /\ pc = "boot" => host.cmd = None

\* Outside writes no block goes to the card.
Still ==
    job.op # "write" /\ pc # "panic" =>
        card.mem = hist.disk /\ ~(card.st = "rcv" /\ host.blk > 0)

Landing ==
    job.op = "write" /\ Busy /\ ~Errored =>
        Image = IF pc = "up" THEN hist.disk ELSE Target(job.c)

\* The card is at the block that comes next.
Placed ==
    Moving /\ ~Errored =>
        /\ host.fifo = <<>> => card.at = job.lba + job.c
        /\ host.fifo # <<>> /\ job.op = "write" => card.at = job.lba + job.c - 1
        /\ host.fifo # <<>> /\ job.op = "read" =>
             /\ host.fifo[1] = hist.disk[job.lba + job.c]
             /\ host.blk > 0 => card.at = job.lba + job.c + 1

Buffered ==
    job.op = "read" =>
        /\ job.buf = [i \in 1 .. job.c |-> hist.disk[job.lba + i - 1]]
        /\ pc = "up" => job.c = job.num

DataInv == JobSound /\ Still /\ Landing /\ Placed /\ Buffered

LEMMA FaultKeeps ==
    ASSUME DOMAIN hist = {"faults", "resets", "next", "disk"}, Fault \/ UNCHANGED hist
    PROVE  /\ DOMAIN hist' = {"faults", "resets", "next", "disk"}
           /\ hist'.disk = hist.disk /\ hist'.next = hist.next
  BY DEF Fault

\* What the blocks are compared with stays the same.
LEMMA SameTarget ==
    ASSUME job'.lba = job.lba, hist'.disk = hist.disk, hist'.next = hist.next
    PROVE  \A n : Target(n)' = Target(n)
  BY DEF Target, Content

LEMMA SameImage ==
    ASSUME card' = card, host'.fifo = host.fifo
    PROVE  Image' = Image
  BY DEF Image

\* Steps of sd_init: there is no job.
LEMMA CalmInit ==
    ASSUME DataInv, job.op = "none", pc # "panic", card' = card, job' = job,
           DOMAIN hist' = DOMAIN hist, hist'.disk = hist.disk,
           pc' \notin {"boot", "panic", "data"}, ~In(DataCodes)', host'.blk \in {host.blk, 0}
    PROVE  DataInv'
  <1>1. JobSound'
    BY DEF DataInv, JobSound, Fcn
  <1>2. Still'
    BY DEF DataInv, Still
  <1>3. Landing' /\ Placed' /\ Buffered'
    BY DEF Landing, Placed, Buffered, Moving
  <1>4. QED
    BY <1>1, <1>2, <1>3 DEF DataInv

\* Steps of a transfer that move no block.
LEMMA CalmTransfer ==
    ASSUME IInv, DataInv, job.op # "none", card' = card, job' = job,
           DOMAIN hist' = DOMAIN hist, hist'.disk = hist.disk, hist'.next = hist.next,
           pc \notin {"panic", "up"}, pc' \notin {"boot", "panic", "up"},
           pc' = "data" \/ In(TransferCodes)',
           In(DataCodes)' => call'.arg = Command(job)[2], CCS' = CCS,
           host'.blk = host.blk, host'.fifo = host.fifo,
           ~Errored' => ~Errored \/ ~Busy',
           Busy' /\ ~Errored' => Busy, Moving' /\ ~Errored' => Moving
    PROVE  DataInv'
  <1>1. JobSound'
    <2>1. In(DataCodes)' => call'.arg = Command(job)[2]'
      BY DEF Command
    <2>2. QED
      BY <2>1 DEF DataInv, JobSound, Fcn
  <1>2. Still'
    BY DEF DataInv, Still
  <1>3. Landing'
    BY SameTarget, SameImage DEF DataInv, Landing
  <1>4. Placed'
    <2>1. Moving' => Busy'
      BY DEF Moving, Busy, In, TransferCodes
    <2>2. Moving' /\ ~Errored' => Moving /\ ~Errored
      BY <2>1
    <2>3. QED
      BY <2>2 DEF DataInv, Placed
  <1>5. Buffered'
    BY DEF DataInv, Buffered
  <1>6. QED
    BY <1>1, <1>2, <1>3, <1>4, <1>5 DEF DataInv

LEMMA NoJobInInit ==
    ASSUME IInv, DataInv, pc \in {"boot", "scr"} \/ In(InitCodes)
    PROVE  job.op = "none"
  BY DEF DataInv, JobSound, In, InCall, InitCodes, TransferCodes, DataCodes, ReadCodes, WriteCodes

\* A call ends in a panic.
LEMMA PanicData ==
    ASSUME DataInv, NEW e, Fails(e), card' = card, Fault \/ UNCHANGED hist
    PROVE  DataInv'
  <1>1. /\ DOMAIN hist' = {"faults", "resets", "next", "disk"}
        /\ hist'.disk = hist.disk /\ hist'.next = hist.next
    BY FaultKeeps DEF DataInv, JobSound
  <1>2. pc' = "panic" /\ job'.op = "none"
    BY DEF Fails, NoJob
  <1>3. QED
    BY <1>1, <1>2 DEF DataInv, JobSound, Fcn, Still, Landing, Placed, Buffered, Moving, In, InCall

LEMMA FailData ==
    ASSUME DataInv, InitNoReset \/ InitFails \/ ConditionFails \/ ClockFails \/ TransferFails
    PROVE  DataInv'
  <1>1. PICK e : Fails(e)
    BY DEF InitNoReset, InitFails, ConditionFails, ClockFails, TransferFails
  <1>2. card' = card /\ (Fault \/ UNCHANGED hist)
    BY DEF InitNoReset, InitFails, ConditionFails, ClockFails, TransferFails, Same
  <1>3. QED
    BY <1>1, <1>2, PanicData

LEMMA RebootData ==
    ASSUME IInv, DataInv, Reboot
    PROVE  DataInv'
  <1>1. /\ pc' = "boot" /\ job' = NoJob /\ card' = card
        /\ host' = [host EXCEPT !.fifo = <<>>, !.cmd = None, !.blk = 0, !.blkcnt = 0,
                                !.last = None, !.resp = NoAnswer]
    BY DEF Reboot
  <1>2. host'.blk = 0 /\ host'.cmd = None /\ job'.op = "none"
    BY <1>1 DEF IInv, Typed, NoJob
  <1>3. DOMAIN hist' = {"faults", "resets", "next", "disk"} /\ hist'.disk = card.mem
    BY DEF Reboot, DataInv, JobSound
  <1>4. QED
    BY <1>1, <1>2, <1>3 DEF DataInv, JobSound, Fcn, Still, Landing, Placed, Buffered, Moving,
       In, InCall

LEMMA StutterData ==
    ASSUME DataInv, UNCHANGED vars
    PROVE  DataInv'
  <1>1. UNCHANGED <<pc, call, drv, host, card, job, hist>>
    BY DEF vars
  <1>2. /\ \A S : In(S)' <=> In(S)
        /\ Pending' = Pending /\ After' = After /\ Errored' = Errored
    BY <1>1 DEF In, InCall, Pending, After, Errored
  <1>3. (Busy' <=> Busy) /\ (Moving' <=> Moving) /\ CCS' = CCS
    BY <1>1, <1>2 DEF Busy, Moving, CCS
  <1>4. JobSound' /\ Still'
    BY <1>1, <1>2, <1>3 DEF DataInv, JobSound, Still, Fcn, Command
  <1>5. Landing' /\ Placed' /\ Buffered'
    BY <1>1, <1>2, <1>3, SameTarget, SameImage DEF DataInv, Landing, Placed, Buffered
  <1>6. QED
    BY <1>4, <1>5 DEF DataInv

\* The steps of sd_init.
LEMMA InitData ==
    ASSUME IInv, DataInv,
           \/ InitStart \/ AskVersion \/ AskCondition \/ AskCid \/ AskAddress
           \/ Select \/ AskScr \/ AwaitScr \/ ReadScr \/ Widen
    PROVE  DataInv'
  <1>1. \/ pc \in {"boot", "scr"}
        \/ pc = "ret" /\ call.code \in InitCodes
    BY DEF InitStart, AskVersion, AskCondition, AskCid, AskAddress, Select, AskScr, AwaitScr,
       ReadScr, Widen, Returned, InitCodes
  <1>2. job.op = "none" /\ pc # "panic"
    BY <1>1, NoJobInInit DEF In, InCall
  <1>3. card' = card
    BY DEF InitStart, AskVersion, AskCondition, AskCid, AskAddress, Select, AskScr, AwaitScr,
       ReadScr, Widen, Same
  <1>4. CASE \E e : Fails(e)
    <2>1. Fault \/ UNCHANGED hist
      BY DEF InitStart, AskVersion, AskCondition, AskCid, AskAddress, Select, AskScr, AwaitScr,
         ReadScr, Widen, Same, StatusFails
    <2>2. QED
      BY <1>3, <1>4, <2>1, PanicData
  <1>5. CASE ~\E e : Fails(e)
    <2>1. job' = job /\ hist' = hist
      BY <1>5 DEF InitStart, AskVersion, AskCondition, AskCid, AskAddress, Select, AskScr,
         AwaitScr, ReadScr, Widen, Same
    <2>2. host'.blk \in {host.blk, 0}
      BY <1>5 DEF InitStart, AskVersion, AskCondition, AskCid, AskAddress, Select, AskScr,
         AwaitScr, ReadScr, Widen, IInv, Typed
    <2>3. pc' \in {"scr", "up"} \/ \E code \in InitCodes : \E arg : sd_cmd(code, arg)
      BY <1>5 DEF InitStart, AskVersion, AskCondition, AskCid, AskAddress, Select, AskScr,
         AwaitScr, ReadScr, Widen, InitDone, InitCodes
    <2>4. pc' \notin {"boot", "panic", "data"} /\ ~In(DataCodes)'
      BY <2>3 DEF sd_cmd, In, InCall, InitCodes, DataCodes, ReadCodes, WriteCodes
    <2>5. QED
      BY <1>2, <1>3, <2>1, <2>2, <2>4, CalmInit
  <1>6. QED
    BY <1>4, <1>5

\* sd_cmd gives its command to the controller, or returns.
LEMMA CmdData ==
    ASSUME IInv, DataInv, CmdIssue \/ CmdBusy \/ CmdDone \/ CmdExpires
    PROVE  DataInv'
  <1>1. /\ pc \in {"status", "int"} /\ card' = card /\ job' = job /\ (Fault \/ UNCHANGED hist)
    BY DEF CmdIssue, CmdBusy, CmdDone, CmdExpires, StatusFails
  <1>2. /\ DOMAIN hist' = DOMAIN hist /\ hist'.disk = hist.disk /\ hist'.next = hist.next
    BY <1>1, FaultKeeps DEF DataInv, JobSound
  <1>3. host'.blk = host.blk /\ host'.fifo = host.fifo
    BY DEF CmdIssue, CmdBusy, CmdDone, CmdExpires, IInv, Typed
  <1>4. /\ call'.code = call.code /\ call'.arg = call.arg /\ pc' \in {"status", "int", "ret"}
        /\ drv'.scr = drv.scr
    BY DEF CmdIssue, CmdBusy, CmdDone, CmdExpires, Returns, IInv, Typed
  <1>5. /\ In(DataCodes)' = In(DataCodes) /\ In(TransferCodes)' = In(TransferCodes)
        /\ CCS' = CCS /\ InCall
    BY <1>1, <1>4 DEF In, InCall, CCS
  <1>6. CASE job.op = "none"
    <2>1. ~In(DataCodes)
      BY <1>6 DEF IInv, Transferring, In, TransferCodes
    <2>2. QED
      BY <1>1, <1>2, <1>3, <1>4, <1>5, <1>6, <2>1, CalmInit
  <1>7. CASE job.op # "none"
    <2>1. In(TransferCodes)
      BY <1>1, <1>7 DEF DataInv, JobSound
    <2>2. call.stage = "main"
      BY <1>1, <2>1 DEF IInv, Under, Typed, In, TransferCodes, DataCodes, ReadCodes, WriteCodes,
         AppCodes
    <2>3. CASE CmdIssue
      <3>1. /\ pc = "status" /\ ~Errored /\ pc' = "int" /\ host'.cmd = Sending
        BY <2>3 DEF CmdIssue, StatusOK, Errored, IInv, Typed
      <3>2. ~After' /\ Pending
        BY <1>5, <3>1, SendingIsCommand DEF After, Pending, IInv
      <3>3. Busy /\ ~Moving'
        BY <2>1, <3>1, <3>2 DEF Busy, Moving
      <3>4. QED
        BY <1>1, <1>2, <1>3, <1>4, <1>5, <1>7, <2>1, <3>1, <3>3, CalmTransfer
           DEF DataInv, JobSound
    <2>4. CASE CmdBusy \/ CmdDone \/ CmdExpires
      <3>1. pc' = "ret" /\ host'.cmd = host.cmd /\ call'.stage = call.stage
        BY <2>2, <2>4 DEF CmdBusy, CmdDone, CmdExpires, Returns, IInv, Typed
      <3>2. ~Pending'
        BY <3>1 DEF Pending
      <3>3. drv'.err = "OK" => pc = "int" /\ "done" \in host.int /\ ~Errored
        <4>1. CASE CmdBusy \/ CmdExpires
          BY <2>2, <4>1 DEF CmdBusy, CmdExpires, Returns, IInv, Typed
        <4>2. CASE CmdDone
          <5>1. CASE Errored
            <6>1. PICK e \in {"TIMEOUT", "ERROR"} : Returns(NoAnswer, e)
              BY <4>2, <5>1, IntOK DEF CmdDone, IInv
            <6>2. QED
              BY <2>2, <6>1 DEF Returns, IInv, Typed
          <5>2. CASE ~Errored
            <6>1. pc = "int" /\ Sees({"done"})
              BY <4>2 DEF CmdDone
            <6>2. host.int \cap {"done"} # {}
              BY <5>2, <6>1, IntOK DEF IInv
            <6>3. QED
              BY <5>2, <6>1, <6>2
          <5>3. QED
            BY <5>1, <5>2
        <4>3. QED
          BY <2>4, <4>1, <4>2
      <3>4. After' => After /\ ~Errored
        BY <2>2, <3>1, <3>3 DEF After, Errored
      <3>5. Busy' => Busy /\ ~Errored
        BY <1>4, <1>5, <3>2, <3>4 DEF Busy
      <3>6. Moving' => Moving
        BY <1>4, <1>5, <3>4 DEF Moving
      <3>7. QED
        BY <1>1, <1>2, <1>3, <1>4, <1>5, <1>7, <2>1, <3>1, <3>5, <3>6, CalmTransfer
           DEF DataInv, JobSound
    <2>5. QED
      BY <2>3, <2>4
  <1>8. QED
    BY <1>6, <1>7

LEMMA CountSetData ==
    ASSUME IInv, DataInv, CountSet
    PROVE  DataInv'
  <1>1. /\ pc = "ret" /\ call.code = "SET_BLOCKCNT" /\ drv.err = "OK"
        /\ AskData(job) /\ drv' = Ok /\ UNCHANGED <<card, job, hist>>
    BY DEF CountSet, Returned, Same
  <1>2. In(TransferCodes) /\ After
    BY <1>1, Succeeded DEF In, InCall, TransferCodes
  <1>3. Busy
    BY <1>2 DEF Busy
  <1>4. job.op \in {"read", "write"} /\ job.num \in 1 .. NBlocks
    BY <1>2 DEF IInv, Transferring
  <1>5. Command(job)[1] \in DataCodes
    BY <1>4, CommandCode
  <1>6. /\ pc' = "status" /\ call'.code = Command(job)[1] /\ call'.arg = Command(job)[2]
    BY <1>1 DEF AskData, sd_cmd
  <1>7. In(TransferCodes)' /\ ~After' /\ ~Moving'
    BY <1>5, <1>6 DEF In, InCall, TransferCodes, After, Moving
  <1>8. /\ host'.blk = host.blk /\ host'.fifo = host.fifo /\ host'.int = host.int
        /\ drv'.scr = drv.scr
    BY <1>1 DEF AskData, Ok, IInv, Typed
  <1>9. CCS' = CCS /\ Errored' = Errored
    BY <1>8 DEF CCS, Errored
  <1>10. QED
    BY <1>1, <1>3, <1>4, <1>6, <1>7, <1>8, <1>9, CalmTransfer

LEMMA AskedData ==
    ASSUME IInv, DataInv, Asked
    PROVE  DataInv'
  <1>1. /\ pc = "ret" /\ call.code \in DataCodes /\ drv.err = "OK"
        /\ pc' = "data" /\ UNCHANGED <<card, call, drv, host, job, hist>>
    BY DEF Asked, Same, DataCodes
  <1>2. In(DataCodes) /\ In(TransferCodes) /\ After /\ ~In(DataCodes)'
    BY <1>1, Succeeded DEF In, InCall, TransferCodes
  <1>3. Busy /\ Moving
    BY <1>2 DEF Busy, Moving
  <1>4. job.op \in {"read", "write"}
    BY <1>2 DEF IInv, Transferring
  <1>5. CCS' = CCS /\ Errored' = Errored
    BY <1>1 DEF CCS, Errored
  <1>6. QED
    BY <1>1, <1>2, <1>3, <1>4, <1>5, CalmTransfer

\* A command writes no block; a data command names the card's next one, and
\* only a write command makes the card expect data.
LEMMA ObeyedData ==
    ASSUME Typed, NEW c, Accepts(c), NEW out \in Obeys(c)
    PROVE  /\ out[1].mem = card.mem
           /\ c.code \in DataCodes => out[1].at = AddressOf(card.kind, c.arg)
           /\ c.code \in Codes \cup {"APP_CMD"} /\ out[1].st = "rcv" => c.code \in WriteCodes
  <1> USE DEF ReadCodes, WriteCodes, DataCodes
  <1>1. CASE c.code = "GO_IDLE"
    <2>1. out[1] = PowerUp(card.kind, card.mem)
      BY <1>1 DEF Obeys
    <2>2. QED
      BY <1>1, <2>1 DEF PowerUp
  <1>2. CASE c.code = "APP_CMD"
    <2>1. out[1] = [card EXCEPT !.app = TRUE] /\ card.st # "rcv"
      BY <1>2 DEF Obeys, Accepts
    <2>2. QED
      BY <1>2, <2>1 DEF Typed
  <1>3. CASE c.code = "SEND_OP_COND"
    <2>1. \/ out[1] = [[card EXCEPT !.app = FALSE] EXCEPT !.st = "idle"]
          \/ out[1] = [[card EXCEPT !.app = FALSE] EXCEPT !.st = "ready"]
      BY <1>3 DEF Obeys
    <2>2. QED
      BY <1>3, <2>1 DEF Typed
  <1>4. CASE c.code = "SEND_REL_ADDR"
    <2>1. out[1] = [[card EXCEPT !.app = FALSE] EXCEPT !.st = "stby", !.rca = 1]
      BY <1>4 DEF Obeys
    <2>2. QED
      BY <1>4, <2>1 DEF Typed
  <1>5. CASE c.code \in {"SET_BUS_WIDTH", "SET_BLOCKCNT"}
    <2>1. \/ out[1] = [[card EXCEPT !.app = FALSE] EXCEPT !.wide = TRUE]
          \/ out[1] = [[card EXCEPT !.app = FALSE] EXCEPT !.cnt = c.arg]
      BY <1>5 DEF Obeys
    <2>2. card.st = "tran"
      BY <1>5 DEF Accepts
    <2>3. QED
      BY <1>5, <2>1, <2>2 DEF Typed
  <1>6. CASE c.code \in DataCodes
    <2>1. PICK st \in {"data", "rcv"} : /\ c.code \in WriteCodes <=> st = "rcv"
            /\ out[1] = [[card EXCEPT !.app = FALSE] EXCEPT
                      !.st = st, !.at = AddressOf(card.kind, c.arg), !.cnt = 0,
                      !.left = IF c.code \in {"READ_SINGLE", "WRITE_SINGLE"} THEN 1
                               ELSE card.cnt]
      BY <1>6 DEF Obeys
    <2>2. QED
      BY <1>6, <2>1 DEF Typed
  <1>7. CASE c.code \in {"ALL_SEND_CID", "CARD_SELECT", "STOP_TRANS", "SEND_SCR"}
    <2>1. PICK st \in {"ident", "prg", "scr"} :
               out[1] = [[card EXCEPT !.app = FALSE] EXCEPT !.st = st]
      <3>1. CASE c.code = "ALL_SEND_CID"
        BY <3>1 DEF Obeys
      <3>2. CASE c.code \in {"CARD_SELECT", "STOP_TRANS"}
        BY <3>2 DEF Obeys
      <3>3. CASE c.code = "SEND_SCR"
        BY <3>3 DEF Obeys
      <3>4. QED
        BY <1>7, <3>1, <3>2, <3>3
    <2>2. QED
      BY <1>7, <2>1 DEF Typed
  <1>8. CASE c.code = "SEND_IF_COND" \/ c.code \notin Codes \cup {"APP_CMD"}
    <2>1. out[1] = [[card EXCEPT !.app = FALSE] EXCEPT !.st = card.st]
      BY <1>8 DEF Obeys, Codes, InitCodes, TransferCodes
    <2>2. c.code = "SEND_IF_COND" => card.st = "idle"
      BY DEF Accepts
    <2>3. QED
      BY <1>8, <2>1, <2>2 DEF Typed, Codes, TransferCodes
  <1>9. QED
    BY <1>1, <1>2, <1>3, <1>4, <1>5, <1>6, <1>7, <1>8 DEF Codes, InitCodes, TransferCodes

\* The same for the command the controller sends.
LEMMA SentData ==
    ASSUME IInv, SendCommand
    PROVE  /\ card'.mem = card.mem /\ (Fault \/ UNCHANGED hist)
           /\ card' # card /\ host.cmd.code \in DataCodes =>
                card'.at = AddressOf(card.kind, host.cmd.arg)
           /\ card' # card /\ host.cmd.code \in Codes \cup {"APP_CMD"} /\ card'.st = "rcv" =>
                host.cmd.code \in WriteCodes
  <1>1. CASE card' = card
    BY <1>1 DEF SendCommand
  <1>2. CASE card' # card
    <2>1. /\ Accepts(host.cmd) /\ (Fault \/ UNCHANGED hist)
          /\ \E out \in Obeys(host.cmd) : card' = out[1]
      BY <1>2 DEF SendCommand
    <2>2. PICK out \in Obeys(host.cmd) : card' = out[1]
      BY <2>1
    <2>3. QED
      BY <2>1, <2>2, ObeyedData DEF IInv
  <1>3. QED
    BY <1>1, <1>2

\* The address in a data command is that of the next block of the job.
LEMMA Addressed ==
    ASSUME IInv, DataInv, In(DataCodes)
    PROVE  AddressOf(card.kind, call.arg) = job.lba + job.c
  <1>1. job.op # "none" /\ (CCS => job.c = 0)
    BY DEF IInv, Transferring, In, TransferCodes
  <1>2. job.lba \in Nat /\ job.c \in Nat /\ BlockSize \in Nat /\ BlockSize > 0
    BY <1>1, SdAssumption DEF DataInv, JobSound, IInv, Typed
  <1>3. CCS = card.kind.hc
    <2>1. drv.scr = Scr(card.kind) \cup (IF card.kind.hc THEN {"CCS"} ELSE {})
      BY DEF IInv, Learned, In, TransferCodes
    <2>2. card.kind.hc \in BOOLEAN
      BY SdAssumption DEF IInv, Typed
    <2>3. QED
      BY <2>1, <2>2, ScrType DEF CCS
  <1>4. call.arg = IF CCS THEN job.lba ELSE (job.lba + job.c) * BlockSize
    BY DEF DataInv, JobSound, Command
  <1>5. ASSUME NEW n \in Nat, NEW s \in Nat, s > 0
        PROVE  (n * s) \div s = n
    BY <1>5
  <1>6. ((job.lba + job.c) * BlockSize) \div BlockSize = job.lba + job.c
    BY <1>2, <1>5
  <1>7. QED
    BY <1>1, <1>2, <1>3, <1>4, <1>6 DEF AddressOf

LEMMA SendCommandData ==
    ASSUME IInv, DataInv, SendCommand
    PROVE  DataInv'
  <1>1. /\ UNCHANGED <<pc, call, drv, job>> /\ host.cmd # None /\ host.blk = 0
        /\ host'.cmd = None /\ host'.fifo = host.fifo
        /\ host'.blk = IF card'.st \in {"scr", "data", "rcv"} /\ card # card'
                       THEN host.blkcnt ELSE 0
        /\ DOMAIN card' = DOMAIN card /\ card'.kind = card.kind
    BY Sent DEF IInv
  <1>2. /\ DOMAIN hist' = {"faults", "resets", "next", "disk"}
        /\ hist'.disk = hist.disk /\ hist'.next = hist.next
    BY SentData, FaultKeeps DEF DataInv, JobSound
  <1>3. card'.mem = card.mem
    BY SentData
  <1>4. pc # "boot" /\ (pc = "panic" \/ InCall)
    BY <1>1 DEF IInv, Typed, Under, InCall, DataInv, JobSound
  <1>5. CCS' = CCS /\ \A S : In(S)' <=> In(S)
    BY <1>1 DEF CCS, In, InCall
  <1>6. JobSound'
    BY <1>1, <1>2, <1>3, <1>5 DEF DataInv, JobSound, Fcn, Command
  <1>7. Still'
    <2>1. SUFFICES ASSUME job.op # "write", pc # "panic", card'.st = "rcv", host'.blk > 0
                   PROVE  FALSE
      BY <1>1, <1>2, <1>3 DEF DataInv, Still
    <2>2. card' # card /\ InCall
      BY <1>1, <1>4, <2>1
    <2>3. \/ host.cmd.code = call.code
          \/ host.cmd.code \in {"APP_CMD", "ALL_SEND_CID"}
      BY <2>2, SentInCall
    <2>4. call.code \in Codes
      BY <2>2 DEF IInv, Typed
    <2>5. host.cmd.code \in WriteCodes
      BY <2>1, <2>2, <2>3, <2>4, SentData DEF Codes, InitCodes
    <2>6. call.code \in WriteCodes
      BY <2>3, <2>5 DEF WriteCodes
    <2>7. In(DataCodes) /\ In(TransferCodes) /\ call.code \notin ReadCodes
      BY <2>2, <2>6 DEF In, TransferCodes, DataCodes, WriteCodes, ReadCodes
    <2>8. QED
      BY <2>1, <2>7 DEF IInv, Transferring
  <1>8. ASSUME In(TransferCodes), Pending' \/ After', ~Errored'
        PROVE  /\ In(TransferCodes) /\ Pending /\ After' /\ ~Errored /\ pc # "up"
               /\ host.fifo = <<>> /\ host.cmd.code = call.code /\ host.cmd.arg = call.arg
               /\ call.code \in DataCodes => card' # card
    <2>1. InCall /\ ~Pending'
      BY <1>8, SentInCall DEF In, TransferCodes, DataCodes, ReadCodes, WriteCodes, AppCodes
    <2>2. /\ pc = "int" /\ Pending /\ ~Errored /\ host.cmd.code = call.code
          /\ host.cmd.arg = call.arg /\ DataEffect(host.cmd, card')
      BY <1>8, <2>1, SentInCall DEF In, TransferCodes, DataCodes, ReadCodes, WriteCodes
    <2>3. ~LastBlock
      BY <1>1 DEF LastBlock
    <2>4. host.fifo = <<>>
      BY <1>8, <2>2, <2>3 DEF IInv, Transferring, In, TransferCodes, Resting, Empty
    <2>5. call.code \in DataCodes => card' # card
      BY <2>2 DEF DataEffect
    <2>6. QED
      BY <1>8, <2>1, <2>2, <2>4, <2>5
  <1>9. Landing'
    <2>1. SUFFICES ASSUME job.op = "write", Busy', ~Errored'
                   PROVE  pc # "up" /\ Image' = Target(job.c)'
      BY <1>1 DEF Landing
    <2>2. In(TransferCodes) /\ (Pending' \/ After')
      BY <1>1, <1>4, <1>5, <2>1 DEF Busy, InCall
    <2>3. Busy /\ ~Errored /\ pc # "up" /\ host.fifo = <<>>
      BY <1>8, <2>1, <2>2 DEF Busy
    <2>4. Image' = card.mem /\ Image = card.mem
      BY <1>1, <1>3, <2>3 DEF Image
    <2>5. Image = Target(job.c)
      BY <2>1, <2>3 DEF DataInv, Landing
    <2>6. \A n : Target(n)' = Target(n)
      BY <1>1, <1>2, SameTarget
    <2>7. QED
      BY <1>1, <2>3, <2>4, <2>5, <2>6
  <1>10. Placed'
    <2>1. SUFFICES ASSUME Moving', ~Errored'
                   PROVE  host'.fifo = <<>> /\ card'.at = job'.lba + job'.c
      BY DEF Placed
    <2>2. In(DataCodes) /\ After'
      BY <1>1, <1>4, <1>5, <2>1 DEF Moving, InCall
    <2>3. In(TransferCodes)
      BY <2>2 DEF In, TransferCodes
    <2>4. /\ host.fifo = <<>> /\ host.cmd.code = call.code /\ host.cmd.arg = call.arg
          /\ call.code \in DataCodes /\ card' # card
      BY <1>8, <2>1, <2>2, <2>3 DEF In
    <2>5. card'.at = AddressOf(card.kind, call.arg)
      BY <2>4, SentData
    <2>6. QED
      BY <1>1, <2>2, <2>4, <2>5, Addressed
  <1>11. Buffered'
    BY <1>1, <1>2 DEF DataInv, Buffered
  <1>12. QED
    BY <1>6, <1>7, <1>9, <1>10, <1>11 DEF DataInv

LEMMA CardProgrammedData ==
    ASSUME IInv, DataInv, CardProgrammed
    PROVE  DataInv'
  <1>1. /\ card.st = "prg" /\ card'.st = "tran" /\ card'.mem = card.mem /\ card'.at = card.at
        /\ UNCHANGED <<pc, call, drv, host, job, hist>>
    BY DEF CardProgrammed, IInv, Typed
  <1>2. /\ \A S : In(S)' <=> In(S)
        /\ Pending' = Pending /\ After' = After /\ Errored' = Errored
    BY <1>1 DEF In, InCall, Pending, After, Errored
  <1>3. (Busy' <=> Busy) /\ (Moving' <=> Moving) /\ CCS' = CCS
    BY <1>1, <1>2 DEF Busy, Moving, CCS
  <1>4. JobSound' /\ Still'
    BY <1>1, <1>2, <1>3 DEF DataInv, JobSound, Still, Fcn, Command
  <1>5. Image' = Image
    BY <1>1 DEF Image
  <1>6. Landing' /\ Placed' /\ Buffered'
    BY <1>1, <1>2, <1>3, <1>5, SameTarget DEF DataInv, Landing, Placed, Buffered
  <1>7. QED
    BY <1>4, <1>6 DEF DataInv

\* What one block does to the card's memory and to its position.
Onward == card'.at = IF card.at + 1 \in Blocks THEN card.at + 1 ELSE card.at
LEMMA MovedData ==
    ASSUME IInv, MoveBlock
    PROVE  /\ Fault \/ UNCHANGED hist
           /\ \/ ScrIn /\ card'.mem = card.mem
              \/ BlockIn /\ card'.mem = card.mem /\ Onward /\ host'.fifo = <<card.mem[card.at]>>
              \/ BlockAsked /\ card' = card
              \/ BlockOut /\ card'.mem = [card.mem EXCEPT ![card.at] = host.fifo[1]] /\ Onward
              \/ BlockLost
  <1>1. Fault \/ UNCHANGED hist
    BY DEF MoveBlock
  <1>2. ScrIn \/ BlockIn \/ BlockAsked \/ BlockOut \/ BlockLost
    BY BlockMoves DEF IInv
  <1>3. ASSUME NEW end, NEW n, n = Advance(end)
        PROVE  /\ n.mem = card.mem /\ DOMAIN n = DOMAIN card
               /\ n.at = IF card.at + 1 \in Blocks THEN card.at + 1 ELSE card.at
    BY <1>3 DEF Advance, IInv, Typed
  <1>4. CASE ~BlockLost
    <2>1. CASE ScrIn
      <3>1. card' = [card EXCEPT !.st = "tran"]
        BY <1>4, <2>1 DEF MoveBlock, ScrIn, BlockLost
      <3>2. QED
        BY <1>1, <2>1, <3>1 DEF IInv, Typed
    <2>2. CASE BlockIn
      <3>1. card.st = "data" /\ host'.fifo # <<>>
        BY <2>2, NotEmpty DEF BlockIn
      <3>2. /\ card' = Advance("tran")
            /\ host' = [host EXCEPT !.int = @ \cup {"rrdy"}, !.blk = @ - 1,
                                    !.fifo = <<card.mem[card.at]>>]
        <4>1. host' # [host EXCEPT !.int = @ \cup {"dtimeout"}, !.blk = 0,
                                   !.fifo = <<>>, !.asked = FALSE]
          BY <3>1 DEF IInv, Typed
        <4>2. QED
          BY <3>1, <4>1 DEF MoveBlock
      <3>3. host'.fifo = <<card.mem[card.at]>>
        BY <3>2 DEF IInv, Typed
      <3>4. QED
        BY <1>1, <1>3, <2>2, <3>2, <3>3 DEF Onward
    <2>3. CASE BlockAsked
      <3>1. card' = card
        BY <1>4, <2>3 DEF MoveBlock, BlockAsked, BlockLost
      <3>2. QED
        BY <1>1, <2>3, <3>1
    <2>4. CASE BlockOut
      <3>1. card.st = "rcv" /\ host.fifo # <<>> /\ host'.int = host.int
        BY <2>4 DEF BlockOut
      <3>2. card' = [Advance("prg") EXCEPT !.mem[card.at] = host.fifo[1]]
        <4>1. CASE /\ card' = card
                   /\ host' = [host EXCEPT !.int = @ \cup {"dtimeout"}, !.blk = 0,
                                           !.fifo = <<>>, !.asked = FALSE]
          <5>1. /\ host'.fifo = <<>> /\ host'.asked = FALSE /\ host'.blk = 0
                /\ host'.int = host.int \cup {"dtimeout"}
            BY <4>1 DEF IInv, Typed
          <5>2. Errored'
            BY <5>1 DEF Errored, Errors
          <5>3. QED
            BY <1>4, <3>1, <4>1, <5>1, <5>2 DEF BlockLost
        <4>2. QED
          BY <3>1, <4>1 DEF MoveBlock
      <3>3. PICK n : n = Advance("prg")
        OBVIOUS
      <3>4. /\ card'.mem = [n.mem EXCEPT ![card.at] = host.fifo[1]] /\ card'.at = n.at
        BY <1>3, <3>2, <3>3 DEF IInv, Typed
      <3>5. QED
        BY <1>1, <1>3, <2>4, <3>3, <3>4 DEF Onward
    <2>5. QED
      BY <1>2, <1>4, <2>1, <2>2, <2>3, <2>4
  <1>5. QED
    BY <1>1, <1>4

LEMMA MoveBlockData ==
    ASSUME IInv, DataInv, MoveBlock
    PROVE  DataInv'
  <1>1. /\ UNCHANGED <<pc, call, drv, job>> /\ host.blk > 0 /\ host'.cmd = host.cmd
    BY BlockMoves DEF IInv
  <1>2. /\ DOMAIN hist' = {"faults", "resets", "next", "disk"}
        /\ hist'.disk = hist.disk /\ hist'.next = hist.next
    BY MovedData, FaultKeeps DEF DataInv, JobSound
  <1>3. /\ InCall' = InCall /\ Pending' = Pending /\ CCS' = CCS
        /\ \A S : In(S)' <=> In(S)
    BY <1>1 DEF InCall, In, Pending, CCS
  <1>4. Errored => Errored'
    BY MovesTyped
  <1>5. After' => After
    <2>1. ("done" \in host'.int) <=> ("done" \in host.int)
      BY MovedData DEF ScrIn, BlockIn, BlockAsked, BlockOut, BlockLost
    <2>2. ~Errored' => ~Errored
      BY <1>4
    <2>3. QED
      BY <1>1, <2>1, <2>2 DEF After, Errored
  <1>6. (Busy' => Busy) /\ (Moving' => Moving)
    BY <1>1, <1>3, <1>5 DEF Busy, Moving
  <1>7. card.at \in Blocks /\ Fcn(card.mem)
    BY DEF IInv, Typed, DataInv, JobSound
  <1>8. \/ card'.mem = card.mem
        \/ BlockOut /\ card'.mem = [card.mem EXCEPT ![card.at] = host.fifo[1]]
    BY MovedData DEF BlockLost
  <1>9. Fcn(card'.mem)
    BY <1>7, <1>8 DEF Fcn
  <1>10. JobSound'
    BY <1>1, <1>2, <1>3, <1>9 DEF DataInv, JobSound, Fcn, Command
  <1>11. Still'
    <2>1. SUFFICES ASSUME job.op # "write", pc # "panic"
                   PROVE  card'.mem = hist.disk /\ card'.st # "rcv"
      BY <1>1, <1>2 DEF Still
    <2>2. card.mem = hist.disk /\ card.st # "rcv"
      BY <1>1, <2>1 DEF DataInv, Still
    <2>3. card'.mem = card.mem
      BY <1>8, <2>2 DEF BlockOut
    <2>4. card'.st # "rcv"
      BY <2>2, MovedData DEF ScrIn, BlockIn, Counts, BlockAsked, BlockOut, BlockLost
    <2>5. QED
      BY <2>2, <2>3, <2>4
  <1>12. Landing'
    <2>1. ~Errored' => Image' = Image
      <3>1. CASE BlockLost
        BY <3>1 DEF BlockLost
      <3>2. CASE ScrIn /\ card'.mem = card.mem
        BY <3>2 DEF ScrIn, Image
      <3>3. CASE BlockIn /\ card'.mem = card.mem
        BY <3>3 DEF BlockIn, Counts, Image
      <3>4. CASE BlockAsked /\ card' = card
        BY <3>4 DEF BlockAsked, Image
      <3>5. CASE BlockOut /\ card'.mem = [card.mem EXCEPT ![card.at] = host.fifo[1]]
        BY <3>5 DEF BlockOut, Image
      <3>6. QED
        BY <3>1, <3>2, <3>3, <3>4, <3>5, MovedData
    <2>2. \A n : Target(n)' = Target(n)
      BY <1>1, <1>2, SameTarget
    <2>3. QED
      BY <1>1, <1>2, <1>4, <1>6, <2>1, <2>2 DEF DataInv, Landing
  <1>13. Placed'
    <2>1. SUFFICES ASSUME Moving, ~Errored'
                   PROVE  /\ host'.fifo = <<>> => card'.at = job.lba + job.c
                          /\ host'.fifo # <<>> /\ job.op = "write" =>
                               card'.at = job.lba + job.c - 1
                          /\ host'.fifo # <<>> /\ job.op = "read" =>
                               /\ host'.fifo[1] = hist.disk[job.lba + job.c]
                               /\ host'.blk > 0 => card'.at = job.lba + job.c + 1
      BY <1>1, <1>2, <1>6 DEF Placed
    <2>2. /\ Reading \/ Writing
          /\ job.c < job.num /\ job.op # "none" /\ pc # "panic"
      BY <1>4, <2>1 DEF Moving, IInv, Transferring, In, InCall, TransferCodes, Reading, Writing
    <2>3. /\ job.lba \in Nat /\ job.num \in Nat /\ job.c \in Nat /\ job.lba + job.num <= NBlocks
          /\ NBlocks \in Nat
      BY <2>2, Sizes DEF DataInv, JobSound, IInv, Typed
    <2>4. job.lba + job.c \in Blocks
      BY <2>2, <2>3 DEF Blocks
    <2>5. /\ host.fifo = <<>> => card.at = job.lba + job.c
          /\ host.fifo # <<>> /\ job.op = "write" => card.at = job.lba + job.c - 1
      BY <1>4, <2>1 DEF DataInv, Placed
    <2>6. ~ScrIn /\ ~BlockLost
      BY <2>1, <2>2 DEF Reading, Writing, ScrIn, BlockLost
    <2>7. CASE BlockAsked /\ card' = card
      BY <2>5, <2>7 DEF BlockAsked
    <2>8. CASE BlockOut /\ Onward
      <3>1. job.op = "write"
        BY <2>2, <2>8 DEF Reading, Writing, BlockOut
      <3>2. card'.at = job.lba + job.c
        BY <2>3, <2>4, <2>5, <2>8, <3>1 DEF BlockOut, Onward
      <3>3. QED
        BY <2>8, <3>2 DEF BlockOut
    <2>9. CASE BlockIn /\ Onward /\ host'.fifo = <<card.mem[card.at]>>
      <3>1. job.op = "read" /\ host.fifo = <<>> /\ host.blk = Asks - Moved
        BY <2>2, <2>9, NotEmpty DEF Reading, Writing, BlockIn
      <3>2. card.mem = hist.disk
        BY <2>2, <3>1 DEF DataInv, Still
      <3>3. host'.fifo[1] = hist.disk[job.lba + job.c] /\ host'.fifo # <<>>
        BY <2>5, <2>9, <3>1, <3>2
      <3>4. ASSUME host'.blk > 0 PROVE card'.at = job.lba + job.c + 1
        <4>1. host.blk - 1 > 0
          BY <2>9, <3>4 DEF BlockIn
        <4>2. CCS /\ job.num - job.c - 1 > 0
          BY <2>3, <3>1, <4>1 DEF Asks, Moved
        <4>3. job.lba + job.c + 1 \in Blocks
          BY <2>3, <4>2 DEF Blocks
        <4>4. QED
          BY <2>5, <2>9, <3>1, <4>3 DEF Onward
      <3>5. QED
        BY <3>1, <3>3, <3>4
    <2>10. QED
      BY <2>6, <2>7, <2>8, <2>9, MovedData
  <1>14. Buffered'
    BY <1>1, <1>2 DEF DataInv, Buffered
  <1>15. QED
    BY <1>10, <1>11, <1>12, <1>13, <1>14 DEF DataInv

\* When sd_status lets the next call start, the blocks are what they should be.
LEMMA UpLanded ==
    ASSUME IInv, DataInv, pc = "up", StatusOK(DatInhibit)
    PROVE  card.mem = hist.disk
  <1>1. Empty /\ ~Errored
    BY UpRests DEF StatusOK, Errored
  <1>2. CASE job.op = "write"
    <2>1. Image = hist.disk
      BY <1>1, <1>2 DEF DataInv, Landing, Busy
    <2>2. QED
      BY <1>1, <2>1 DEF Image, Empty
  <1>3. CASE job.op # "write"
    BY <1>3 DEF DataInv, Still
  <1>4. QED
    BY <1>2, <1>3

LEMMA TransferStartData ==
    ASSUME IInv, DataInv, NEW t \in Transfers, TransferStart(t)
    PROVE  DataInv'
  <1> DEFINE j == [op |-> t.op, lba |-> t.lba, num |-> IF t.num < 1 THEN 1 ELSE t.num,
                   c |-> 0, buf |-> <<>>]
  <1>1. CASE StatusFails(DatInhibit) /\ Fails("TIMEOUT")
    <2>1. card' = card /\ (Fault \/ UNCHANGED hist)
      BY <1>1 DEF TransferStart, StatusFails
    <2>2. QED
      BY <1>1, <2>1, PanicData
  <1>2. CASE /\ StatusOK(DatInhibit) /\ job' = j /\ drv' = Ok /\ UNCHANGED hist
             /\ IF CCS /\ j.num > 1 /\ BlkCnt
                THEN sd_cmd("SET_BLOCKCNT", j.num) /\ UNCHANGED host
                ELSE AskData(j)
    <2>1. pc = "up" /\ card' = card /\ hist' = hist
      BY <1>2 DEF TransferStart
    <2>2. Empty /\ card.st = "tran" /\ card.mem = hist.disk
      BY <1>2, <2>1, UpRests, UpLanded
    <2>3. /\ j.op \in {"read", "write"} /\ j.num \in Nat /\ j.num >= 1 /\ j.c = 0
          /\ j.lba \in Nat /\ j.lba + j.num <= NBlocks /\ j.buf = <<>>
      <3>1. /\ t.op \in {"read", "write"} /\ t.num \in Nat /\ t.lba \in Nat
            /\ t.lba < NBlocks /\ t.lba + t.num <= NBlocks
        BY SdAssumption
      <3>2. QED
        BY <3>1, Sizes
    <2> HIDE DEF j
    <2>4. host'.blk = host.blk /\ host'.fifo = host.fifo /\ drv'.scr = drv.scr
      BY <1>2 DEF AskData, Ok, IInv, Typed
    <2>5. CCS' = CCS
      BY <2>4 DEF CCS
    <2>6. /\ pc' = "status"
          /\ \/ call'.code = "SET_BLOCKCNT"
             \/ call'.code = Command(j)[1] /\ call'.arg = Command(j)[2]
      BY <1>2 DEF AskData, sd_cmd
    <2>7. Command(j)[1] \in DataCodes
      BY <2>3, CommandCode
    <2>8. In(TransferCodes)' /\ (In(DataCodes)' => call'.arg = Command(j)[2]) /\ ~Moving'
      BY <2>6, <2>7 DEF In, InCall, TransferCodes, DataCodes, ReadCodes, WriteCodes, Moving, After
    <2>9. JobSound'
      <3>1. In(DataCodes)' => call'.arg = Command(job)[2]'
        BY <1>2, <2>5, <2>8 DEF Command
      <3>2. QED
        BY <1>2, <2>1, <2>3, <2>6, <2>8, <3>1 DEF DataInv, JobSound, Fcn
    <2>10. Still'
      BY <2>1, <2>2 DEF Still
    <2>11. Landing'
      <3>1. Image' = hist.disk
        BY <2>1, <2>2 DEF Image
      <3>2. Target(0)' = hist.disk
        <4>1. Target(0)' = [b \in Blocks |-> hist.disk[b]]
          BY <2>1 DEF Target
        <4>2. QED
          BY <4>1 DEF DataInv, JobSound, Fcn
      <3>3. job'.c = 0 /\ pc' # "up"
        BY <1>2, <2>3, <2>6
      <3>4. Target(job.c)' = hist.disk
        BY <3>2, <3>3 DEF Target
      <3>5. QED
        BY <3>1, <3>3, <3>4 DEF Landing
    <2>12. Placed'
      BY <2>8 DEF Placed
    <2>13. Buffered'
      <3>1. job'.c = 0 /\ job'.buf = <<>> /\ pc' # "up"
        BY <1>2, <2>3, <2>6
      <3>2. job'.buf = [i \in 1 .. job'.c |-> hist'.disk[job'.lba + i - 1]]
        BY <3>1
      <3>3. QED
        BY <3>1, <3>2 DEF Buffered
    <2>14. QED
      BY <2>9, <2>10, <2>11, <2>12, <2>13 DEF DataInv
  <1>3. QED
    BY <1>1, <1>2 DEF TransferStart

\* sd_readblock or sd_writeblock returns num * 512.
LEMMA SucceedsData ==
    ASSUME DOMAIN hist = {"faults", "resets", "next", "disk"}, NEW j, Succeeds(j)
    PROVE  /\ pc' = "up" /\ DOMAIN hist' = {"faults", "resets", "next", "disk"}
           /\ j.op = "read" => hist'.disk = hist.disk
           /\ j.op # "read" => hist'.disk = [b \in Blocks |-> IF b - j.lba \in 0 .. j.num - 1
                                             THEN Content(b - j.lba) ELSE hist.disk[b]]
  BY DEF Succeeds

LEMMA StoppedData ==
    ASSUME IInv, DataInv, Stopped
    PROVE  DataInv'
  <1>1. /\ pc = "ret" /\ call.code = "STOP_TRANS" /\ drv.err = "OK"
        /\ Succeeds(job) /\ UNCHANGED <<card, call, drv, host, job>>
    BY DEF Stopped, Returned
  <1>2. In({"STOP_TRANS"}) /\ In(TransferCodes) /\ After
    BY <1>1, Succeeded DEF In, InCall, TransferCodes
  <1>3. Empty /\ job.c = job.num /\ job.op \in {"read", "write"} /\ Busy
    BY <1>2 DEF IInv, Transferring, Resting, Busy
  <1>4. /\ pc' = "up" /\ DOMAIN hist' = {"faults", "resets", "next", "disk"}
        /\ job.op = "read" => hist'.disk = hist.disk
        /\ job.op # "read" => hist'.disk = Target(job.num)
    BY <1>1, SucceedsData DEF DataInv, JobSound, Target
  <1>5. Fcn(hist'.disk)
    BY <1>4 DEF DataInv, JobSound, Fcn, Target
  <1>6. ~Moving' /\ ~InCall'
    BY <1>4 DEF Moving, In, InCall
  <1>7. JobSound'
    BY <1>1, <1>4, <1>5, <1>6 DEF DataInv, JobSound, Fcn, In
  <1>8. Still'
    BY <1>1, <1>3, <1>4 DEF DataInv, Still
  <1>9. Landing'
    <2>1. SUFFICES ASSUME job.op = "write", ~Errored'
                   PROVE  Image' = hist'.disk
      BY <1>1, <1>4 DEF Landing
    <2>2. ~Errored /\ Image' = Image
      BY <1>1, <2>1, SameImage DEF Errored
    <2>3. Image = Target(job.c)
      BY <1>1, <1>3, <2>1, <2>2 DEF DataInv, Landing
    <2>4. QED
      BY <1>3, <1>4, <2>1, <2>2, <2>3
  <1>10. Placed'
    BY <1>6 DEF Placed
  <1>11. Buffered'
    BY <1>1, <1>3, <1>4 DEF DataInv, Buffered
  <1>12. QED
    BY <1>7, <1>8, <1>9, <1>10, <1>11 DEF DataInv

\* One more block of a write.
LEMMA NextTarget ==
    ASSUME job.lba \in Nat, job.c \in Nat, NBlocks \in Nat, job.lba + job.c \in Blocks
    PROVE  [Target(job.c) EXCEPT ![job.lba + job.c] = Content(job.c)] = Target(job.c + 1)
  <1>1. ASSUME NEW b \in Blocks
        PROVE  [Target(job.c) EXCEPT ![job.lba + job.c] = Content(job.c)][b]
                 = Target(job.c + 1)[b]
    <2>1. b \in Int
      BY DEF Blocks
    <2>2. CASE b = job.lba + job.c
      <3>1. b - job.lba = job.c /\ b - job.lba \in 0 .. (job.c + 1) - 1
        BY <2>2
      <3>2. QED
        BY <2>2, <3>1 DEF Target
    <2>3. CASE b # job.lba + job.c
      <3>1. b - job.lba \in 0 .. job.c - 1 <=> b - job.lba \in 0 .. (job.c + 1) - 1
        BY <2>1, <2>3
      <3>2. QED
        BY <2>3, <3>1 DEF Target
    <2>4. QED
      BY <2>2, <2>3
  <1>2. QED
    BY <1>1 DEF Target

\* One more block of a read.
LEMMA NextBuffered ==
    ASSUME NEW n \in Nat, NEW f, NEW k \in Nat,
           NEW s, s = [i \in 1 .. n |-> f[k + i - 1]]
    PROVE  Append(s, f[k + n]) = [i \in 1 .. n + 1 |-> f[k + i - 1]]
  <1> DEFINE S == {f[k + i - 1] : i \in 1 .. n + 1}
  <1>1. s \in [1 .. n -> S]
    <2>1. ASSUME NEW i \in 1 .. n PROVE s[i] \in S
      <3>1. s[i] = f[k + i - 1] /\ i \in 1 .. n + 1
        OBVIOUS
      <3>2. QED
        BY <3>1
    <2> HIDE DEF S
    <2>2. QED
      BY <2>1
  <1>2. f[k + n] \in S
    <2>1. k + (n + 1) - 1 = k + n /\ n + 1 \in 1 .. n + 1
      OBVIOUS
    <2>2. QED
      BY <2>1
  <1> HIDE DEF S
  <1>3. s \in Seq(S) /\ Len(s) = n
    <2>1. s \in Seq(S)
      BY <1>1, SeqDef
    <2>2. DOMAIN s = 1 .. n /\ DOMAIN s = 1 .. Len(s) /\ Len(s) \in Nat
      BY <2>1, LenProperties
    <2>3. QED
      BY <2>1, <2>2
  <1>4. Append(s, f[k + n]) \in [1 .. n + 1 -> S]
    <2>1. Append(s, f[k + n]) \in Seq(S) /\ Len(Append(s, f[k + n])) = n + 1
      BY <1>2, <1>3, AppendProperties
    <2>2. QED
      BY <2>1, LenProperties
  <1>5. ASSUME NEW i \in 1 .. n + 1 PROVE Append(s, f[k + n])[i] = f[k + i - 1]
    <2>1. CASE i = n + 1
      <3>1. k + i - 1 = k + n
        BY <2>1
      <3>2. QED
        BY <1>2, <1>3, <2>1, <3>1, AppendProperties
    <2>2. CASE i # n + 1
      <3>1. i \in 1 .. n
        BY <2>2
      <3>2. QED
        BY <1>2, <1>3, <3>1, AppendProperties
    <2>3. QED
      BY <2>1, <2>2
  <1>6. QED
    BY <1>4, <1>5

LEMMA TransferBlockData ==
    ASSUME IInv, DataInv, TransferBlock
    PROVE  DataInv'
  <1> DEFINE j == [job EXCEPT !.c = @ + 1,
                     !.buf = IF job.op = "read" THEN Append(@, host.fifo[1]) ELSE @]
  <1>1. /\ pc = "data" /\ Sees({Ready}) /\ sd_int({Ready})[2] = "OK"
        /\ job' = j /\ card' = card
        /\ host' = [host EXCEPT !.int = sd_int({Ready})[1], !.fifo = Filled]
        /\ \/ j.c < j.num /\ CCS /\ UNCHANGED <<pc, call, drv, hist>>
           \/ /\ j.c < j.num /\ ~CCS /\ sd_cmd(Command(j)[1], Command(j)[2]) /\ drv' = Ok
              /\ UNCHANGED hist
           \/ /\ ~(j.c < j.num) /\ sd_cmd("STOP_TRANS", 0) /\ drv' = Ok /\ UNCHANGED hist
           \/ ~(j.c < j.num) /\ Succeeds(j) /\ UNCHANGED <<call, drv>>
    BY DEF TransferBlock
  <1>2. ~Errored /\ Ready \in host.int
    BY <1>1, IntOK DEF IInv
  <1>3. /\ job.op \in {"read", "write"} /\ job.num \in Nat /\ job.c \in Nat
        /\ job.c < job.num /\ job.lba \in Nat /\ job.lba + job.num <= NBlocks /\ NBlocks \in Nat
    BY <1>1, Sizes DEF IInv, Transferring, Typed, DataInv, JobSound
  <1>4. /\ j.op = job.op /\ j.num = job.num /\ j.c = job.c + 1 /\ j.lba = job.lba
        /\ j.buf = IF job.op = "read" THEN Append(job.buf, host.fifo[1]) ELSE job.buf
    BY DEF IInv, Typed
  <1> HIDE DEF j
  <1>5. host'.blk = host.blk /\ host'.fifo = Filled
    BY <1>1 DEF IInv, Typed
  <1>6. \/ /\ job.op = "read" /\ host.fifo # <<>> /\ host.blk = Asks - Moved - 1
           /\ host'.fifo = <<>> /\ card.st # "rcv"
        \/ /\ job.op = "write" /\ host.fifo = <<>> /\ card.st = "rcv"
           /\ host'.fifo # <<>> /\ host'.fifo[1] = Content(job.c)
    <2>1. \A x : <<x>> # <<>> /\ <<x>>[1] = x
      OBVIOUS
    <2>2. QED
      BY <1>1, <1>2, <1>5, <2>1, BlockReady, NotEmpty DEF Filled
  <1>7. Busy /\ Moving
    BY <1>1 DEF Busy, Moving
  <1>8. job.lba + job.c \in Blocks
    BY <1>3 DEF Blocks
  <1>9. /\ job.op = "write" => card.at = job.lba + job.c
        /\ job.op = "read" => /\ host.fifo[1] = hist.disk[job.lba + job.c]
                              /\ host.blk > 0 => card.at = job.lba + job.c + 1
    BY <1>2, <1>6, <1>7 DEF DataInv, Placed
  <1>10. /\ job.op = "read" => card.mem = hist.disk
         /\ job.op = "write" => card.mem = Target(job.c)
    BY <1>1, <1>2, <1>6, <1>7 DEF DataInv, Still, Landing, Image
  <1>11. job.op = "write" => Image' = Target(job.c + 1)
    <2>1. SUFFICES ASSUME job.op = "write" PROVE Image' = Target(job.c + 1)
      OBVIOUS
    <2>2. /\ card'.st = "rcv" /\ host'.fifo # <<>> /\ host'.fifo[1] = Content(job.c)
          /\ card'.mem = card.mem /\ card'.at = job.lba + job.c
      BY <1>1, <1>6, <1>9, <2>1
    <2>3. Image' = [card.mem EXCEPT ![job.lba + job.c] = Content(job.c)]
      BY <2>2 DEF Image
    <2>4. QED
      BY <1>3, <1>8, <1>10, <2>1, <2>3, NextTarget
  <1>12. DOMAIN hist = {"faults", "resets", "next", "disk"} /\ Fcn(hist.disk)
    BY DEF DataInv, JobSound
  <1>13. pc' # "up" => hist' = hist
    BY <1>1 DEF Succeeds
  <1>14. pc' = "up" =>
           /\ job.c + 1 = job.num /\ DOMAIN hist' = DOMAIN hist
           /\ job.op = "read" => hist'.disk = hist.disk
           /\ job.op = "write" => hist'.disk = Target(job.c + 1)
    <2>1. SUFFICES ASSUME pc' = "up"
                   PROVE  /\ job.c + 1 = job.num /\ DOMAIN hist' = DOMAIN hist
                          /\ job.op = "read" => hist'.disk = hist.disk
                          /\ job.op = "write" => hist'.disk = Target(job.c + 1)
      OBVIOUS
    <2>2. ~(j.c < j.num) /\ Succeeds(j)
      BY <1>1, <2>1 DEF sd_cmd
    <2>3. job.c + 1 = job.num
      BY <1>3, <1>4, <2>2
    <2>4. QED
      BY <1>4, <1>12, <2>2, <2>3, SucceedsData DEF Target
  <1>15. CCS' = CCS
    BY <1>1 DEF CCS, Ok, IInv, Typed
  <1>16. /\ pc' \in {"data", "up"} \/ In(TransferCodes)'
         /\ In(DataCodes)' => call'.arg = Command(j)[2]
         /\ pc' \in {"data", "up", "status"} /\ (pc' = "data" => CCS /\ job.c + 1 < job.num)
    <2>1. CASE j.c < j.num /\ CCS /\ UNCHANGED <<pc, call, drv, hist>>
      BY <1>1, <1>4, <2>1 DEF In, InCall
    <2>2. CASE j.c < j.num /\ ~CCS /\ sd_cmd(Command(j)[1], Command(j)[2])
      <3>1. Command(j)[1] \in DataCodes
        BY <1>3, <1>4, CommandCode
      <3>2. /\ pc' = "status" /\ call'.code = Command(j)[1] /\ call'.arg = Command(j)[2]
        BY <2>2 DEF sd_cmd
      <3>3. QED
        BY <3>1, <3>2 DEF In, InCall, TransferCodes
    <2>3. CASE sd_cmd("STOP_TRANS", 0)
      <3>1. pc' = "status" /\ call'.code = "STOP_TRANS"
        BY <2>3 DEF sd_cmd
      <3>2. QED
        BY <3>1 DEF In, InCall, TransferCodes, DataCodes, ReadCodes, WriteCodes
    <2>4. CASE Succeeds(j)
      BY <2>4 DEF Succeeds, In, InCall
    <2>5. QED
      BY <1>1, <2>1, <2>2, <2>3, <2>4
  <1>17. JobSound'
    <2>1. In(DataCodes)' => call'.arg = Command(job)[2]'
      BY <1>1, <1>15, <1>16 DEF Command
    <2>2. Fcn(hist'.disk) /\ DOMAIN hist' = {"faults", "resets", "next", "disk"}
      <3>1. CASE pc' # "up"
        BY <1>12, <1>13, <3>1
      <3>2. CASE pc' = "up"
        BY <1>3, <1>12, <1>14, <3>2 DEF Fcn, Target
      <3>3. QED
        BY <3>1, <3>2
    <2>3. QED
      BY <1>1, <1>3, <1>4, <1>16, <2>1, <2>2 DEF DataInv, JobSound, Fcn
  <1>18. Still'
    <2>1. job.op = "read" => hist'.disk = hist.disk
      BY <1>13, <1>14
    <2>2. QED
      BY <1>1, <1>3, <1>4, <1>6, <1>10, <2>1 DEF Still
  <1>19. Landing'
    <2>1. SUFFICES ASSUME job.op = "write"
                   PROVE  Image' = IF pc' = "up" THEN hist'.disk ELSE Target(job.c)'
      BY <1>1, <1>4 DEF Landing
    <2>2. CASE pc' = "up"
      BY <1>11, <1>14, <2>1, <2>2
    <2>3. CASE pc' # "up"
      <3>1. Target(job.c)' = Target(job.c + 1)
        BY <1>1, <1>4, <1>13, <2>3 DEF Target, Content
      <3>2. QED
        BY <1>11, <2>1, <2>3, <3>1
    <2>4. QED
      BY <2>2, <2>3
  <1>20. Placed'
    <2>1. SUFFICES ASSUME Moving'
                   PROVE  /\ host'.fifo = <<>> => card.at = job.lba + (job.c + 1)
                          /\ host'.fifo # <<>> => job.op = "write"
                                /\ card.at = job.lba + (job.c + 1) - 1
      BY <1>1, <1>4 DEF Placed
    <2>2. pc' = "data" /\ CCS /\ job.c + 1 < job.num
      <3>1. ~After'
        BY <1>16, <2>1 DEF Moving, After
      <3>2. QED
        BY <1>16, <2>1, <3>1 DEF Moving
    <2>3. CASE job.op = "read"
      <3>1. host.blk > 0 /\ host'.fifo = <<>>
        BY <1>3, <1>6, <2>2, <2>3 DEF Asks, Moved
      <3>2. QED
        BY <1>3, <1>9, <2>3, <3>1
    <2>4. CASE job.op = "write"
      BY <1>3, <1>6, <1>9, <2>4
    <2>5. QED
      BY <1>3, <2>3, <2>4
  <1>21. Buffered'
    <2>1. SUFFICES ASSUME job.op = "read"
                   PROVE  /\ j.buf = [i \in 1 .. job.c + 1 |-> hist'.disk[job.lba + i - 1]]
                          /\ pc' = "up" => job.c + 1 = job.num
      BY <1>1, <1>4 DEF Buffered
    <2>2. hist'.disk = hist.disk
      BY <1>13, <1>14, <2>1
    <2>3. job.buf = [i \in 1 .. job.c |-> hist.disk[job.lba + i - 1]]
      BY <2>1 DEF DataInv, Buffered
    <2>4. j.buf = Append(job.buf, hist.disk[job.lba + job.c])
      BY <1>4, <1>9, <2>1
    <2>5. Append(job.buf, hist.disk[job.lba + job.c])
            = [i \in 1 .. job.c + 1 |-> hist.disk[job.lba + i - 1]]
      BY <1>3, <2>3, NextBuffered
    <2>6. QED
      BY <1>14, <2>2, <2>4, <2>5
  <1>22. QED
    BY <1>17, <1>18, <1>19, <1>20, <1>21 DEF DataInv

LEMMA InitDataInv == Init => DataInv
  <1> SUFFICES ASSUME Init PROVE DataInv
    OBVIOUS
  <1>1. /\ pc = "boot" /\ job.op = "none" /\ host.blk = 0 /\ host.cmd = None
        /\ DOMAIN hist = {"faults", "resets", "next", "disk"}
        /\ hist.disk = [b \in Blocks |-> b] /\ card.mem = hist.disk
    BY DEF Init, NoJob, PowerUp
  <1>2. QED
    BY <1>1 DEF DataInv, JobSound, Still, Landing, Placed, Buffered, Fcn, Moving, In, InCall

LEMMA DataStep ==
    ASSUME IInv, DataInv, [Next]_vars
    PROVE  DataInv'
  <1>1. CASE CmdIssue \/ CmdBusy \/ CmdDone \/ CmdExpires
    BY <1>1, CmdData
  <1>2. CASE InitNoReset \/ InitFails \/ ConditionFails \/ ClockFails \/ TransferFails
    BY <1>2, FailData
  <1>3. CASE \/ InitStart \/ AskVersion \/ AskCondition \/ AskCid \/ AskAddress
             \/ Select \/ AskScr \/ AwaitScr \/ ReadScr \/ Widen
    BY <1>3, InitData
  <1>4. CASE CountSet \/ Asked \/ TransferBlock \/ Stopped
    BY <1>4, CountSetData, AskedData, TransferBlockData, StoppedData
  <1>5. CASE SendCommand \/ MoveBlock \/ CardProgrammed
    BY <1>5, SendCommandData, MoveBlockData, CardProgrammedData
  <1>6. CASE Reboot \/ UNCHANGED vars
    BY <1>6, RebootData, StutterData
  <1>7. ASSUME NEW t \in Transfers, TransferStart(t)
        PROVE  DataInv'
    BY <1>7, TransferStartData
  <1>8. QED
    BY <1>1, <1>2, <1>3, <1>4, <1>5, <1>6, <1>7 DEF Next, Driver, Hardware

\* The blocks the card, the controller's buffer and the driver's buffer hold are
\* at every moment those the transfers so far leave there.
THEOREM DataInvariant == Spec => [](IInv /\ DataInv)
  <1>1. IInv /\ DataInv /\ [Next]_vars => DataInv'
    BY DataStep
  <1>2. QED
    BY <1>1, InitDataInv, Invariant, PTL DEF Spec
-----------------------------------------------------------------------------
(* The theorems *)

\* Every variable of the driver, the controller and the card keeps its type:
\* the ACMD41 loop of sd_init keeps its count, the controller is never asked
\* for more blocks than the card has, and no transfer runs past its count.
THEOREM TypeCorrect == Spec => []TypeOK
  <1>1. IInv => TypeOK
    BY DEF IInv, Typed, TypeOK
  <1>2. QED
    BY <1>1, Invariant, PTL

\* The "command done" sd_cmd sees is always the end of the command it has just
\* sent, although commands that an earlier wait gave up on may still be under
\* way when the next call begins.
THEOREM AnswerIsOursCorrect == Spec => []AnswerIsOurs
  <1>1. IInv => AnswerIsOurs
    BY DEF IInv, Under, AnswerIsOurs
  <1>2. QED
    BY <1>1, Invariant, PTL

\* Once sd_init has returned SD_OK and the driver is free for the next call,
\* driver, controller and card agree, after any number of faults and restarts.
THEOREM CardAgreedCorrect == Spec => []CardAgreed
  <1>1. IInv => CardAgreed
    <2>1. SUFFICES ASSUME IInv, pc = "up", StatusOK(DatInhibit)
                   PROVE  /\ card.st = "tran" /\ drv.rca = card.rca
                          /\ CCS = card.kind.hc /\ BlkCnt = card.kind.blkcnt
                          /\ host.width4 = card.wide /\ card.kind.volt
      BY DEF CardAgreed
    <2>2. card.st = "tran" /\ drv.rca = card.rca
      BY <2>1, UpRests DEF IInv, Learned, CardSound
    <2>3. /\ card.kind.hc \in BOOLEAN /\ card.kind.blkcnt \in BOOLEAN
      BY <2>1, SdAssumption DEF IInv, Typed
    <2>4. /\ drv.scr = Scr(card.kind) \cup (IF card.kind.hc THEN {"CCS"} ELSE {})
          /\ host.width4 = card.wide /\ card.kind.volt
      BY <2>1 DEF IInv, Learned
    <2>5. "CCS" \notin Scr(card.kind) /\ (("BLKCNT" \in Scr(card.kind)) <=> card.kind.blkcnt)
      BY ScrType
    <2>6. CCS = card.kind.hc
      BY <2>3, <2>4, <2>5 DEF CCS
    <2>7. BlkCnt = card.kind.blkcnt
      BY <2>3, <2>4, <2>5 DEF BlkCnt
    <2>8. QED
      BY <2>2, <2>4, <2>6, <2>7
  <1>2. QED
    BY <1>1, Invariant, PTL

\* A read that returns num * 512 has put exactly the blocks lba .. lba+num-1 of
\* the card in the buffer, whatever faults and restarts came before it.
THEOREM ReadsRightCorrect == Spec => []ReadsRight
  <1>1. IInv /\ DataInv => ReadsRight
    BY DEF DataInv, Buffered, Still, ReadsRight
  <1>2. QED
    BY <1>1, DataInvariant, PTL

\* When the next call may start, the blocks of every write that returned
\* num * 512 are on the card and no other block was overwritten since the pi
\* last started.
THEOREM WritesLandCorrect == Spec => []WritesLand
  <1>1. IInv /\ DataInv => WritesLand
    BY UpLanded DEF WritesLand
  <1>2. QED
    BY <1>1, DataInvariant, PTL
=============================================================================
