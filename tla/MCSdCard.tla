------------------------------ MODULE MCSdCard ------------------------------
(* An instance of SdCard for TLC: cards with block addresses, with and       *)
(* without SET_BLOCKCNT, cards with byte addresses, and one that cannot work *)
(* at the pi's voltage.                                                      *)
EXTENDS SdCard

Card(hc, blkcnt, wide, volt) ==
    [hc |-> hc, blkcnt |-> blkcnt, wide |-> wide, volt |-> volt]
SomeCards == {Card(TRUE, TRUE, TRUE, TRUE), Card(TRUE, FALSE, TRUE, TRUE),
              Card(FALSE, TRUE, FALSE, TRUE), Card(TRUE, FALSE, FALSE, FALSE)}

Call(op, lba, num) == [op |-> op, lba |-> lba, num |-> num]
SomeCalls == {Call("read", 1, 2), Call("read", 2, 0),
              Call("write", 0, 2), Call("write", 1, 1)}
=============================================================================
