------------------------------ MODULE MCBoot ------------------------------
(* Instances of Boot for TLC. *)
EXTENDS Boot

A == <<"code", "a">>
B == <<"code", "b">>

Short  == [n |-> 4, code |-> <<A>>]
Long   == [n |-> 8, code |-> <<A, B>>]
Soh    == [n |-> 8, code |-> <<SOH, ACK>>]    \* holds words of the protocol
Empty  == [n |-> 0, code |-> <<>>]
Odd    == [n |-> 6, code |-> <<A, B>>]        \* not a whole number of words

Several   == {Long, Soh, Empty, Odd}
TwoImages == {Long, Short}

\* The images meet the condition under which success is this image's.
ASSUME ImagesKept == NoForeignCksums
=============================================================================
