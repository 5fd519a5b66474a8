---------------------------- MODULE MCShellLink ----------------------------
(* Instances of ShellLink for TLC: a word is 4 bytes of a 128-byte address   *)
(* space in which programs may take 32 to 63.                                *)
EXTENDS ShellLink

Image(v, a, n, c) == [version |-> v, addr |-> a, nbytes |-> n, code |-> c]
Good32   == Image(2, 32, 12, <<<<"code", "a">>>>)
Exact    == Image(2, 52, 12, <<EOT>>)                 \* ends at MAX_ADDRESS, holds an EOT
TooHigh  == Image(2, 56, 12, <<<<"code", "a">>>>)
TooLow   == Image(2, 28, 12, <<<<"code", "a">>>>)
Wrapping == Image(2, 124, 12, <<<<"code", "a">>>>)    \* addr + nbytes wraps
OldProto == Image(1, 32, 12, <<<<"code", "a">>>>)
OddSize  == Image(2, 32, 10, <<>>)

Several    == {Good32, Exact, TooHigh, TooLow, Wrapping, OldProto, OddSize}
Lines      == {<<"x", "n">>, <<"C", "n">>, <<"C", "M", "x", "n">>}
NoPrefix   == {<<>>, <<"x">>, <<"C", "n">>}
EndsInC    == {<<"C">>}
=============================================================================
