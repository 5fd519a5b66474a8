------------------------------ MODULE MCPiFs ------------------------------
(* Instances of PiFs for TLC. *)
EXTENDS PiFs

\* One thread sees every growth of the file; with a second one that reads, the
\* allocation is one the file never outgrows.
AllocSizes == [one |-> {3}, many |-> {64}]
Answers == {<<"x", "n">>, <<"P", "x", "n">>}
Buffers == {<<>>, <<"empty">>, <<"run">>}
=============================================================================
