---------------------------- MODULE MCMultiHost ----------------------------
(* MultiHost for TLC.  "a" \o "bx" and "ab" \o "x" are the same string.     *)
EXTENDS MultiHost

MCHostIds == {<<"a">>, <<"a", "b">>}
MCUris == {<<"b", "x">>, <<"x">>}
MCAutomations == {<<"x">>}
CallSymmetry == Permutations(Calls)
=============================================================================
