------------------------------ MODULE MCConsole ------------------------------
(* Instance for TLC: a screen whose width the larger font does not divide. *)
EXTENDS Console

MCLetters   == {"a", "b"}
MCStrings   == {<<"a">>, <<NL>>, <<BS>>, <<"a", "a">>}
MCPositions == {<<-1, 0>>, <<2, 9>>}
MCFrames    == {[p \in Cells |-> IF p = <<1, 1>> THEN "a" ELSE Blank]}
=============================================================================
