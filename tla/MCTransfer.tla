----------------------------- MODULE MCTransfer -----------------------------
(***************************************************************************)
(* Transfer for TLC: an empty file, one of four bytes in a single part     *)
(* that is sent in several chunks, the same in two parts, one of them      *)
(* large, and in three parts, more than there are threads.                 *)
(***************************************************************************)
EXTENDS Transfer

P(o, n) == [offset |-> o, size |-> n]

MCPlansOf ==
    [n \in {0, 4} |->
        IF n = 0 THEN {<<P(0, 0)>>}
        ELSE {<<P(0, 4)>>, <<P(0, 1), P(1, 3)>>,
              <<P(0, 1), P(1, 1), P(2, 2)>>}]
=============================================================================
