-------------------------- MODULE MCUploadSession --------------------------
(***************************************************************************)
(* UploadSession for TLC: files of two chunks, dropped one at a time or    *)
(* two at once.                                                            *)
(***************************************************************************)
EXTENDS UploadSession

MCTotalChunks == [c \in Shapes |-> 2]

OneFile == {<<s>> : s \in Sids}

\* Two files, in either order.
TwoFiles == {p \in Sids \X Sids : p[1] # p[2]}
=============================================================================
