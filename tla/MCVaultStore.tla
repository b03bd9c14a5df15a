---------------------------- MODULE MCVaultStore ----------------------------
(***************************************************************************)
(* VaultStore for TLC: a file at the top, a file two folders down and the  *)
(* two folders on the way; the upper folder has the name of the file at    *)
(* the top.  Two drives, or three where the limit on drives can be         *)
(* exceeded.                                                               *)
(***************************************************************************)
EXTENDS VaultPages, TLC

CONSTANTS a, b, x, empty, dot, up, d1, d2, d3, r1, r2

MCSegments == {a, b, x, empty, dot, up}
MCSkipped == {empty, dot, up}
MCKeys == {PathIn(<<empty>>, a), PathIn(<<a, dot, b>>, x)}
MCFolders == {PathIn(<<>>, a), PathIn(<<up, a, empty>>, b)}
MCInside == [f \in MCFolders |-> Matched(f, MCKeys)]
MCBelow == [f \in MCFolders |-> Matched(f, MCFolders)]
TwoDrives == {d1, d2}
ThreeDrives == {d1, d2, d3}
MCRequests == {r1, r2}
AllOps == OpNames

FileOps == {"complete", "delete"}
FolderOps == {"complete", "mkfolder", "rmfolder"}

\* Requests are interchangeable, and so are the drives other than Primary.
Symmetry == Permutations(MCRequests) \cup Permutations(Drives \ {Primary})
=============================================================================
