-------------------------------- MODULE Pool --------------------------------
(***************************************************************************)
(* What the vault promises its user: one index of accounts, folders and    *)
(* files, changed by one operation at a time.  Nothing here loads, saves,  *)
(* fails half way or talks to a drive; VaultStore does, and implements     *)
(* this specification as long as requests do not overlap.                  *)
(***************************************************************************)
EXTENDS Integers, FiniteSets

CONSTANTS
    Keys,       \* file keys (folder/name)
    Folders,    \* folder paths
    Drives,     \* Google accounts that may be connected
    Primary,    \* the account the user signed in with
    Inside,     \* Inside[f]: the keys below folder f
    Below,      \* Below[f]: folder f and the folders below it
    MaxDrives,  \* MAX_DRIVES_PER_USER
    Chunk       \* chunk records: an account and the id of an object on it

VARIABLE index  \* [accounts, folders, files]; files[k] = {}: k is not listed

EmptyIndex == [accounts |-> {Primary}, folders |-> {},
               files |-> [k \in Keys |-> {}]]

Init == index = EmptyIndex

\* A file is listed under k: some chunks, on connected drives, that no other
\* entry lists.
Put(k) ==
    LET C == index'.files[k]
    IN  /\ C \subseteq Chunk /\ C # {}
        /\ \A c \in C : c.account \in index.accounts
        /\ \A j \in Keys \ {k} : index.files[j] \cap C = {}
        /\ index' = [index EXCEPT !.files[k] = C]

\* The files K and the folders F are no longer listed.
Remove(K, F) ==
    index' = [index EXCEPT
        !.files = [k \in Keys |-> IF k \in K THEN {} ELSE index.files[k]],
        !.folders = @ \ F]

DeleteFolder(f) == Remove(Inside[f], Below[f])

CreateFolder(f) == index' = [index EXCEPT !.folders = @ \cup {f}]

Connect(d) ==
    /\ Cardinality(index.accounts) < MaxDrives
    /\ index' = [index EXCEPT !.accounts = @ \cup {d}]

Next ==
    \/ \E k \in Keys : Put(k)
    \/ \E K \in SUBSET Keys : Remove(K, {})
    \/ \E f \in Folders : DeleteFolder(f) \/ CreateFolder(f)
    \/ \E d \in Drives : Connect(d)

Spec == Init /\ [][Next]_index
=============================================================================
