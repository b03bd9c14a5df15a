----------------------------- MODULE FolderPaths -----------------------------
(***************************************************************************)
(* The virtual folders of vault.py.  A path is the sequence of what stands *)
(* between its slashes; <<>> is "", the page called Home.  `listed` are    *)
(* the keys of the vault's files, `created` its folders.                   *)
(***************************************************************************)
EXTENDS Integers, Sequences

CONSTANTS
    Segments,   \* what may stand between slashes
    Skipped     \* what normalize_path drops of it: "", "." and ".."

Paths == Seq(Segments)

\* The paths that are p or lead to it.
PathsTo(p) == {SubSeq(p, 1, n) : n \in 1..Len(p)}

\* normalize_path
Normalize(raw) == SelectSeq(raw, LAMBDA segment : segment \notin Skipped)

\* is_valid_folder_name
ValidName(name) == name \notin Skipped

\* parent_path; "" is its own parent.
ParentPath(p) == IF p = <<>> THEN <<>> ELSE SubSeq(p, 1, Len(p) - 1)

\* Slip: range(len(parts) - 1).
AncestorFoldersButLast(p) == PathsTo(ParentPath(ParentPath(p)))

\* _ancestor_folders
AncestorFolders(p) == PathsTo(ParentPath(p))

\* all_folder_paths
AllFolderPaths(listed, created) ==
    (created \cup UNION {AncestorFolders(k) : k \in listed}) \ {<<>>}

\* list_folder_contents: the folders and the files on the page asked for as raw.
Subfolders(listed, created, raw) ==
    {g \in AllFolderPaths(listed, created) :
        ParentPath(g) = Normalize(raw) /\ g # Normalize(raw)}

FilesHere(listed, raw) == {k \in listed : ParentPath(k) = Normalize(raw)}

\* A file's key, or a new folder's path, in the folder of the page it came from.
PathIn(folder, name) == Append(Normalize(folder), name)

\* p == folder_path or p.startswith(prefix); the prefix of "" is "/", with
\* which no path begins.
Matches(f, p) == f \in PathsTo(p)

\* Slip: only what is directly inside.
MatchedDirectly(f, paths) == {p \in paths : p = f \/ ParentPath(p) = f}

\* What delete_folder_recursive takes of some files or folders.
Matched(f, paths) == {p \in paths : Matches(f, p)}
=============================================================================
