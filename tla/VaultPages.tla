----------------------------- MODULE VaultPages -----------------------------
(***************************************************************************)
(* What the dashboard shows of the vaults VaultStore saves: keys and       *)
(* folders are paths, a page lists the folders and the files directly      *)
(* below its own, and the user gets to it from Home by clicking folders.   *)
(***************************************************************************)
EXTENDS VaultStore, FolderPaths

\* A key is the name of the file on a path that normalize_path has gone through;
\* create_folder takes a valid name on such a path.
ASSUME KeysAssumption ==
    \A k \in Keys :
        /\ k \in Paths \ {<<>>}
        /\ \A g \in PathsTo(ParentPath(k)) \cup {<<>>} : Normalize(g) = g
ASSUME FoldersAssumption ==
    \A f \in Folders :
        /\ f \in Paths \ {<<>>}
        /\ ValidName(f[Len(f)])
        /\ \A g \in PathsTo(f) \cup {<<>>} : Normalize(g) = g

\* delete_folder_recursive decides what is below a folder.
ASSUME MatchedAssumption ==
    \A f \in Folders : Inside[f] = Matched(f, Keys)
                       /\ Below[f] = Matched(f, Folders)

Listed(v) == {k \in Keys : v.files[k] # {}}

\* The pages the user can get to: every folder on the way is on the page of the
\* one above.
Browsable(v, f) ==
    \A g \in PathsTo(f) : g \in Subfolders(Listed(v), v.folders, ParentPath(g))

PagesBelow(v, f) ==
    {g \in AllFolderPaths(Listed(v), v.folders) \cup {<<>>} :
        Matches(f, g) /\ Browsable(v, g)}

\* Every file of a saved vault can be found: there is exactly one page it is on,
\* and folders to click on that lead there from Home, also when the folder it
\* was uploaded to has been deleted or was never created.
FilesShown ==
    \A n \in 1..Len(appdata) : \A k \in Listed(appdata[n]) :
        LET v == appdata[n]
            pages == {f \in AllFolderPaths(Listed(v), v.folders) \cup {<<>>} :
                         k \in FilesHere(Listed(v), f)}
        IN  \E f \in pages : pages = {f} /\ Browsable(v, f)

FilesBelow(v, f) == UNION {FilesHere(Listed(v), g) : g \in PagesBelow(v, f)}

\* "Delete folder and everything inside it?" takes exactly the files on the pages
\* at and below the folder: none that no click on the folder leads to, and none
\* stays behind.  (No file is called what the folder is, see DeletesInsideOnly.)
DeleteMatchesPages ==
    \A n \in 1..Len(appdata) :
        LET v == appdata[n] IN
        \A f \in {g \in Folders \ Listed(v) : Browsable(v, g)} :
            Listed(v) \ Listed(DeleteFolder(v, f)) = FilesBelow(v, f)

-----------------------------------------------------------------------------
(* What the documentation says and the code does not keep.                 *)

\* vault.py:207: "Removes a folder, every file under it, and every subfolder
\* under it": a request that deletes a folder the user sees erases objects of
\* files on the pages at and below it, and of no others.
DeletesInsideOnly ==
    \A r \in Requests :
        LET v == reqs[r].base
            f == reqs[r].folder
        IN  reqs[r].op = "rmfolder" /\ reqs[r].pc = "erase" /\ Browsable(v, f) =>
                \A k \in Listed(v) \ FilesBelow(v, f) :
                    v.files[k] \cap reqs[r].todo = {}
=============================================================================
