-------------------------- MODULE VaultPages_proofs --------------------------
(***************************************************************************)
(* Proofs about VaultPages: whatever keys and folders a vault holds, its   *)
(* files can be found, and deleting a folder takes what its pages show.    *)
(* Both rest on lemmas about prefixes of paths.                            *)
(***************************************************************************)
EXTENDS VaultPages, VaultStore_proofs, SequenceTheorems, TLAPS

\* A path without its last segment is a path, one shorter.
LEMMA ParentIsPath ==
    ASSUME NEW p \in Paths, p # <<>>
    PROVE  /\ ParentPath(p) \in Paths
           /\ Len(ParentPath(p)) = Len(p) - 1
           /\ \A i \in 1..(Len(p) - 1) : ParentPath(p)[i] = p[i]
<1>1. Len(p) \in Nat \ {0} /\ \A i \in 1..Len(p) : p[i] \in Segments
  BY EmptySeq, ElementOfSeq DEF Paths
<1>2. ParentPath(p) = SubSeq(p, 1, Len(p) - 1)
  BY DEF ParentPath
<1>3. \A i \in 1..(Len(p) - 1) : p[i] \in Segments
  BY <1>1
<1> DEFINE n == Len(p) - 1
<1>4. n \in Int /\ 1 \in Int /\ n + 1 = Len(p) /\ n >= 0
  BY <1>1
<1>5. /\ SubSeq(p, 1, n) \in Seq(Segments)
      /\ Len(SubSeq(p, 1, n)) = IF 1 <= n THEN n - 1 + 1 ELSE 0
      /\ \A i \in 1..(n - 1 + 1) : SubSeq(p, 1, n)[i] = p[1 + i - 1]
  BY <1>3, <1>4, SubSeqProperties
<1>6. \A i \in 1..n : SubSeq(p, 1, n)[i] = p[i]
  BY <1>4, <1>5
<1> QED
  BY <1>2, <1>4, <1>5, <1>6 DEF Paths

\* What leads to a path, segment by segment.
LEMMA PrefixIsPath ==
    ASSUME NEW p \in Paths, NEW n \in 1..Len(p)
    PROVE  /\ SubSeq(p, 1, n) \in Paths \ {<<>>}
           /\ Len(SubSeq(p, 1, n)) = n
           /\ \A i \in 1..n : SubSeq(p, 1, n)[i] = p[i]
  BY DEF Paths

\* Two paths with the same segments are the same.
LEMMA SamePath ==
    ASSUME NEW p \in Paths, NEW q \in Paths, Len(p) = Len(q),
           \A i \in 1..Len(p) : p[i] = q[i]
    PROVE  p = q
  BY DEF Paths

-----------------------------------------------------------------------------
\* The prefixes of a path are those of its parent and the path itself.
LEMMA PrefixesOfParent ==
    ASSUME NEW p \in Paths, p # <<>>
    PROVE  PathsTo(p) = PathsTo(ParentPath(p)) \cup {p}
<1> DEFINE q == ParentPath(p)
<1>1. /\ Len(p) \in Nat \ {0} /\ q \in Paths /\ Len(q) = Len(p) - 1
      /\ \A i \in 1..Len(q) : q[i] = p[i]
  BY ParentIsPath, EmptySeq DEF Paths
<1> HIDE DEF q
<1>2. SubSeq(p, 1, Len(p)) = p
  <2> DEFINE s == SubSeq(p, 1, Len(p))
  <2>1. Len(p) \in 1..Len(p)
    BY <1>1
  <2>2. s \in Paths /\ Len(s) = Len(p) /\ \A i \in 1..Len(p) : s[i] = p[i]
    BY <2>1, PrefixIsPath
  <2> HIDE DEF s
  <2>3. s = p
    BY <2>2, SamePath
  <2> QED
    BY <2>3 DEF s
<1>3. ASSUME NEW n \in 1..Len(q)
      PROVE  SubSeq(q, 1, n) = SubSeq(p, 1, n)
  <2>1. n \in 1..Len(p)
    BY <1>1
  <2>2. /\ SubSeq(q, 1, n) \in Paths /\ Len(SubSeq(q, 1, n)) = n
        /\ \A i \in 1..n : SubSeq(q, 1, n)[i] = q[i]
    BY <1>1, PrefixIsPath
  <2>3. /\ SubSeq(p, 1, n) \in Paths /\ Len(SubSeq(p, 1, n)) = n
        /\ \A i \in 1..n : SubSeq(p, 1, n)[i] = p[i]
    BY <2>1, PrefixIsPath
  <2>4. \A i \in 1..n : q[i] = p[i]
    BY <1>1
  <2> QED
    BY <2>2, <2>3, <2>4, SamePath
<1>4. 1..Len(p) = 1..Len(q) \cup {Len(p)}
  BY <1>1
<1> QED
  BY <1>2, <1>3, <1>4 DEF PathsTo, q

\* A prefix of a prefix is a prefix.
LEMMA PrefixesOfPrefix ==
    ASSUME NEW p \in Paths, NEW g \in PathsTo(p)
    PROVE  g \in Paths \ {<<>>} /\ PathsTo(g) \subseteq PathsTo(p)
<1>1. PICK n \in 1..Len(p) : g = SubSeq(p, 1, n)
  BY DEF PathsTo
<1>2. /\ g \in Paths \ {<<>>} /\ Len(g) = n
      /\ \A i \in 1..n : g[i] = p[i]
  BY <1>1, PrefixIsPath
<1>3. ASSUME NEW m \in 1..Len(g)
      PROVE  SubSeq(g, 1, m) \in PathsTo(p)
  <2>0. Len(p) \in Nat
    BY DEF Paths
  <2>1. m \in 1..Len(p) /\ \A i \in 1..m : g[i] = p[i]
    BY <1>2, <2>0
  <2>2. /\ SubSeq(g, 1, m) \in Paths /\ Len(SubSeq(g, 1, m)) = m
        /\ \A i \in 1..m : SubSeq(g, 1, m)[i] = g[i]
    BY <1>2, PrefixIsPath
  <2>3. /\ SubSeq(p, 1, m) \in Paths /\ Len(SubSeq(p, 1, m)) = m
        /\ \A i \in 1..m : SubSeq(p, 1, m)[i] = p[i]
    BY <2>1, PrefixIsPath
  <2>4. SubSeq(g, 1, m) = SubSeq(p, 1, m)
    BY <2>1, <2>2, <2>3, SamePath
  <2> QED
    BY <2>1, <2>4 DEF PathsTo
<1> QED
  BY <1>2, <1>3 DEF PathsTo

\* "" has no prefix, and every other path is one of its own.
LEMMA PrefixOfItself ==
    ASSUME NEW p \in Paths
    PROVE  IF p = <<>> THEN PathsTo(p) = {} ELSE p \in PathsTo(p)
<1>1. CASE p = <<>>
  BY <1>1 DEF PathsTo
<1>2. CASE p # <<>>
  BY <1>2, PrefixesOfParent
<1> QED
  BY <1>1, <1>2

-----------------------------------------------------------------------------
\* The folder of a listed file, and those above it, are what normalize_path makes
\* of them.
LEMMA FolderIsNormal ==
    ASSUME NEW v, NEW k \in Listed(v)
    PROVE  /\ k \in Paths \ {<<>>} /\ ParentPath(k) \in Paths
           /\ \A g \in PathsTo(ParentPath(k)) \cup {<<>>} : Normalize(g) = g
           /\ Normalize(ParentPath(k)) = ParentPath(k)
<1>1. /\ k \in Paths \ {<<>>}
      /\ \A g \in PathsTo(ParentPath(k)) \cup {<<>>} : Normalize(g) = g
  BY KeysAssumption DEF Listed
<1>2. ParentPath(k) \in Paths
  BY <1>1, ParentIsPath
<1>3. ParentPath(k) \in PathsTo(ParentPath(k)) \cup {<<>>}
  BY <1>2, PrefixOfItself
<1> QED
  BY <1>1, <1>2, <1>3

\* Every folder there is a page of is normal.
LEMMA PageIsNormal ==
    ASSUME NEW v \in Content,
           NEW f \in AllFolderPaths(Listed(v), v.folders) \cup {<<>>},
           v.folders # {} \/ Listed(v) # {}
    PROVE  Normalize(f) = f
<1>1. CASE f \in v.folders
  <2>1. f \in Folders
    BY <1>1 DEF Content
  <2>2. f \in Paths /\ f # <<>>
    BY <2>1, FoldersAssumption
  <2>3. f \in PathsTo(f)
    BY <2>2, PrefixOfItself
  <2> QED
    BY <2>1, <2>3, FoldersAssumption
<1>2. ASSUME NEW k \in Listed(v), f \in AncestorFolders(k)
      PROVE  Normalize(f) = f
  BY <1>2, FolderIsNormal DEF AncestorFolders
<1>3. CASE f = <<>>
  <2>1. CASE v.folders # {}
    <3>1. PICK g \in Folders : TRUE
      BY <2>1 DEF Content
    <3> QED
      BY <1>3, <3>1, FoldersAssumption
  <2>2. CASE Listed(v) # {}
    BY <1>3, <2>2, FolderIsNormal
  <2> QED
    BY <2>1, <2>2
<1> QED
  BY <1>1, <1>2, <1>3 DEF AllFolderPaths

\* The folders that lead to a listed file can be clicked through.
LEMMA AncestorsBrowsable ==
    ASSUME NEW v, NEW k \in Listed(v)
    PROVE  /\ k \in Paths \ {<<>>} /\ ParentPath(k) \in Paths
           /\ ParentPath(k) \in AllFolderPaths(Listed(v), v.folders) \cup {<<>>}
           /\ Browsable(v, ParentPath(k))
<1> DEFINE f == ParentPath(k)
           all == AllFolderPaths(Listed(v), v.folders)
<1>1. /\ k \in Paths \ {<<>>} /\ f \in Paths
      /\ \A g \in PathsTo(f) \cup {<<>>} : Normalize(g) = g
  BY FolderIsNormal
<1>2. ASSUME NEW g \in PathsTo(f)
      PROVE  g \in all /\ g \in Paths \ {<<>>} /\ PathsTo(g) \subseteq PathsTo(f)
  <2>1. g \in Paths \ {<<>>} /\ PathsTo(g) \subseteq PathsTo(f)
    BY <1>1, PrefixesOfPrefix
  <2>2. g \in AncestorFolders(k)
    BY DEF AncestorFolders
  <2> QED
    BY <2>1, <2>2 DEF AllFolderPaths
<1>3. ASSUME NEW g \in PathsTo(f)
      PROVE  g \in Subfolders(Listed(v), v.folders, ParentPath(g))
  <2>1. ParentPath(g) # g /\ ParentPath(g) \in Paths
    BY <1>2, ParentIsPath, EmptySeq DEF Paths
  <2>2. ParentPath(g) \in PathsTo(f) \cup {<<>>}
    <3>1. PathsTo(ParentPath(g)) \subseteq PathsTo(f)
      BY <1>2, PrefixesOfParent
    <3> QED
      BY <2>1, <3>1, PrefixOfItself
  <2>3. Normalize(ParentPath(g)) = ParentPath(g)
    BY <1>1, <2>2
  <2> QED
    BY <1>2, <2>1, <2>3 DEF Subfolders
<1>4. f \in all \cup {<<>>}
  BY <1>1, <1>2, PrefixOfItself
<1> QED
  BY <1>1, <1>3, <1>4 DEF Browsable

\* Whatever vault is saved, each of its files is on exactly one page, and the
\* folders on the way there from Home are on the pages above.
THEOREM FilesCanBeFound == Spec => []FilesShown
<1>1. TypeOK => FilesShown
  <2> SUFFICES ASSUME TypeOK, NEW n \in 1..Len(appdata),
                      NEW k \in Listed(appdata[n])
               PROVE  LET v == appdata[n]
                          pages == {f \in AllFolderPaths(Listed(v), v.folders)
                                            \cup {<<>>} :
                                       k \in FilesHere(Listed(v), f)}
                      IN  \E f \in pages : pages = {f} /\ Browsable(v, f)
    BY DEF FilesShown
  <2> DEFINE v == appdata[n]
             all == AllFolderPaths(Listed(v), v.folders) \cup {<<>>}
             pages == {f \in all : k \in FilesHere(Listed(v), f)}
  <2>1. v \in Content
    BY DEF TypeOK
  <2>2. ParentPath(k) \in all /\ Browsable(v, ParentPath(k))
    BY AncestorsBrowsable
  <2>3. \A f \in all : k \in FilesHere(Listed(v), f) <=> f = ParentPath(k)
    BY <2>1, PageIsNormal DEF FilesHere
  <2>4. pages = {ParentPath(k)}
    BY <2>2, <2>3
  <2> QED
    BY <2>2, <2>4
<1> QED
  BY <1>1, VaultTypeOK, PTL

\* What delete_folder_recursive takes of one vault.
LEMMA DeleteOne ==
    ASSUME NEW v \in Content, NEW f \in Folders \ Listed(v)
    PROVE  Listed(v) \ Listed(DeleteFolder(v, f)) = FilesBelow(v, f)
<1> DEFINE all == AllFolderPaths(Listed(v), v.folders) \cup {<<>>}
<1>1. \A k \in Keys : k \in Listed(DeleteFolder(v, f)) <=>
                        k \in Listed(v) /\ k \notin Inside[f]
  BY DEF DeleteFolder, RemoveFiles, RecordFile, Listed, Content
<1>2. \A k \in Keys : k \in Inside[f] <=> f \in PathsTo(k)
  BY MatchedAssumption DEF Matched, Matches
<1>3. Listed(v) \ Listed(DeleteFolder(v, f)) =
          {k \in Listed(v) : f \in PathsTo(k)}
  BY <1>1, <1>2 DEF Listed
<1>4. ASSUME NEW k \in Listed(v), f \in PathsTo(k)
      PROVE  k \in FilesBelow(v, f)
  <2>1. /\ ParentPath(k) \in all /\ Browsable(v, ParentPath(k))
        /\ k \in Paths \ {<<>>}
    BY AncestorsBrowsable
  <2>2. f \in PathsTo(ParentPath(k))
    BY <1>4, <2>1, PrefixesOfParent
  <2>3. ParentPath(k) \in PagesBelow(v, f)
    BY <2>1, <2>2 DEF PagesBelow, Matches
  <2>4. k \in FilesHere(Listed(v), ParentPath(k))
    BY FolderIsNormal DEF FilesHere
  <2> QED
    BY <2>3, <2>4 DEF FilesBelow
<1>5. ASSUME NEW k \in FilesBelow(v, f)
      PROVE  k \in Listed(v) /\ f \in PathsTo(k)
  <2>1. PICK g \in PagesBelow(v, f) : k \in FilesHere(Listed(v), g)
    BY DEF FilesBelow
  <2>2. /\ k \in Listed(v) /\ ParentPath(k) = Normalize(g)
        /\ f \in PathsTo(g) /\ g \in all
    BY <2>1 DEF FilesHere, PagesBelow, Matches
  <2>3. g = ParentPath(k)
    BY <2>2, PageIsNormal
  <2>4. k \in Paths \ {<<>>}
    BY <2>2, FolderIsNormal
  <2> QED
    BY <2>2, <2>3, <2>4, PrefixesOfParent
<1> QED
  BY <1>3, <1>4, <1>5

\* Deleting a folder takes exactly the files on the pages at and below it, as long
\* as no file is called what the folder is: the prefix delete_folder_recursive
\* compares with selects what list_folder_contents shows.
THEOREM DeleteTakesPages == Spec => []DeleteMatchesPages
<1>1. TypeOK => DeleteMatchesPages
  <2>1. TypeOK => \A n \in 1..Len(appdata) : appdata[n] \in Content
    BY DEF TypeOK
  <2> QED
    BY <2>1, DeleteOne DEF DeleteMatchesPages
<1> QED
  BY <1>1, VaultTypeOK, PTL
=============================================================================
