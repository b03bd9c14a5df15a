------------------------ MODULE UploadSession_proofs ------------------------
(***************************************************************************)
(* For any tabs, workers, files, batches and chunk sizes, however requests *)
(* overlap and whatever is lost or dies: the directories, the requests and *)
(* the tabs are what the code takes them for.                              *)
(*                                                                         *)
(* As long as /upload/init overlaps no other request and all pages cut     *)
(* files alike: meta.json is never torn, it counts chunks that are in      *)
(* data.bin, and only whole files are handed off.  There is one writer     *)
(* then, and the text it writes is meta.json's next.                       *)
(***************************************************************************)
EXTENDS UploadSession, TLAPS

\* What a data.bin may hold.
Contents == SUBSET AllChunks

Directory == [dir : BOOLEAN, data : Contents \cup {ABSENT},
              meta : Text, tmp : Text]

Clean == {"rm_data", "rm_meta", "rm_tmp", "rm_dir"}

\* Where a request of each route can be.
At(op, pc) ==
    \/ op = "idle" /\ pc = "idle"
    \/ op = "init" /\ pc \in {"list", "sweep", "mkdir", "truncate", "open_tmp",
                              "flush", "replace", "reply"} \cup Clean
    \/ op = "chunk" /\ pc \in {"start", "pwrite", "open_tmp", "flush",
                               "replace", "reply"}
    \/ op = "complete" /\ pc \in {"start", "open_data", "drive", "save",
                                  "reply"} \cup Clean

Worker == [op : {"idle", "init", "chunk", "complete"},
           pc : {"idle", "list", "sweep", "mkdir", "truncate", "open_tmp",
                 "flush", "replace", "start", "pwrite", "open_data", "drive",
                 "save", "reply"} \cup Clean,
           tab : Tabs \cup {NONE}, sid : Sids \cup {NONE},
           shape : Shapes \cup {NONE},
           idx : Nat, meta : Meta \cup {NONE},
           fd : {"none", "tmp", "meta", "data", "gone"},
           held : Contents, sweep : SUBSET Sids,
           target : Sids \cup {NONE},
           res : {"none", "ok", "error", "conflict", "bad_meta"}, count : Nat]

Tab == [pc : {"idle", "init", "chunk", "complete", "paused", "done"},
        batch : Batches \cup {<<>>}, start : Nat,
        shape : Shapes \cup {NONE},
        next : Nat, attempt : 0..MaxRetries, waiting : BOOLEAN,
        drops : 0..MaxDrops]

-----------------------------------------------------------------------------
(* The invariant of every behaviour.                                       *)

\* The request r knows what the step it is at needs.
RequestOK(r) ==
    /\ r \in Worker
    /\ At(r.op, r.pc)
    /\ r.op # "idle" =>
          r.sid \in Sids /\ r.shape \in Shapes
    /\ r.op = "idle" => r.tab = NONE
    /\ r.op = "chunk" => <<r.shape, r.idx>> \in AllChunks
    /\ r.pc \in {"open_tmp", "flush", "replace", "pwrite", "open_data",
                 "drive", "save"} => r.meta \in Meta
    /\ r.pc \in Clean =>
          r.target \in Sids /\ (r.op = "complete" => r.meta \in Meta)

\* What r has open in its directory d is there.
OpenOK(r, d) ==
    /\ r.fd = "tmp" => r.pc = "flush" /\ d[r.sid].tmp # ABSENT
    /\ r.fd = "meta" => r.pc = "flush" /\ d[r.sid].meta # ABSENT
    /\ r.fd = "data" => r.pc = "drive" /\ d[r.sid].data # ABSENT

TabOK(b) ==
    /\ b \in Tab
    /\ b.start \in 1..(Len(b.batch) + 1)
    /\ b.pc \in {"init", "chunk", "complete", "paused"} =>
          /\ b.batch \in Batches /\ b.start <= Len(b.batch)
          /\ b.shape \in Shapes
    /\ b.pc = "chunk" => <<b.shape, b.next>> \in AllChunks
    /\ b.waiting => b.pc \in {"init", "chunk", "complete"}

\* Tab b waits for the request r.
Awaits(b, r) == b.waiting /\ b.pc = r.op /\ b.batch[b.start] = r.sid

DiskOK ==
    /\ disk \in [Sids -> Directory]
    /\ \A s \in Sids : ~disk[s].dir => disk[s] = NoSession

WorkersOK ==
    /\ workers \in [Workers -> Worker]
    /\ \A w \in Workers : /\ RequestOK(workers[w]) /\ OpenOK(workers[w], disk)

TabsOK == tabs \in [Tabs -> Tab] /\ \A t \in Tabs : TabOK(tabs[t])

AnswersOK ==
    /\ \A w \in Workers :
          workers[w].tab # NONE => Awaits(tabs[workers[w].tab], workers[w])
    /\ \A v, w \in Workers :
          workers[v].tab = workers[w].tab /\ workers[v].tab # NONE => v = w

OthersOK == faults \in 0..MaxFaults

IInv == DiskOK /\ WorkersOK /\ TabsOK /\ AnswersOK /\ OthersOK

-----------------------------------------------------------------------------
(* What holds besides when init runs alone and there is one chunk size.    *)

Calm == InitAlone /\ \A c, d \in Shapes : c = d

\* The chunks meta.json counts.
Counted(m) == {<<m.shape, k>> : k \in 0..(m.received - 1)}

\* r is between its first and its last change to the session's files.
Writing(r) == r.pc \in {"pwrite", "open_tmp", "flush", "replace"}

InTurn ==
    /\ \A v, w \in Workers :
          workers[v].op = "init" /\ workers[w].op # "idle" => v = w
    /\ \A v, w \in Workers : Writing(workers[v]) /\ Writing(workers[w]) => v = w

\* In directory d, meta.json is whole and counts what data.bin has.
SessionOK(d) ==
    /\ d.meta \notin Torn
    /\ d.meta \in Meta /\ d.data # ABSENT => Counted(d.meta) \subseteq d.data

\* The writer r has the text meta.json will hold next.
WriterOK(r, d) ==
    /\ r.pc \in {"mkdir", "truncate"} => d.meta = ABSENT
    /\ r.pc = "pwrite" => r.idx = r.meta.received
    /\ Writing(r) =>
          /\ d.data # ABSENT => Counted(r.meta) \subseteq d.data
          /\ d.meta \in Meta => r.meta.received >= d.meta.received
    /\ r.pc = "flush" => \/ r.fd = "tmp" /\ d.tmp = EMPTY
                         \/ r.fd = "gone" /\ d.tmp = ABSENT
    /\ r.pc = "replace" => d.tmp \in {ABSENT, r.meta}

\* The request r, with all chunks counted, has or will read the whole file.
ReaderOK(r, d) ==
    r.op = "complete" =>
        /\ r.pc = "open_data" \/ (r.pc = "drive" /\ r.fd = "data") =>
              d.data \in {ABSENT, Chunks(r.meta.shape)}
        /\ r.pc = "drive" => r.fd \in {"data", "gone"}
        /\ (r.pc = "drive" /\ r.fd = "gone") \/ r.pc \in Clean \/ r.pc = "save" =>
              r.held = Chunks(r.meta.shape)

CInv ==
    /\ InTurn
    /\ \A s \in Sids : SessionOK(disk[s])
    /\ \A w \in Workers : workers[w].op # "idle" =>
          /\ WriterOK(workers[w], disk[workers[w].sid])
          /\ ReaderOK(workers[w], disk[workers[w].sid])

-----------------------------------------------------------------------------
(* One request, or several, go on; the tabs wait.                          *)

\* q is the same request as r, further on.
Same(q, r) ==
    /\ q.op = r.op /\ q.tab = r.tab /\ q.sid = r.sid
    /\ q.shape = r.shape /\ q.idx = r.idx

LEMMA FurtherOK ==
    ASSUME NEW r, NEW q, RequestOK(r), Same(q, r), q \in Worker, q.op # "idle",
           At(q.op, q.pc),
           q.pc \in {"open_tmp", "flush", "replace", "pwrite", "open_data",
                     "drive", "save"} => q.meta \in Meta,
           q.pc \in Clean =>
               q.target \in Sids /\ (q.op = "complete" => q.meta \in Meta)
    PROVE  RequestOK(q)
BY DEF RequestOK, Same

LEMMA Moves ==
    ASSUME IInv, DiskOK', workers' \in [Workers -> Worker],
           \A v \in Workers :
               /\ Same(workers'[v], workers[v]) /\ RequestOK(workers'[v])
               /\ OpenOK(workers'[v], disk'),
           UNCHANGED tabs, faults' \in 0..MaxFaults
    PROVE  IInv'
<1>1. AnswersOK'
    BY DEF IInv, AnswersOK, Awaits, Same
<1>2. WorkersOK'
    BY DEF WorkersOK
<1> QED
    BY <1>1, <1>2 DEF IInv, TabsOK, OthersOK

LEMMA OneMoves ==
    ASSUME IInv, NEW w \in Workers, NEW q, workers' = [workers EXCEPT ![w] = q],
           Same(q, workers[w]), RequestOK(q), OpenOK(q, disk'),
           DiskOK',
           \A v \in Workers : v # w => OpenOK(workers[v], disk'),
           UNCHANGED tabs, faults' \in 0..MaxFaults
    PROVE  IInv'
<1>1. q \in Worker /\ workers \in [Workers -> Worker]
    BY DEF RequestOK, IInv, WorkersOK
<1>2. workers' \in [Workers -> Worker]
    BY <1>1
<1>3. \A v \in Workers : workers'[v] = IF v = w THEN q ELSE workers[v]
    BY <1>1
<1>4. ASSUME NEW v \in Workers
      PROVE  /\ Same(workers'[v], workers[v]) /\ RequestOK(workers'[v])
             /\ OpenOK(workers'[v], disk')
    <2>1. CASE v = w
        BY <1>3, <2>1
    <2>2. CASE v # w
        <3>1. /\ RequestOK(workers[v])
              /\ workers'[v] = workers[v] /\ OpenOK(workers[v], disk')
            BY <1>3, <2>2 DEF IInv, WorkersOK
        <3> QED
            BY <3>1 DEF Same
    <2> QED
        BY <2>1, <2>2
<1> QED
    BY <1>2, <1>4, Moves

\* Nothing but r changes.
LEMMA OnlyMoves ==
    ASSUME IInv, NEW w \in Workers, NEW q, workers' = [workers EXCEPT ![w] = q],
           Same(q, workers[w]), RequestOK(q), OpenOK(q, disk),
           UNCHANGED <<disk, tabs>>,
           faults' \in 0..MaxFaults
    PROVE  IInv'
<1>1. DiskOK'
    BY DEF IInv, DiskOK, OthersOK
<1>2. \A v \in Workers : OpenOK(workers[v], disk')
    BY DEF IInv, WorkersOK
<1> QED
    BY <1>1, <1>2, OneMoves

LEMMA FaultsType == IInv => faults \in 0..MaxFaults /\ faults \in Nat
BY BoundsAssumption DEF IInv, OthersOK

Statuses == {"ok", "error", "conflict", "bad_meta"}

LEMMA AnswerOK ==
    ASSUME IInv, NEW w \in Workers, NEW status \in Statuses, NEW n \in Nat,
           workers[w].op # "idle"
    PROVE  \E q : /\ Answer(w, status, n) = [workers EXCEPT ![w] = q]
                 /\ Same(q, workers[w]) /\ RequestOK(q) /\ q.pc = "reply"
                 /\ q.fd = "none" /\ q.res = status /\ q.count = n
                 /\ q.held = workers[w].held
<1> DEFINE r == workers[w]
           q == [r EXCEPT !.pc = "reply", !.res = status, !.count = n,
                          !.fd = "none", !.meta = NONE]
<1>1. r \in Worker /\ RequestOK(r)
    BY DEF IInv, WorkersOK
<1>2. Answer(w, status, n) = [workers EXCEPT ![w] = q]
    BY DEF Answer, IInv, WorkersOK
<1>3. /\ q \in Worker /\ Same(q, r) /\ q.pc = "reply" /\ q.fd = "none"
      /\ q.res = status /\ q.count = n /\ q.held = r.held
    <2>1. r \in Worker
        BY <1>1
    <2>2. q \in Worker
        BY <2>1, ZenonT(60) DEF Worker, Statuses
    <2>3. Same(q, r)
        BY <2>1 DEF Worker, Same
    <2> QED
        BY <2>1, <2>2, <2>3 DEF Worker
<1> HIDE DEF q
<1>4. At(q.op, q.pc)
    <2>1. q.op \in {"init", "chunk", "complete"}
        BY <1>1, <1>3 DEF Same, Worker
    <2> QED
        BY <1>3, <2>1 DEF At
<1>5. RequestOK(q)
    BY <1>1, <1>3, <1>4, FurtherOK DEF Clean, Same
<1> QED
    BY <1>2, <1>3, <1>5

\* A request answers.
LEMMA Answers ==
    ASSUME IInv, NEW w \in Workers, NEW status \in Statuses, NEW n \in Nat,
           workers[w].op # "idle", workers' = Answer(w, status, n),
           UNCHANGED <<disk, tabs>>, faults' \in 0..MaxFaults
    PROVE  IInv'
<1>1. PICK q : /\ workers' = [workers EXCEPT ![w] = q]
               /\ Same(q, workers[w]) /\ RequestOK(q) /\ q.pc = "reply"
               /\ q.fd = "none" /\ q.res = status
    BY AnswerOK
<1>2. OpenOK(q, disk)
    BY <1>1 DEF OpenOK, Same
<1> QED
    BY <1>1, <1>2, OnlyMoves

\* A request goes on to a step that needs nothing new, and nothing else changes.
LEMMA Continues ==
    ASSUME IInv, NEW w \in Workers, NEW q, workers' = [workers EXCEPT ![w] = q],
           Same(q, workers[w]), q \in Worker, workers[w].op # "idle",
           At(q.op, q.pc), q.pc # "reply", OpenOK(q, disk),
           q.pc \in {"open_tmp", "flush", "replace", "pwrite", "open_data",
                     "drive", "save"} => q.meta \in Meta,
           q.pc \in Clean =>
               q.target \in Sids /\ (q.op = "complete" => q.meta \in Meta),
           UNCHANGED <<disk, tabs, faults>>
    PROVE  IInv'
<1>1. RequestOK(workers[w])
    BY DEF IInv, WorkersOK
<1>2. RequestOK(q)
    BY <1>1, FurtherOK DEF Same
<1> QED
    BY <1>2, OnlyMoves, FaultsType

-----------------------------------------------------------------------------
(* One directory changes.                                                  *)

LEMMA DirectoryChanges ==
    ASSUME DiskOK, NEW s \in Sids, NEW d \in Directory,
           ~d.dir => d = NoSession, disk' = [disk EXCEPT ![s] = d]
    PROVE  /\ DiskOK'
           /\ \A x \in Sids : disk'[x] = IF x = s THEN d ELSE disk[x]
<1>1. \A x \in Sids : disk'[x] = IF x = s THEN d ELSE disk[x]
    BY DEF DiskOK
<1>2. disk' \in [Sids -> Directory]
    BY DEF DiskOK
<1> QED
    BY <1>1, <1>2 DEF DiskOK

\* A request changes a directory, none of whose files goes, and goes on.
LEMMA WritesOn ==
    ASSUME IInv, NEW w \in Workers, NEW q, NEW s \in Sids, NEW d \in Directory,
           workers' = [workers EXCEPT ![w] = q],
           disk' = [disk EXCEPT ![s] = d], ~d.dir => d = NoSession,
           Same(q, workers[w]), q \in Worker, workers[w].op # "idle",
           At(q.op, q.pc), q.pc # "reply",
           q.pc \in {"open_tmp", "flush", "replace", "pwrite", "open_data",
                     "drive", "save"} => q.meta \in Meta,
           q.pc \notin Clean,
           \/ q.fd \in {"none", "gone"}
           \/ q.fd = "tmp" /\ q.pc = "flush" /\ q.sid = s /\ d.tmp # ABSENT,
           disk[s].tmp # ABSENT => d.tmp # ABSENT,
           disk[s].meta # ABSENT => d.meta # ABSENT,
           disk[s].data # ABSENT => d.data # ABSENT,
           UNCHANGED <<tabs, faults>>
    PROVE  IInv'
<1>1. RequestOK(workers[w])
    BY DEF IInv, WorkersOK
<1>2. RequestOK(q)
    BY <1>1, FurtherOK DEF Same
<1>3. DiskOK' /\ \A x \in Sids : disk'[x] = IF x = s THEN d ELSE disk[x]
    BY DirectoryChanges DEF IInv
<1>4. ASSUME NEW v \in Workers PROVE OpenOK(workers[v], disk')
    <2>1. RequestOK(workers[v]) /\ OpenOK(workers[v], disk)
        BY DEF IInv, WorkersOK
    <2>2. workers[v].fd \in {"tmp", "meta", "data"} => workers[v].sid \in Sids
        BY <2>1 DEF RequestOK, OpenOK, At
    <2> QED
        BY <1>3, <2>1, <2>2 DEF OpenOK
<1>5. OpenOK(q, disk')
    BY <1>3 DEF OpenOK
<1> QED
    BY <1>2, <1>3, <1>4, <1>5, OneMoves, FaultsType

-----------------------------------------------------------------------------
(* _write_meta.                                                            *)

\* What is known of the request at label pc.
LEMMA At1 ==
    ASSUME IInv, NEW w \in Workers, workers[w].pc # "idle"
    PROVE  /\ RequestOK(workers[w]) /\ workers[w] \in Worker
           /\ OpenOK(workers[w], disk) /\ workers[w].op # "idle"
           /\ workers[w].sid \in Sids /\ disk[workers[w].sid] \in Directory
           /\ workers \in [Workers -> Worker] /\ disk \in [Sids -> Directory]
           /\ ~disk[workers[w].sid].dir => disk[workers[w].sid] = NoSession
BY DEF IInv, WorkersOK, RequestOK, At, DiskOK

LEMMA OpenTmpKeeps ==
    ASSUME IInv, NEW w \in Workers, OpenTmp(w)
    PROVE  IInv'
<1> DEFINE r == workers[w]
           s == r.sid
           q == [r EXCEPT !.fd = "tmp", !.pc = "flush"]
           d == [disk[s] EXCEPT !.tmp = EMPTY]
<1>1. /\ r.pc = "open_tmp" /\ UNCHANGED <<tabs, faults>>
      /\ IF disk[s].dir
         THEN /\ disk' = [disk EXCEPT ![s].tmp = EMPTY]
              /\ workers' = [workers EXCEPT ![w].fd = "tmp", ![w].pc = "flush"]
         ELSE workers' = Answer(w, "error", 0) /\ UNCHANGED disk
    BY DEF OpenTmp
<1>2. /\ RequestOK(r) /\ r \in Worker /\ OpenOK(r, disk) /\ r.op # "idle"
      /\ s \in Sids /\ disk[s] \in Directory
    BY <1>1, At1
<1>3. CASE ~disk[s].dir
    BY <1>1, <1>2, <1>3, Answers, FaultsType DEF Statuses
<1>4. CASE disk[s].dir
    <2>1. workers' = [workers EXCEPT ![w] = q] /\ disk' = [disk EXCEPT ![s] = d]
        BY <1>1, <1>2, <1>4
    <2>2. q \in Worker /\ q.pc = "flush" /\ q.fd = "tmp" /\ q.meta = r.meta
        BY <1>2, ZenonT(60) DEF Worker
    <2>3. Same(q, r) /\ q.sid = s
        BY <1>2 DEF Worker, Same
    <2>4. /\ d \in Directory /\ d.tmp = EMPTY
          /\ d.meta = disk[s].meta /\ d.data = disk[s].data
          /\ ~d.dir => d = NoSession
        BY <1>2, <1>4 DEF Directory, Text, Torn
    <2>5. At(q.op, q.pc) /\ q.meta \in Meta
        BY <1>1, <1>2, <2>2, <2>3 DEF RequestOK, At, Same, Clean
    <2>6. EMPTY # ABSENT
        BY NothingAssumption DEF Torn
    <2> HIDE DEF q, d, s
    <2> QED
        BY <1>1, <1>2, <2>1, <2>2, <2>3, <2>4, <2>5, <2>6, WritesOn DEF Clean
<1> QED
    BY <1>3, <1>4

LEMMA FlushKeeps ==
    ASSUME IInv, NEW w \in Workers, Flush(w)
    PROVE  IInv'
<1> DEFINE r == workers[w]
           s == r.sid
           q == [r EXCEPT !.fd = "none", !.pc = "replace"]
<1>1. /\ r.pc = "flush" /\ UNCHANGED <<tabs, faults>>
      /\ workers' = [workers EXCEPT ![w].fd = "none", ![w].pc = "replace"]
    BY DEF Flush
<1>2. /\ RequestOK(r) /\ r \in Worker /\ OpenOK(r, disk) /\ r.op # "idle"
      /\ s \in Sids /\ disk[s] \in Directory /\ disk \in [Sids -> Directory]
      /\ ~disk[s].dir => disk[s] = NoSession
    BY <1>1, At1
<1>3. \/ UNCHANGED disk
      \/ r.fd = "tmp" /\ \E x \in {r.meta, GARBLED} :
             disk' = [disk EXCEPT ![s].tmp = x]
      \/ r.fd = "meta" /\ \E x \in {r.meta, GARBLED} :
             disk' = [disk EXCEPT ![s].meta = x]
    BY DEF Flush
<1>4. workers' = [workers EXCEPT ![w] = q]
    BY <1>1, <1>2
<1>5. q \in Worker /\ q.pc = "replace" /\ q.fd = "none" /\ q.meta = r.meta
    BY <1>2, ZenonT(60) DEF Worker
<1>6. Same(q, r)
    BY <1>2 DEF Worker, Same
<1> HIDE DEF q
<1>7. At(q.op, q.pc) /\ q.meta \in Meta
    BY <1>1, <1>2, <1>5, <1>6 DEF RequestOK, At, Same, Clean
<1>8. \A x \in {r.meta, GARBLED} : x \in Text /\ x # ABSENT
    BY <1>5, <1>7, NothingAssumption DEF Text, Torn
<1>9. CASE UNCHANGED disk
    <2>1. OpenOK(q, disk)
        BY <1>5 DEF OpenOK
    <2> QED
        BY <1>1, <1>2, <1>4, <1>5, <1>6, <1>7, <1>9, <2>1, Continues DEF Clean
<1>10. ASSUME NEW x \in {r.meta, GARBLED}, r.fd = "tmp",
              disk' = [disk EXCEPT ![s].tmp = x]
       PROVE  IInv'
    <2> DEFINE d == [disk[s] EXCEPT !.tmp = x]
    <2>1. disk' = [disk EXCEPT ![s] = d]
        BY <1>2, <1>10
    <2>2. /\ d \in Directory /\ d.dir = disk[s].dir /\ d.tmp = x
          /\ d.meta = disk[s].meta /\ d.data = disk[s].data
        BY <1>2, <1>8 DEF Directory
    <2>3. disk[s].dir
        BY <1>2, <1>10 DEF OpenOK, NoSession
    <2> HIDE DEF d
    <2> QED
        BY <1>1, <1>2, <1>4, <1>5, <1>6, <1>7, <1>8, <2>1, <2>2, <2>3, WritesOn
        DEF Clean
<1>11. ASSUME NEW x \in {r.meta, GARBLED}, r.fd = "meta",
              disk' = [disk EXCEPT ![s].meta = x]
       PROVE  IInv'
    <2> DEFINE d == [disk[s] EXCEPT !.meta = x]
    <2>1. disk' = [disk EXCEPT ![s] = d]
        BY <1>2, <1>11
    <2>2. /\ d \in Directory /\ d.dir = disk[s].dir /\ d.meta = x
          /\ d.tmp = disk[s].tmp /\ d.data = disk[s].data
        BY <1>2, <1>8 DEF Directory
    <2>3. disk[s].dir
        BY <1>2, <1>11 DEF OpenOK, NoSession
    <2> HIDE DEF d
    <2> QED
        BY <1>1, <1>2, <1>4, <1>5, <1>6, <1>7, <1>8, <2>1, <2>2, <2>3, WritesOn
        DEF Clean
<1> QED
    BY <1>3, <1>9, <1>10, <1>11

\* A request whose descriptor is redirected is where it was.
LEMMA StaysThere ==
    ASSUME IInv, NEW v \in Workers, NEW q \in Worker,
           Same(q, workers[v]), q.pc = workers[v].pc, q.res = workers[v].res,
           q.meta = workers[v].meta, q.target = workers[v].target
    PROVE  RequestOK(q)
<1>1. RequestOK(workers[v])
    BY DEF IInv, WorkersOK
<1> QED
    BY <1>1 DEF RequestOK, Same

LEMMA Redirects ==
    ASSUME IInv, NEW v \in Workers,
           NEW x \in {"meta", "gone"}, NEW q, q = [workers[v] EXCEPT !.fd = x]
    PROVE  /\ q \in Worker /\ Same(q, workers[v]) /\ RequestOK(q)
           /\ q.fd = x /\ q.pc = workers[v].pc
           /\ q.held = workers[v].held /\ q.meta = workers[v].meta
<1> DEFINE r == workers[v]
<1>1. r \in Worker
    BY DEF IInv, WorkersOK
<1>2. /\ q \in Worker /\ q.pc = r.pc /\ q.res = r.res /\ q.meta = r.meta
      /\ q.target = r.target /\ q.fd = x /\ q.held = r.held
    BY <1>1 DEF Worker
<1>3. Same(q, r)
    BY <1>1 DEF Worker, Same
<1>4. RequestOK(q)
    BY <1>2, <1>3, StaysThere
<1> QED
    BY <1>2, <1>3, <1>4

LEMMA ReplaceMetaKeeps ==
    ASSUME IInv, NEW w \in Workers, ReplaceMeta(w)
    PROVE  IInv'
<1> DEFINE r == workers[w]
           s == r.sid
           d == [disk[s] EXCEPT !.meta = disk[s].tmp, !.tmp = ABSENT]
           moved == [tmp |-> "meta", meta |-> "gone"]
<1>1. /\ r.pc = "replace" /\ UNCHANGED <<tabs, faults>>
      /\ IF disk[s].tmp = ABSENT
         THEN workers' = Answer(w, "error", 0) /\ UNCHANGED disk
         ELSE /\ disk' = [disk EXCEPT ![s].meta = disk[s].tmp,
                                      ![s].tmp = ABSENT]
              /\ workers' = Redirected(Answer(w, "ok", r.meta.received), s,
                                       moved)
    BY DEF ReplaceMeta
<1>2. /\ RequestOK(r) /\ r \in Worker /\ OpenOK(r, disk) /\ r.op # "idle"
      /\ s \in Sids /\ disk[s] \in Directory /\ disk \in [Sids -> Directory]
      /\ ~disk[s].dir => disk[s] = NoSession
    BY <1>1, At1
<1>3. CASE disk[s].tmp = ABSENT
    BY <1>1, <1>2, <1>3, Answers, FaultsType DEF Statuses
<1>4. CASE disk[s].tmp # ABSENT
    <2>1. /\ disk' = [disk EXCEPT ![s] = d]
          /\ workers' = Redirected(Answer(w, "ok", r.meta.received), s, moved)
        BY <1>1, <1>2, <1>4
    <2>2. /\ d \in Directory /\ d.dir = disk[s].dir /\ d.tmp = ABSENT
          /\ d.meta = disk[s].tmp /\ d.data = disk[s].data
        BY <1>2 DEF Directory, Text
    <2>3. disk[s].dir
        BY <1>2, <1>4 DEF NoSession
    <2> HIDE DEF d
    <2>4. DiskOK' /\ \A x \in Sids : disk'[x] = IF x = s THEN d ELSE disk[x]
        BY <1>2, <2>1, <2>2, <2>3, DirectoryChanges DEF IInv
    <2>5. r.meta.received \in Nat /\ r.op \in {"init", "chunk"}
        BY <1>1, <1>2 DEF RequestOK, Meta, At, Clean
    <2>6. PICK q : /\ Answer(w, "ok", r.meta.received)
                          = [workers EXCEPT ![w] = q]
                   /\ Same(q, r) /\ RequestOK(q) /\ q.fd = "none"
        <3>1. "ok" \in Statuses
            BY DEF Statuses
        <3> DEFINE n == r.meta.received
        <3>2. n \in Nat
            BY <2>5
        <3> HIDE DEF n
        <3>3. \E q : /\ Answer(w, "ok", n) = [workers EXCEPT ![w] = q]
                     /\ Same(q, r) /\ RequestOK(q) /\ q.fd = "none"
            BY <1>2, <3>1, <3>2, AnswerOK
        <3> QED
            BY <3>3 DEF n
    <2>7. q \in Worker /\ workers \in [Workers -> Worker]
        BY <1>1, <2>6 DEF RequestOK, IInv, WorkersOK, OthersOK
    <2>8. \A v \in Workers :
             workers'[v] =
                 IF v = w THEN q
                 ELSE IF workers[v].sid = s /\ workers[v].fd = "tmp"
                 THEN [workers[v] EXCEPT !.fd = "meta"]
                 ELSE IF workers[v].sid = s /\ workers[v].fd = "meta"
                 THEN [workers[v] EXCEPT !.fd = "gone"]
                 ELSE workers[v]
        <3>1. /\ DOMAIN moved = {"tmp", "meta"} /\ moved["tmp"] = "meta"
              /\ moved["meta"] = "gone"
            OBVIOUS
        <3> HIDE DEF moved
        <3> QED
            BY <2>1, <2>6, <2>7, <3>1 DEF Redirected
    <2>9. workers' \in [Workers -> Worker]
        <3>1. workers' = [v \in Workers |-> workers'[v]]
            BY <2>1 DEF Redirected
        <3>2. \A v \in Workers : workers'[v] \in Worker
            BY <2>7, <2>8, Redirects
        <3> QED
            BY <3>1, <3>2
    <2>10. ASSUME NEW v \in Workers
           PROVE  /\ Same(workers'[v], workers[v]) /\ RequestOK(workers'[v])
                  /\ OpenOK(workers'[v], disk')
        <3>1. /\ RequestOK(workers[v]) /\ OpenOK(workers[v], disk)
              /\ Same(workers[v], workers[v])
            BY DEF IInv, WorkersOK, Same
        <3>2. workers[v].fd \in {"tmp", "meta", "data"} =>
                  workers[v].sid \in Sids
            BY <3>1 DEF RequestOK, OpenOK, At
        <3>3. CASE v = w
            BY <2>5, <2>6, <2>8, <3>3 DEF OpenOK, Same
        <3>4. CASE v # w /\ workers[v].sid = s /\ workers[v].fd = "tmp"
            <4>1. workers'[v] = [workers[v] EXCEPT !.fd = "meta"]
                BY <2>8, <3>4
            <4>2. /\ Same(workers'[v], workers[v]) /\ RequestOK(workers'[v])
                  /\ workers'[v].fd = "meta"
                  /\ workers'[v].pc = workers[v].pc
                BY <2>7, <4>1, Redirects
            <4>3. disk'[s].meta # ABSENT
                BY <1>2, <1>4, <2>2, <2>4
            <4>4. workers'[v].sid = s /\ workers'[v].pc = "flush"
                BY <3>1, <3>4, <4>2 DEF OpenOK, Same
            <4> QED
                BY <4>2, <4>3, <4>4 DEF OpenOK
        <3>5. CASE v # w /\ workers[v].sid = s /\ workers[v].fd = "meta"
            <4>1. workers'[v] = [workers[v] EXCEPT !.fd = "gone"]
                BY <2>8, <3>5
            <4>2. /\ Same(workers'[v], workers[v]) /\ RequestOK(workers'[v])
                  /\ workers'[v].fd = "gone"
                BY <2>7, <4>1, Redirects
            <4> QED
                BY <4>2 DEF OpenOK
        <3>6. CASE /\ v # w
                   /\ workers[v].sid # s \/ workers[v].fd \notin {"tmp", "meta"}
            <4>1. workers'[v] = workers[v]
                BY <2>8, <3>6
            <4>2. OpenOK(workers[v], disk')
                BY <2>2, <2>4, <3>1, <3>2, <3>6 DEF OpenOK
            <4> QED
                BY <3>1, <4>1, <4>2 DEF Same
        <3> QED
            BY <3>3, <3>4, <3>5, <3>6
    <2> QED
        BY <1>1, <2>4, <2>7, <2>9, <2>10, Moves, FaultsType
<1> QED
    BY <1>3, <1>4

-----------------------------------------------------------------------------
(* cleanup_session.                                                        *)

\* q is at the step of r, but for its descriptor and what it read.
Still(q, r) ==
    /\ Same(q, r) /\ q.pc = r.pc /\ q.res = r.res /\ q.meta = r.meta
    /\ q.target = r.target /\ q.sweep = r.sweep

\* A request that cleans up goes on to q.
LEMMA CleansOn ==
    ASSUME IInv, NEW w \in Workers, workers[w].pc \in Clean, NEW q \in Worker,
           Same(q, workers[w]), q.pc \in Clean, q.meta = workers[w].meta,
           q.target = workers[w].target, q.fd = workers[w].fd, NEW d
    PROVE  RequestOK(q) /\ OpenOK(q, d)
<1>1. /\ RequestOK(workers[w]) /\ workers[w].op # "idle"
      /\ OpenOK(workers[w], disk)
    BY At1 DEF Clean
<1>2. At(q.op, q.pc)
    BY <1>1 DEF RequestOK, At, Same, Clean
<1>3. RequestOK(q)
    BY <1>1, <1>2 DEF RequestOK, Same, Clean
<1>4. OpenOK(q, d)
    BY <1>1 DEF OpenOK, Clean
<1> QED
    BY <1>3, <1>4

\* In w's step one of the files of s goes, and who has it open keeps what it has.
FileGone(w, s, file) ==
    LET d == disk'[s]
    IN  /\ s \in Sids /\ workers[w].pc \in Clean /\ workers[w].target = s
        /\ disk' = [disk EXCEPT ![s] = d]
        /\ d \in Directory /\ (~d.dir => d = NoSession)
        /\ file # "data" => d.data = disk[s].data
        /\ file # "meta" => d.meta = disk[s].meta
        /\ file # "tmp" => d.tmp = disk[s].tmp
        /\ workers' \in [Workers -> Worker]
        /\ Same(workers'[w], workers[w]) /\ workers'[w].pc \in Clean
        /\ workers'[w].meta = workers[w].meta
        /\ workers'[w].target = workers[w].target
        /\ workers'[w].fd = workers[w].fd /\ workers'[w].held = workers[w].held
        /\ \A v \in Workers \ {w} :
              /\ Still(workers'[v], workers[v])
              /\ workers'[v].fd =
                    IF workers[v].sid = s /\ workers[v].fd = file THEN "gone"
                    ELSE workers[v].fd

LEMMA FileGoes ==
    ASSUME IInv, NEW w \in Workers, NEW s, NEW file \in {"data", "meta", "tmp"},
           FileGone(w, s, file), UNCHANGED <<tabs, faults>>
    PROVE  IInv'
<1> DEFINE d == disk'[s]
<1>0. /\ workers' \in [Workers -> Worker] /\ s \in Sids
      /\ disk' = [disk EXCEPT ![s] = d] /\ d \in Directory
      /\ ~d.dir => d = NoSession
    BY DEF FileGone
<1>2. DiskOK' /\ \A x \in Sids : disk'[x] = IF x = s THEN d ELSE disk[x]
    <2> HIDE DEF d
    <2> QED
        BY <1>0, DirectoryChanges DEF IInv
<1>3. ASSUME NEW v \in Workers
      PROVE  /\ Same(workers'[v], workers[v]) /\ RequestOK(workers'[v])
             /\ OpenOK(workers'[v], disk')
    <2>1. CASE v = w
        <3>1. /\ workers'[w] \in Worker /\ Same(workers'[w], workers[w])
              /\ workers[w].pc \in Clean /\ workers'[w].pc \in Clean
              /\ workers'[w].meta = workers[w].meta
              /\ workers'[w].target = workers[w].target
              /\ workers'[w].fd = workers[w].fd
            BY <1>0 DEF FileGone
        <3>2. /\ RequestOK(workers'[w]) /\ OpenOK(workers'[w], disk')
            BY <3>1, CleansOn
        <3> QED
            BY <2>1, <3>1, <3>2
    <2>2. CASE v # w
        <3>1. RequestOK(workers[v]) /\ OpenOK(workers[v], disk)
            BY DEF IInv, WorkersOK
        <3>2. workers[v].fd \in {"tmp", "meta", "data"} =>
                  workers[v].sid \in Sids
            BY <3>1 DEF RequestOK, OpenOK, At
        <3>3. /\ workers'[v] \in Worker /\ Still(workers'[v], workers[v])
              /\ workers'[v].fd =
                    IF workers[v].sid = s /\ workers[v].fd = file THEN "gone"
                    ELSE workers[v].fd
            BY <1>0, <2>2 DEF FileGone
        <3>4. RequestOK(workers'[v])
            BY <3>3, StaysThere DEF Still
        <3>5. /\ file # "data" => d.data = disk[s].data
              /\ file # "meta" => d.meta = disk[s].meta
              /\ file # "tmp" => d.tmp = disk[s].tmp
            BY DEF FileGone
        <3> HIDE DEF d
        <3>6. OpenOK(workers'[v], disk')
            BY <1>2, <3>1, <3>2, <3>3, <3>5 DEF OpenOK, Still, Same
        <3> QED
            BY <3>3, <3>4, <3>6 DEF Still
    <2> QED
        BY <2>1, <2>2
<1> QED
    BY <1>0, <1>2, <1>3, Moves, FaultsType

LEMMA RemoveMetaDoes ==
    ASSUME IInv, NEW w \in Workers, RemoveMeta(w)
    PROVE  /\ workers[w].pc = "rm_meta" /\ FileGone(w, workers[w].target, "meta")
          /\ disk'[workers[w].target].dir = disk[workers[w].target].dir
          /\ disk'[workers[w].target].meta = ABSENT
          /\ workers'[w].pc = "rm_tmp"
          /\ \A v \in Workers \ {w} : workers'[v].held = workers[v].held
<1> DEFINE r == workers[w]
           s == r.target
           d == [disk[s] EXCEPT !.meta = ABSENT]
           q == [r EXCEPT !.pc = "rm_tmp"]
<1>1. /\ r.pc = "rm_meta" /\ disk' = [disk EXCEPT ![s].meta = ABSENT]
      /\ workers' = [Redirected(workers, s, [meta |-> "gone"])
                         EXCEPT ![w].pc = "rm_tmp"]
    BY DEF RemoveMeta
<1>2. /\ RequestOK(r) /\ r \in Worker /\ OpenOK(r, disk) /\ r.op # "idle"
      /\ workers \in [Workers -> Worker] /\ disk \in [Sids -> Directory]
    BY <1>1, At1
<1>3. s \in Sids /\ r.fd # "meta"
    BY <1>1, <1>2 DEF RequestOK, OpenOK, Clean
<1>4. disk[s] \in Directory /\ (~disk[s].dir => disk[s] = NoSession)
    BY <1>3 DEF IInv, DiskOK
<1>5. disk' = [disk EXCEPT ![s] = d]
    BY <1>1, <1>2, <1>3
<1>6. /\ d \in Directory /\ d.dir = disk[s].dir /\ d.meta = ABSENT
      /\ d.data = disk[s].data /\ d.tmp = disk[s].tmp
    BY <1>4 DEF Directory, Text
<1>7. ~d.dir => d = NoSession
    BY <1>4 DEF Directory, NoSession
<1>8. /\ q \in Worker /\ q.pc = "rm_tmp" /\ q.meta = r.meta /\ q.fd = r.fd
      /\ q.target = s /\ q.held = r.held
    BY <1>2 DEF Worker, Clean
<1>9. Same(q, r)
    BY <1>2 DEF Worker, Same
<1>10. \A v \in Workers :
          workers'[v] = IF v = w THEN q
                        ELSE IF workers[v].sid = s /\ workers[v].fd = "meta"
                        THEN [workers[v] EXCEPT !.fd = "gone"]
                        ELSE workers[v]
    <2>1. /\ DOMAIN [meta |-> "gone"] = {"meta"}
          /\ [meta |-> "gone"]["meta"] = "gone"
        OBVIOUS
    <2> QED
        BY <1>1, <1>3, <2>1 DEF Redirected
<1>11. workers' = [v \in Workers |-> workers'[v]]
    BY <1>1 DEF Redirected
<1>12. ASSUME NEW v \in Workers, v # w
       PROVE  /\ workers'[v] \in Worker /\ Still(workers'[v], workers[v])
              /\ workers'[v].fd =
                    IF workers[v].sid = s /\ workers[v].fd = "meta"
                    THEN "gone" ELSE workers[v].fd
              /\ workers'[v].held = workers[v].held
    <2> DEFINE p == [workers[v] EXCEPT !.fd = "gone"]
    <2>1. workers[v] \in Worker
        BY <1>2
    <2>2. /\ p \in Worker /\ p.pc = workers[v].pc /\ p.res = workers[v].res
          /\ p.meta = workers[v].meta /\ p.target = workers[v].target
          /\ p.sweep = workers[v].sweep
          /\ p.fd = "gone" /\ p.held = workers[v].held
        BY <2>1 DEF Worker
    <2>3. Same(p, workers[v])
        BY <2>1 DEF Worker, Same
    <2>4. CASE workers[v].sid = s /\ workers[v].fd = "meta"
        <3>1. workers'[v] = p
            BY <1>10, <1>12, <2>4
        <3> HIDE DEF p, d, q
        <3> QED
            BY <2>2, <2>3, <2>4, <3>1 DEF Still
    <2>5. CASE ~(workers[v].sid = s /\ workers[v].fd = "meta")
        <3>1. workers'[v] = workers[v]
            BY <1>10, <1>12, <2>5
        <3> HIDE DEF p, d, q
        <3> QED
            BY <2>1, <2>5, <3>1 DEF Still, Same
    <2> QED
        BY <2>4, <2>5
<1> HIDE DEF q, d
<1>13. disk'[s] = d
    BY <1>2, <1>3, <1>5
<1>14. workers'[w] = q
    BY <1>10
<1>15. workers' \in [Workers -> Worker]
    <2>1. \A v \in Workers : workers'[v] \in Worker
        BY <1>8, <1>12, <1>14
    <2> QED
        BY <1>11, <2>1
<1>16. FileGone(w, s, "meta")
    BY <1>1, <1>2, <1>3, <1>5, <1>6, <1>7, <1>8, <1>9, <1>12, <1>13, <1>14,
       <1>15 DEF FileGone, Clean
<1> QED
    BY <1>1, <1>2, <1>6, <1>8, <1>12, <1>13, <1>14, <1>16

LEMMA RemoveMetaKeeps ==
    ASSUME IInv, NEW w \in Workers, RemoveMeta(w)
    PROVE  IInv'
<1>1. UNCHANGED <<tabs, faults>>
    BY DEF RemoveMeta
<1> QED
    BY <1>1, RemoveMetaDoes, FileGoes

LEMMA RemoveDataDoes ==
    ASSUME IInv, NEW w \in Workers, RemoveData(w)
    PROVE  /\ workers[w].pc = "rm_data" /\ FileGone(w, workers[w].target, "data")
          /\ disk'[workers[w].target].dir = disk[workers[w].target].dir
          /\ disk'[workers[w].target].data = ABSENT
          /\ workers'[w].pc = "rm_meta"
          /\ \A v \in Workers \ {w} :
                workers'[v].held =
                    IF workers[v].sid = workers[w].target /\ workers[v].fd = "data"
                    THEN disk[workers[w].target].data ELSE workers[v].held
<1> DEFINE r == workers[w]
           s == r.target
           d == [disk[s] EXCEPT !.data = ABSENT]
           q == [r EXCEPT !.pc = "rm_meta"]
<1>1. /\ r.pc = "rm_data" /\ disk' = [disk EXCEPT ![s].data = ABSENT]
      /\ workers' =
            [[v \in Workers |->
                 IF workers[v].sid = s /\ workers[v].fd = "data"
                 THEN [workers[v] EXCEPT !.fd = "gone", !.held = disk[s].data]
                 ELSE workers[v]] EXCEPT ![w].pc = "rm_meta"]
    BY DEF RemoveData
<1>2. /\ RequestOK(r) /\ r \in Worker /\ OpenOK(r, disk) /\ r.op # "idle"
      /\ workers \in [Workers -> Worker] /\ disk \in [Sids -> Directory]
    BY <1>1, At1
<1>3. s \in Sids /\ r.fd # "data"
    BY <1>1, <1>2 DEF RequestOK, OpenOK, Clean
<1>4. disk[s] \in Directory /\ (~disk[s].dir => disk[s] = NoSession)
    BY <1>3 DEF IInv, DiskOK
<1>5. disk' = [disk EXCEPT ![s] = d]
    BY <1>1, <1>2, <1>3
<1>6. /\ d \in Directory /\ d.dir = disk[s].dir /\ d.data = ABSENT
      /\ d.meta = disk[s].meta /\ d.tmp = disk[s].tmp
    BY <1>4 DEF Directory
<1>7. ~d.dir => d = NoSession
    BY <1>4 DEF Directory, NoSession
<1>8. /\ q \in Worker /\ q.pc = "rm_meta" /\ q.meta = r.meta /\ q.fd = r.fd
      /\ q.target = s /\ q.held = r.held
    BY <1>2 DEF Worker, Clean
<1>9. Same(q, r)
    BY <1>2 DEF Worker, Same
<1>10. \A v \in Workers :
          workers'[v] = IF v = w THEN q
                        ELSE IF workers[v].sid = s /\ workers[v].fd = "data"
                        THEN [workers[v] EXCEPT !.fd = "gone",
                                                !.held = disk[s].data]
                        ELSE workers[v]
    BY <1>1, <1>3
<1>11. workers' = [v \in Workers |-> workers'[v]]
    BY <1>1
<1>12. ASSUME NEW v \in Workers, v # w
       PROVE  /\ workers'[v] \in Worker /\ Still(workers'[v], workers[v])
              /\ workers'[v].fd =
                    IF workers[v].sid = s /\ workers[v].fd = "data"
                    THEN "gone" ELSE workers[v].fd
              /\ workers'[v].held =
                    IF workers[v].sid = s /\ workers[v].fd = "data"
                    THEN disk[s].data ELSE workers[v].held
    <2>1. workers[v] \in Worker /\ OpenOK(workers[v], disk)
        BY <1>2 DEF IInv, WorkersOK
    <2>2. CASE workers[v].sid = s /\ workers[v].fd = "data"
        <3> DEFINE h == disk[s].data
                   p == [workers[v] EXCEPT !.fd = "gone", !.held = h]
        <3>1. workers'[v] = p
            BY <1>10, <1>12, <2>2
        <3>2. h \in Contents
            <4>1. h # ABSENT
                BY <2>1, <2>2 DEF OpenOK
            <4>2. h \in Contents \cup {ABSENT}
                BY <1>4 DEF Directory
            <4> HIDE DEF h
            <4> QED
                BY <4>1, <4>2
        <3> HIDE DEF h
        <3>3. /\ p \in Worker /\ p.pc = workers[v].pc /\ p.res = workers[v].res
              /\ p.meta = workers[v].meta /\ p.target = workers[v].target
              /\ p.sweep = workers[v].sweep /\ p.fd = "gone" /\ p.held = h
            <4>1. workers[v] \in Worker
                BY <2>1
            <4>2. p \in Worker
                BY <3>2, <4>1, ZenonT(60) DEF Worker
            <4> QED
                BY <4>1, <4>2 DEF Worker
        <3>4. Same(p, workers[v])
            BY <2>1 DEF Worker, Same
        <3> HIDE DEF p, d, q
        <3>5. /\ workers'[v] \in Worker /\ Still(workers'[v], workers[v])
              /\ workers'[v].fd = "gone" /\ workers'[v].held = h
            BY <3>1, <3>3, <3>4 DEF Still
        <3> QED
            BY <2>2, <3>5 DEF h
    <2>3. CASE ~(workers[v].sid = s /\ workers[v].fd = "data")
        <3>1. workers'[v] = workers[v]
            BY <1>10, <1>12, <2>3
        <3> HIDE DEF d, q
        <3> QED
            BY <2>1, <2>3, <3>1 DEF Still, Same
    <2> QED
        BY <2>2, <2>3
<1> HIDE DEF q, d
<1>13. disk'[s] = d
    BY <1>2, <1>3, <1>5
<1>14. workers'[w] = q
    BY <1>10
<1>15. workers' \in [Workers -> Worker]
    <2>1. \A v \in Workers : workers'[v] \in Worker
        BY <1>8, <1>12, <1>14
    <2> QED
        BY <1>11, <2>1
<1>16. FileGone(w, s, "data")
    BY <1>1, <1>2, <1>3, <1>5, <1>6, <1>7, <1>8, <1>9, <1>12, <1>13, <1>14,
       <1>15 DEF FileGone, Clean
<1> QED
    BY <1>1, <1>2, <1>6, <1>8, <1>12, <1>13, <1>14, <1>16

LEMMA RemoveDataKeeps ==
    ASSUME IInv, NEW w \in Workers, RemoveData(w)
    PROVE  IInv'
<1>1. UNCHANGED <<tabs, faults>>
    BY DEF RemoveData
<1> QED
    BY <1>1, RemoveDataDoes, FileGoes

LEMMA RemoveTmpDoes ==
    ASSUME IInv, NEW w \in Workers, RemoveTmp(w)
    PROVE  /\ workers[w].pc = "rm_tmp" /\ FileGone(w, workers[w].target, "tmp")
          /\ disk'[workers[w].target].dir = disk[workers[w].target].dir
          /\ disk'[workers[w].target].tmp = ABSENT
          /\ workers'[w].pc = "rm_dir"
          /\ \A v \in Workers \ {w} : workers'[v].held = workers[v].held
<1> DEFINE r == workers[w]
           s == r.target
           d == [disk[s] EXCEPT !.tmp = ABSENT]
           q == [r EXCEPT !.pc = "rm_dir"]
<1>1. /\ r.pc = "rm_tmp" /\ disk' = [disk EXCEPT ![s].tmp = ABSENT]
      /\ workers' = [Redirected(workers, s, [tmp |-> "gone"])
                         EXCEPT ![w].pc = "rm_dir"]
    BY DEF RemoveTmp
<1>2. /\ RequestOK(r) /\ r \in Worker /\ OpenOK(r, disk) /\ r.op # "idle"
      /\ workers \in [Workers -> Worker] /\ disk \in [Sids -> Directory]
    BY <1>1, At1
<1>3. s \in Sids /\ r.fd # "tmp"
    BY <1>1, <1>2 DEF RequestOK, OpenOK, Clean
<1>4. disk[s] \in Directory /\ (~disk[s].dir => disk[s] = NoSession)
    BY <1>3 DEF IInv, DiskOK
<1>5. disk' = [disk EXCEPT ![s] = d]
    BY <1>1, <1>2, <1>3
<1>6. /\ d \in Directory /\ d.dir = disk[s].dir /\ d.tmp = ABSENT
      /\ d.data = disk[s].data /\ d.meta = disk[s].meta
    BY <1>4 DEF Directory, Text
<1>7. ~d.dir => d = NoSession
    BY <1>4 DEF Directory, NoSession
<1>8. /\ q \in Worker /\ q.pc = "rm_dir" /\ q.meta = r.meta /\ q.fd = r.fd
      /\ q.target = s /\ q.held = r.held
    BY <1>2 DEF Worker, Clean
<1>9. Same(q, r)
    BY <1>2 DEF Worker, Same
<1>10. \A v \in Workers :
          workers'[v] = IF v = w THEN q
                        ELSE IF workers[v].sid = s /\ workers[v].fd = "tmp"
                        THEN [workers[v] EXCEPT !.fd = "gone"]
                        ELSE workers[v]
    <2>1. /\ DOMAIN [tmp |-> "gone"] = {"tmp"}
          /\ [tmp |-> "gone"]["tmp"] = "gone"
        OBVIOUS
    <2> QED
        BY <1>1, <1>3, <2>1 DEF Redirected
<1>11. workers' = [v \in Workers |-> workers'[v]]
    BY <1>1 DEF Redirected
<1>12. ASSUME NEW v \in Workers, v # w
       PROVE  /\ workers'[v] \in Worker /\ Still(workers'[v], workers[v])
              /\ workers'[v].fd =
                    IF workers[v].sid = s /\ workers[v].fd = "tmp"
                    THEN "gone" ELSE workers[v].fd
              /\ workers'[v].held = workers[v].held
    <2> DEFINE p == [workers[v] EXCEPT !.fd = "gone"]
    <2>1. workers[v] \in Worker
        BY <1>2
    <2>2. /\ p \in Worker /\ p.pc = workers[v].pc /\ p.res = workers[v].res
          /\ p.meta = workers[v].meta /\ p.target = workers[v].target
          /\ p.sweep = workers[v].sweep
          /\ p.fd = "gone" /\ p.held = workers[v].held
        BY <2>1 DEF Worker
    <2>3. Same(p, workers[v])
        BY <2>1 DEF Worker, Same
    <2>4. CASE workers[v].sid = s /\ workers[v].fd = "tmp"
        <3>1. workers'[v] = p
            BY <1>10, <1>12, <2>4
        <3> HIDE DEF p, d, q
        <3> QED
            BY <2>2, <2>3, <2>4, <3>1 DEF Still
    <2>5. CASE ~(workers[v].sid = s /\ workers[v].fd = "tmp")
        <3>1. workers'[v] = workers[v]
            BY <1>10, <1>12, <2>5
        <3> HIDE DEF p, d, q
        <3> QED
            BY <2>1, <2>5, <3>1 DEF Still, Same
    <2> QED
        BY <2>4, <2>5
<1> HIDE DEF q, d
<1>13. disk'[s] = d
    BY <1>2, <1>3, <1>5
<1>14. workers'[w] = q
    BY <1>10
<1>15. workers' \in [Workers -> Worker]
    <2>1. \A v \in Workers : workers'[v] \in Worker
        BY <1>8, <1>12, <1>14
    <2> QED
        BY <1>11, <2>1
<1>16. FileGone(w, s, "tmp")
    BY <1>1, <1>2, <1>3, <1>5, <1>6, <1>7, <1>8, <1>9, <1>12, <1>13, <1>14,
       <1>15 DEF FileGone, Clean
<1> QED
    BY <1>1, <1>2, <1>6, <1>8, <1>12, <1>13, <1>14, <1>16

LEMMA RemoveTmpKeeps ==
    ASSUME IInv, NEW w \in Workers, RemoveTmp(w)
    PROVE  IInv'
<1>1. UNCHANGED <<tabs, faults>>
    BY DEF RemoveTmp
<1> QED
    BY <1>1, RemoveTmpDoes, FileGoes

LEMMA RemoveDirKeeps ==
    ASSUME IInv, NEW w \in Workers, RemoveDir(w)
    PROVE  IInv'
<1> DEFINE r == workers[w]
           s == r.target
           next == IF r.op = "init" THEN "sweep" ELSE "save"
           q == [r EXCEPT !.target = NONE, !.pc = next]
           empty == disk[s].data = ABSENT /\ disk[s].meta = ABSENT
                    /\ disk[s].tmp = ABSENT
           d == [disk[s] EXCEPT !.dir = disk[s].dir /\ ~empty]
<1>1. /\ r.pc = "rm_dir" /\ UNCHANGED <<tabs, faults>>
      /\ disk' = [disk EXCEPT ![s].dir = @ /\ ~empty]
      /\ workers' = [workers EXCEPT ![w].target = NONE, ![w].pc = next]
    BY DEF RemoveDir
<1>2. /\ RequestOK(r) /\ r \in Worker /\ OpenOK(r, disk) /\ r.op # "idle"
      /\ workers \in [Workers -> Worker] /\ disk \in [Sids -> Directory]
    BY <1>1, At1
<1>3. /\ s \in Sids /\ r.op \in {"init", "complete"}
      /\ r.op = "complete" => r.meta \in Meta
      /\ r.fd \in {"none", "gone"}
    BY <1>1, <1>2 DEF RequestOK, OpenOK, Clean, At, Worker
<1>4. disk[s] \in Directory /\ (~disk[s].dir => disk[s] = NoSession)
    BY <1>3 DEF IInv, DiskOK
<1>5. /\ disk' = [disk EXCEPT ![s] = d]
      /\ workers' = [workers EXCEPT ![w] = q]
    <2> HIDE DEF empty, next
    <2> QED
        BY <1>1, <1>2, <1>3
<1>6. /\ d \in Directory /\ d.dir = (disk[s].dir /\ ~empty)
      /\ d.data = disk[s].data /\ d.meta = disk[s].meta /\ d.tmp = disk[s].tmp
    <2>1. empty \in BOOLEAN /\ disk[s].dir \in BOOLEAN
        BY <1>4 DEF Directory
    <2> HIDE DEF empty
    <2> QED
        BY <1>4, <2>1 DEF Directory
<1>7. ~d.dir => d = NoSession
    <2>1. CASE ~disk[s].dir
        BY <1>4, <1>6, <2>1 DEF Directory, NoSession
    <2>2. CASE empty
        <3>1. disk[s].dir = FALSE \/ disk[s].dir = TRUE
            BY <1>4 DEF Directory
        <3>2. d.dir = FALSE
            <4> HIDE DEF empty, d
            <4> QED
                BY <1>6, <2>2, <3>1
        <3>3. d.data = ABSENT /\ d.meta = ABSENT /\ d.tmp = ABSENT
            BY <1>6, <2>2
        <3> HIDE DEF d
        <3> QED
            BY <1>6, <3>2, <3>3 DEF Directory, NoSession
    <2> QED
        BY <1>6, <2>1, <2>2
<1>8. /\ q \in Worker /\ q.pc = next /\ q.meta = r.meta /\ q.fd = r.fd
      /\ next \in {"sweep", "save"}
    <2>1. next \in {"sweep", "save"}
        OBVIOUS
    <2> HIDE DEF next
    <2>2. q \in Worker
        BY <1>2, <2>1 DEF Worker
    <2> QED
        BY <1>2, <2>1, <2>2 DEF Worker
<1>9. Same(q, r)
    BY <1>2 DEF Worker, Same
<1>10. At(q.op, q.pc) /\ (q.pc = "save" => q.meta \in Meta)
    BY <1>3, <1>8, <1>9 DEF At, Same
<1> HIDE DEF q, d, next, empty
<1>11. q.pc \notin Clean /\ q.pc # "reply"
       /\ (q.pc \in {"open_tmp", "flush", "replace", "pwrite", "open_data",
                     "drive", "save"} => q.meta \in Meta)
    BY <1>8, <1>10 DEF Clean
<1>12. /\ q.fd \in {"none", "gone"}
       /\ disk[s].tmp # ABSENT => d.tmp # ABSENT
       /\ disk[s].meta # ABSENT => d.meta # ABSENT
       /\ disk[s].data # ABSENT => d.data # ABSENT
       /\ UNCHANGED <<tabs, faults>>
    BY <1>1, <1>3, <1>6, <1>8
<1> HIDE DEF s
<1> QED
    BY <1>2, <1>3, <1>5, <1>6, <1>7, <1>8, <1>9, <1>10, <1>11, <1>12, WritesOn

-----------------------------------------------------------------------------
(* /upload/init.                                                           *)

LEMMA ListSessionsKeeps ==
    ASSUME IInv, NEW w \in Workers, ListSessions(w)
    PROVE  IInv'
<1> DEFINE r == workers[w]
           found == {s \in Sids : disk[s].dir}
           q == [r EXCEPT !.sweep = found, !.pc = "sweep"]
<1>1. /\ r.pc = "list" /\ UNCHANGED <<disk, tabs, faults>>
      /\ workers' = [workers EXCEPT ![w].sweep = found, ![w].pc = "sweep"]
    BY DEF ListSessions
<1>2. /\ RequestOK(r) /\ r \in Worker /\ OpenOK(r, disk) /\ r.op # "idle"
      /\ workers \in [Workers -> Worker]
    BY <1>1, At1
<1>3. workers' = [workers EXCEPT ![w] = q] /\ found \in SUBSET Sids
    BY <1>1, <1>2
<1> HIDE DEF found
<1>4. q \in Worker /\ q.pc = "sweep" /\ q.fd = r.fd
    BY <1>2, <1>3 DEF Worker
<1>5. Same(q, r)
    BY <1>2 DEF Worker, Same
<1> HIDE DEF q
<1>6. At(q.op, q.pc) /\ OpenOK(q, disk)
    BY <1>1, <1>2, <1>4, <1>5 DEF RequestOK, OpenOK, At, Same, Clean
<1> QED
    BY <1>1, <1>2, <1>3, <1>4, <1>5, <1>6, Continues DEF Clean

LEMMA SweepOneKeeps ==
    ASSUME IInv, NEW w \in Workers, SweepOne(w)
    PROVE  IInv'
<1> DEFINE r == workers[w]
<1>1. /\ r.pc = "sweep" /\ UNCHANGED <<disk, tabs, faults>>
    BY DEF SweepOne
<1>2. /\ RequestOK(r) /\ r \in Worker /\ OpenOK(r, disk) /\ r.op # "idle"
      /\ workers \in [Workers -> Worker] /\ r.op = "init"
      /\ r.fd \in {"none", "gone"}
    <2>1. /\ RequestOK(r) /\ r \in Worker /\ OpenOK(r, disk) /\ r.op # "idle"
          /\ workers \in [Workers -> Worker]
        BY <1>1, At1
    <2> QED
        BY <1>1, <2>1 DEF RequestOK, OpenOK, At, Clean, Worker
<1>3. PICK e \in r.sweep :
         \/ workers' = Answer(w, "bad_meta", 0)
         \/ workers' = [workers EXCEPT ![w].sweep = @ \ {e},
                                       ![w].target = e, ![w].pc = "rm_data"]
         \/ workers' = [workers EXCEPT ![w].sweep = @ \ {e}]
    BY DEF SweepOne
<1>4. e \in Sids /\ r.sweep \in SUBSET Sids /\ r.sweep \ {e} \in SUBSET Sids
    BY <1>2 DEF Worker
<1>5. CASE workers' = Answer(w, "bad_meta", 0)
    BY <1>1, <1>2, <1>5, Answers, FaultsType DEF Statuses
<1>6. CASE workers' = [workers EXCEPT ![w].sweep = @ \ {e},
                                      ![w].target = e, ![w].pc = "rm_data"]
    <2> DEFINE left == r.sweep \ {e}
               q == [r EXCEPT !.sweep = left, !.target = e, !.pc = "rm_data"]
    <2>1. workers' = [workers EXCEPT ![w] = q]
        BY <1>2, <1>6
    <2>2. left \in SUBSET Sids
        BY <1>4
    <2> HIDE DEF left
    <2>3. q \in Worker /\ q.pc = "rm_data" /\ q.fd = r.fd /\ q.target = e
        <3> DEFINE p == [r EXCEPT !.sweep = left]
        <3>1. p \in Worker /\ p.fd = r.fd
            BY <1>2, <2>2 DEF Worker
        <3>2. q = [p EXCEPT !.target = e, !.pc = "rm_data"]
            BY <1>2 DEF Worker
        <3> HIDE DEF p, q
        <3> QED
            BY <1>4, <3>1, <3>2, ZenonT(60) DEF Worker, Clean
    <2>4. Same(q, r)
        BY <1>2 DEF Worker, Same
    <2> HIDE DEF q
    <2>5. At(q.op, q.pc) /\ OpenOK(q, disk) /\ q.op = "init"
        BY <1>2, <2>3, <2>4 DEF OpenOK, At, Same, Clean
    <2> QED
        BY <1>1, <1>2, <1>4, <2>1, <2>3, <2>4, <2>5, Continues
<1>7. CASE workers' = [workers EXCEPT ![w].sweep = @ \ {e}]
    <2> DEFINE left == r.sweep \ {e}
               q == [r EXCEPT !.sweep = left]
    <2>1. workers' = [workers EXCEPT ![w] = q]
        BY <1>2, <1>7
    <2>2. left \in SUBSET Sids
        BY <1>4
    <2> HIDE DEF left
    <2>3. q \in Worker /\ q.pc = "sweep" /\ q.fd = r.fd
        BY <1>1, <1>2, <2>2 DEF Worker
    <2>4. Same(q, r)
        BY <1>2 DEF Worker, Same
    <2> HIDE DEF q
    <2>5. At(q.op, q.pc) /\ OpenOK(q, disk)
        BY <1>2, <2>3, <2>4 DEF OpenOK, At, Same, Clean
    <2> QED
        BY <1>1, <1>2, <2>1, <2>3, <2>4, <2>5, Continues DEF Clean
<1> QED
    BY <1>3, <1>5, <1>6, <1>7

LEMMA ReadMetaKeeps ==
    ASSUME IInv, NEW w \in Workers, ReadMeta(w)
    PROVE  IInv'
<1> DEFINE r == workers[w]
           m == disk[r.sid].meta
           n == [m EXCEPT !.old = FALSE]
<1>1. /\ r.pc = "sweep" /\ UNCHANGED <<disk, tabs, faults>>
    BY DEF ReadMeta
<1>2. \/ workers' = Answer(w, "bad_meta", 0)
      \/ /\ m \notin Torn /\ m # ABSENT
         /\ workers' = [workers EXCEPT ![w].meta = n, ![w].pc = "open_tmp"]
      \/ workers' = [workers EXCEPT ![w].pc = "mkdir"]
    BY DEF ReadMeta, Goto
<1>3. /\ RequestOK(r) /\ r \in Worker /\ OpenOK(r, disk) /\ r.op # "idle"
      /\ workers \in [Workers -> Worker] /\ disk[r.sid] \in Directory
    BY <1>1, At1
<1>4. r.op = "init" /\ r.fd \in {"none", "gone"}
    BY <1>1, <1>3 DEF RequestOK, OpenOK, At, Clean, Worker
<1>5. CASE workers' = Answer(w, "bad_meta", 0)
    BY <1>1, <1>3, <1>5, Answers, FaultsType DEF Statuses
<1>6. CASE /\ m \notin Torn /\ m # ABSENT
           /\ workers' = [workers EXCEPT ![w].meta = n, ![w].pc = "open_tmp"]
    <2> DEFINE q == [r EXCEPT !.meta = n, !.pc = "open_tmp"]
    <2>1. n \in Meta
        <3>1. m \in Meta
            BY <1>3, <1>6 DEF Directory, Text
        <3> HIDE DEF m
        <3> QED
            BY <3>1 DEF Meta
    <2> HIDE DEF n, m
    <2>2. workers' = [workers EXCEPT ![w] = q]
        BY <1>3, <1>6
    <2>3. /\ q \in Worker /\ q.pc = "open_tmp" /\ q.fd = r.fd /\ q.meta \in Meta
        BY <1>3, <2>1, ZenonT(60) DEF Worker
    <2>4. Same(q, r)
        BY <1>3 DEF Worker, Same
    <2> HIDE DEF q
    <2>5. At(q.op, q.pc) /\ OpenOK(q, disk)
        BY <1>4, <2>3, <2>4 DEF OpenOK, At, Same
    <2> QED
        BY <1>1, <1>3, <2>2, <2>3, <2>4, <2>5, Continues DEF Clean
<1>7. CASE workers' = [workers EXCEPT ![w].pc = "mkdir"]
    <2> DEFINE q == [r EXCEPT !.pc = "mkdir"]
    <2>1. workers' = [workers EXCEPT ![w] = q]
        BY <1>3, <1>7
    <2>2. q \in Worker /\ q.pc = "mkdir" /\ q.fd = r.fd
        BY <1>3 DEF Worker
    <2>3. Same(q, r)
        BY <1>3 DEF Worker, Same
    <2> HIDE DEF q
    <2>4. At(q.op, q.pc) /\ OpenOK(q, disk)
        BY <1>4, <2>2, <2>3 DEF OpenOK, At, Same
    <2> QED
        BY <1>1, <1>3, <2>1, <2>2, <2>3, <2>4, Continues DEF Clean
<1> QED
    BY <1>2, <1>5, <1>6, <1>7

LEMMA MakeDirKeeps ==
    ASSUME IInv, NEW w \in Workers, MakeDir(w)
    PROVE  IInv'
<1> DEFINE r == workers[w]
           s == r.sid
           q == [r EXCEPT !.pc = "truncate"]
           d == [disk[s] EXCEPT !.dir = TRUE]
<1>1. /\ r.pc = "mkdir" /\ UNCHANGED <<tabs, faults>>
      /\ disk' = [disk EXCEPT ![s].dir = TRUE]
      /\ workers' = [workers EXCEPT ![w].pc = "truncate"]
    BY DEF MakeDir, Goto
<1>2. /\ RequestOK(r) /\ r \in Worker /\ OpenOK(r, disk) /\ r.op # "idle"
      /\ s \in Sids /\ disk[s] \in Directory /\ disk \in [Sids -> Directory]
      /\ workers \in [Workers -> Worker]
    BY <1>1, At1
<1>3. workers' = [workers EXCEPT ![w] = q] /\ disk' = [disk EXCEPT ![s] = d]
    BY <1>1, <1>2
<1>4. q \in Worker /\ q.pc = "truncate" /\ q.fd = r.fd
    BY <1>2 DEF Worker
<1>5. Same(q, r) /\ q.sid = s
    BY <1>2 DEF Worker, Same
<1>6. /\ d \in Directory /\ d.dir /\ d.tmp = disk[s].tmp
      /\ d.meta = disk[s].meta /\ d.data = disk[s].data
    BY <1>2 DEF Directory
<1>7. At(q.op, q.pc) /\ q.fd \in {"none", "gone"}
    BY <1>1, <1>2, <1>4, <1>5 DEF RequestOK, OpenOK, At, Same, Clean, Worker
<1>8. /\ q.pc \notin Clean /\ q.pc # "reply" /\ (~d.dir => d = NoSession)
      /\ q.pc \notin {"open_tmp", "flush", "replace", "pwrite", "open_data",
                      "drive", "save"}
      /\ UNCHANGED <<tabs, faults>>
    BY <1>1, <1>4, <1>6 DEF Clean
<1> HIDE DEF q, d, s
<1> QED
    BY <1>2, <1>3, <1>4, <1>5, <1>6, <1>7, <1>8, WritesOn

LEMMA TruncateDataKeeps ==
    ASSUME IInv, NEW w \in Workers, TruncateData(w)
    PROVE  IInv'
<1> DEFINE r == workers[w]
           s == r.sid
           m == [shape |-> r.shape, received |-> 0,
                 old |-> FALSE]
           q == [r EXCEPT !.meta = m, !.pc = "open_tmp"]
           d == [disk[s] EXCEPT !.data = {}]
<1>1. /\ r.pc = "truncate" /\ UNCHANGED <<tabs, faults>>
      /\ IF disk[s].dir
         THEN /\ disk' = [disk EXCEPT ![s].data = {}]
              /\ workers' = [workers EXCEPT ![w].meta = m, ![w].pc = "open_tmp"]
         ELSE workers' = Answer(w, "error", 0) /\ UNCHANGED disk
    BY DEF TruncateData
<1>2. /\ RequestOK(r) /\ r \in Worker /\ OpenOK(r, disk) /\ r.op # "idle"
      /\ s \in Sids /\ disk[s] \in Directory /\ disk \in [Sids -> Directory]
      /\ workers \in [Workers -> Worker]
    BY <1>1, At1
<1>3. CASE ~disk[s].dir
    BY <1>1, <1>2, <1>3, Answers, FaultsType DEF Statuses
<1>4. CASE disk[s].dir
    <2>1. m \in Meta
        BY <1>2 DEF RequestOK, Meta
    <2> HIDE DEF m
    <2>2. workers' = [workers EXCEPT ![w] = q] /\ disk' = [disk EXCEPT ![s] = d]
        BY <1>1, <1>2, <1>4
    <2>3. q \in Worker /\ q.pc = "open_tmp" /\ q.fd = r.fd /\ q.meta \in Meta
        BY <1>2, <2>1 DEF Worker
    <2>4. Same(q, r) /\ q.sid = s
        BY <1>2 DEF Worker, Same
    <2>5. /\ d \in Directory /\ d.dir /\ d.tmp = disk[s].tmp
          /\ d.meta = disk[s].meta /\ d.data = {}
        <3>1. {} \in Contents
            BY DEF Contents
        <3> DEFINE none == {}
        <3> HIDE DEF none
        <3>2. none \in Contents => [disk[s] EXCEPT !.data = none] \in Directory
            BY <1>2 DEF Directory
        <3>3. d \in Directory
            BY <3>1, <3>2 DEF none
        <3> QED
            BY <1>2, <1>4, <3>3 DEF Directory
    <2>6. At(q.op, q.pc) /\ q.fd \in {"none", "gone"}
        BY <1>1, <1>2, <2>3, <2>4 DEF RequestOK, OpenOK, At, Same, Clean, Worker
    <2>7. {} # ABSENT
        BY NothingAssumption
    <2> HIDE DEF q, d, s
    <2> QED
        BY <1>1, <1>2, <2>2, <2>3, <2>4, <2>5, <2>6, <2>7, WritesOn DEF Clean
<1> QED
    BY <1>3, <1>4

-----------------------------------------------------------------------------
(* /upload/chunk and /upload/complete.                                     *)

LEMMA CheckChunkKeeps ==
    ASSUME IInv, NEW w \in Workers, CheckChunk(w)
    PROVE  IInv'
<1> DEFINE r == workers[w]
           m == disk[r.sid].meta
<1>1. /\ r.op = "chunk" /\ r.pc = "start"
      /\ UNCHANGED <<disk, tabs, faults>>
    BY DEF CheckChunk
<1>2. \/ workers' = Answer(w, "conflict", 0)
      \/ workers' = Answer(w, "bad_meta", 0)
      \/ m \notin Torn /\ m # ABSENT /\ workers' = Answer(w, "ok", m.received)
      \/ /\ m \notin Torn /\ m # ABSENT
         /\ workers' = [workers EXCEPT ![w].meta = m, ![w].pc = "pwrite"]
    BY DEF CheckChunk
<1>3. /\ RequestOK(r) /\ r \in Worker /\ OpenOK(r, disk) /\ r.op # "idle"
      /\ workers \in [Workers -> Worker] /\ disk[r.sid] \in Directory
    BY <1>1, At1
<1>4. r.fd \in {"none", "gone"}
    BY <1>1, <1>3 DEF OpenOK, Worker
<1>5. m \notin Torn /\ m # ABSENT => m \in Meta /\ m.received \in Nat
    <2>1. m \notin Torn /\ m # ABSENT => m \in Meta
        BY <1>3 DEF Directory, Text
    <2> HIDE DEF m
    <2> QED
        BY <2>1 DEF Meta
<1> HIDE DEF m
<1>6. CASE \/ workers' = Answer(w, "conflict", 0)
           \/ workers' = Answer(w, "bad_meta", 0)
    BY <1>1, <1>3, <1>6, Answers, FaultsType DEF Statuses
<1>7. CASE m \notin Torn /\ m # ABSENT /\ workers' = Answer(w, "ok", m.received)
    <2> DEFINE n == m.received
    <2>1. n \in Nat /\ workers' = Answer(w, "ok", n) /\ "ok" \in Statuses
        BY <1>5, <1>7 DEF Statuses
    <2> HIDE DEF n
    <2> QED
        BY <1>1, <1>3, <2>1, Answers, FaultsType
<1>8. CASE /\ m \notin Torn /\ m # ABSENT
           /\ workers' = [workers EXCEPT ![w].meta = m, ![w].pc = "pwrite"]
    <2> DEFINE q == [r EXCEPT !.meta = m, !.pc = "pwrite"]
    <2>1. workers' = [workers EXCEPT ![w] = q]
        BY <1>3, <1>8
    <2>2. q \in Worker /\ q.pc = "pwrite" /\ q.fd = r.fd /\ q.meta \in Meta
        BY <1>3, <1>5, <1>8, ZenonT(60) DEF Worker
    <2>3. Same(q, r)
        BY <1>3 DEF Worker, Same
    <2> HIDE DEF q
    <2>4. At(q.op, q.pc) /\ OpenOK(q, disk)
        BY <1>1, <1>4, <2>2, <2>3 DEF OpenOK, At, Same
    <2> QED
        BY <1>1, <1>3, <2>1, <2>2, <2>3, <2>4, Continues DEF Clean
<1> QED
    BY <1>2, <1>6, <1>7, <1>8

LEMMA WriteDataKeeps ==
    ASSUME IInv, NEW w \in Workers, WriteData(w)
    PROVE  IInv'
<1> DEFINE r == workers[w]
           s == r.sid
           m == [r.meta EXCEPT !.received = @ + 1, !.old = FALSE]
           q == [r EXCEPT !.meta = m, !.pc = "open_tmp"]
           data == disk[s].data \cup {<<r.shape, r.idx>>}
           d == [disk[s] EXCEPT !.data = data]
<1>1. /\ r.pc = "pwrite" /\ UNCHANGED <<tabs, faults>>
      /\ \/ workers' = Answer(w, "error", 0) /\ UNCHANGED disk
         \/ /\ disk[s].data # ABSENT
            /\ disk' = [disk EXCEPT ![s].data = @ \cup {<<r.shape, r.idx>>}]
            /\ workers' = [workers EXCEPT ![w].meta = m, ![w].pc = "open_tmp"]
    BY DEF WriteData
<1>2. /\ RequestOK(r) /\ r \in Worker /\ OpenOK(r, disk) /\ r.op # "idle"
      /\ s \in Sids /\ disk[s] \in Directory /\ disk \in [Sids -> Directory]
      /\ workers \in [Workers -> Worker]
      /\ ~disk[s].dir => disk[s] = NoSession
    BY <1>1, At1
<1>3. CASE workers' = Answer(w, "error", 0) /\ UNCHANGED disk
    BY <1>1, <1>2, <1>3, Answers, FaultsType DEF Statuses
<1>4. CASE /\ disk[s].data # ABSENT
           /\ disk' = [disk EXCEPT ![s].data = @ \cup {<<r.shape, r.idx>>}]
           /\ workers' = [workers EXCEPT ![w].meta = m, ![w].pc = "open_tmp"]
    <2>1. m \in Meta
        <3>1. r.meta \in Meta
            BY <1>1, <1>2 DEF RequestOK
        <3>2. \A x \in Meta, n \in Nat :
                 [x EXCEPT !.received = n, !.old = FALSE] \in Meta
            BY DEF Meta
        <3>3. r.meta.received + 1 \in Nat
            BY <3>1 DEF Meta
        <3> QED
            BY <3>1, <3>2, <3>3
    <2> HIDE DEF m
    <2>2. workers' = [workers EXCEPT ![w] = q] /\ disk' = [disk EXCEPT ![s] = d]
        BY <1>2, <1>4
    <2>3. q \in Worker /\ q.pc = "open_tmp" /\ q.fd = r.fd /\ q.meta \in Meta
        BY <1>2, <2>1 DEF Worker
    <2>4. Same(q, r) /\ q.sid = s
        BY <1>2 DEF Worker, Same
    <2>5. data \in Contents /\ data # ABSENT
        <3>1. disk[s].data \in Contents
            BY <1>2, <1>4 DEF Directory
        <3>2. <<r.shape, r.idx>> \in AllChunks
            BY <1>1, <1>2 DEF RequestOK, At, Clean
        <3>3. data \in Contents
            BY <3>1, <3>2 DEF Contents
        <3> HIDE DEF data
        <3> QED
            BY <3>3, NothingAssumption DEF Contents
    <2> HIDE DEF data
    <2>6. /\ d \in Directory /\ d.dir = disk[s].dir /\ d.tmp = disk[s].tmp
          /\ d.meta = disk[s].meta /\ d.data = data
        <3>1. d \in Directory
            BY <1>2, <2>5 DEF Directory
        <3> QED
            BY <1>2, <3>1 DEF Directory
    <2>7. d.dir
        <3>1. NoSession.data = ABSENT
            BY DEF NoSession
        <3> QED
            BY <1>2, <1>4, <2>6, <3>1
    <2>8. At(q.op, q.pc) /\ q.fd \in {"none", "gone"}
        BY <1>1, <1>2, <2>3, <2>4 DEF RequestOK, OpenOK, At, Same, Clean, Worker
    <2> HIDE DEF q, d, s
    <2> QED
        BY <1>1, <1>2, <2>2, <2>3, <2>4, <2>5, <2>6, <2>7, <2>8, WritesOn, ZenonT(60)
        DEF Clean
<1> QED
    BY <1>1, <1>3, <1>4

LEMMA FinalizeKeeps ==
    ASSUME IInv, NEW w \in Workers, Finalize(w)
    PROVE  IInv'
<1> DEFINE r == workers[w]
           m == disk[r.sid].meta
<1>1. /\ r.op = "complete" /\ r.pc = "start"
      /\ UNCHANGED <<disk, tabs, faults>>
    BY DEF Finalize
<1>2. \/ workers' = Answer(w, "conflict", 0)
      \/ workers' = Answer(w, "bad_meta", 0)
      \/ /\ m \notin Torn /\ m # ABSENT
         /\ workers' = [workers EXCEPT ![w].meta = m, ![w].pc = "open_data"]
    BY DEF Finalize
<1>3. /\ RequestOK(r) /\ r \in Worker /\ OpenOK(r, disk) /\ r.op # "idle"
      /\ workers \in [Workers -> Worker] /\ disk[r.sid] \in Directory
    BY <1>1, At1
<1>4. r.fd \in {"none", "gone"}
    BY <1>1, <1>3 DEF OpenOK, Worker
<1>5. m \notin Torn /\ m # ABSENT => m \in Meta
    BY <1>3 DEF Directory, Text
<1> HIDE DEF m
<1>6. CASE \/ workers' = Answer(w, "conflict", 0)
           \/ workers' = Answer(w, "bad_meta", 0)
    BY <1>1, <1>3, <1>6, Answers, FaultsType DEF Statuses
<1>7. CASE /\ m \notin Torn /\ m # ABSENT
           /\ workers' = [workers EXCEPT ![w].meta = m, ![w].pc = "open_data"]
    <2> DEFINE q == [r EXCEPT !.meta = m, !.pc = "open_data"]
    <2>1. workers' = [workers EXCEPT ![w] = q]
        BY <1>3, <1>7
    <2>2. q \in Worker /\ q.pc = "open_data" /\ q.fd = r.fd /\ q.meta \in Meta
        BY <1>3, <1>5, <1>7, ZenonT(60) DEF Worker
    <2>3. Same(q, r)
        BY <1>3 DEF Worker, Same
    <2> HIDE DEF q
    <2>4. At(q.op, q.pc) /\ OpenOK(q, disk)
        BY <1>1, <1>4, <2>2, <2>3 DEF OpenOK, At, Same
    <2> QED
        BY <1>1, <1>3, <2>1, <2>2, <2>3, <2>4, Continues DEF Clean
<1> QED
    BY <1>2, <1>6, <1>7

LEMMA OpenDataKeeps ==
    ASSUME IInv, NEW w \in Workers, OpenData(w)
    PROVE  IInv'
<1> DEFINE r == workers[w]
           q == [r EXCEPT !.fd = "data", !.pc = "drive"]
<1>1. /\ r.pc = "open_data" /\ UNCHANGED <<disk, tabs, faults>>
      /\ \/ workers' = Answer(w, "error", 0)
         \/ /\ disk[r.sid].data # ABSENT
            /\ workers' = [workers EXCEPT ![w].fd = "data", ![w].pc = "drive"]
    BY DEF OpenData
<1>2. /\ RequestOK(r) /\ r \in Worker /\ r.op # "idle"
      /\ workers \in [Workers -> Worker]
    BY <1>1, At1
<1>3. CASE workers' = Answer(w, "error", 0)
    BY <1>1, <1>2, <1>3, Answers, FaultsType DEF Statuses
<1>4. CASE /\ disk[r.sid].data # ABSENT
           /\ workers' = [workers EXCEPT ![w].fd = "data", ![w].pc = "drive"]
    <2>1. workers' = [workers EXCEPT ![w] = q]
        BY <1>2, <1>4
    <2>2. q \in Worker /\ q.pc = "drive" /\ q.fd = "data" /\ q.meta = r.meta
        BY <1>2, ZenonT(60) DEF Worker
    <2>3. Same(q, r)
        BY <1>2 DEF Worker, Same
    <2> HIDE DEF q
    <2>4. At(q.op, q.pc) /\ q.meta \in Meta
        BY <1>1, <1>2, <2>2, <2>3 DEF RequestOK, At, Same, Clean
    <2>5. OpenOK(q, disk)
        BY <1>4, <2>2, <2>3 DEF OpenOK, Same
    <2> QED
        BY <1>1, <1>2, <2>1, <2>2, <2>3, <2>4, <2>5, Continues DEF Clean
<1> QED
    BY <1>1, <1>3, <1>4

LEMMA UploadToDriveKeeps ==
    ASSUME IInv, NEW w \in Workers, UploadToDrive(w)
    PROVE  IInv'
<1> DEFINE r == workers[w]
           held == IF r.fd = "data" THEN disk[r.sid].data ELSE r.held
           q == [r EXCEPT !.held = held, !.fd = "none", !.target = r.sid,
                          !.pc = "rm_data"]
<1>1. /\ r.pc = "drive" /\ UNCHANGED <<disk, tabs, faults>>
      /\ workers' = [workers EXCEPT
            ![w].held = IF r.fd = "data" THEN disk[r.sid].data ELSE @,
            ![w].fd = "none", ![w].target = r.sid, ![w].pc = "rm_data"]
    BY DEF UploadToDrive
<1>2. /\ RequestOK(r) /\ r \in Worker /\ OpenOK(r, disk) /\ r.op # "idle"
      /\ workers \in [Workers -> Worker] /\ r.sid \in Sids
      /\ disk[r.sid] \in Directory
    BY <1>1, At1
<1>3. workers' = [workers EXCEPT ![w] = q]
    BY <1>1, <1>2
<1>4. held \in Contents
    <2>1. CASE r.fd = "data"
        BY <1>2, <2>1 DEF OpenOK, Directory
    <2>2. CASE r.fd # "data"
        BY <1>2, <2>2 DEF Worker
    <2> QED
        BY <2>1, <2>2
<1> HIDE DEF held
<1>5. /\ q \in Worker /\ q.pc = "rm_data" /\ q.fd = "none" /\ q.meta = r.meta
      /\ q.target = r.sid
    <2>1. q \in Worker
        <3> DEFINE p == [r EXCEPT !.held = held]
        <3>1. p \in Worker
            BY <1>2, <1>4 DEF Worker
        <3>2. q = [p EXCEPT !.fd = "none", !.target = r.sid, !.pc = "rm_data"]
            BY <1>2 DEF Worker
        <3>3. r.sid \in Sids
            BY <1>2
        <3> HIDE DEF p, q, r
        <3> QED
            BY <3>1, <3>2, <3>3, ZenonT(60) DEF Worker, Clean
    <2> QED
        BY <1>2, <2>1 DEF Worker
<1>6. Same(q, r)
    BY <1>2 DEF Worker, Same
<1> HIDE DEF q
<1>7. At(q.op, q.pc) /\ q.meta \in Meta /\ q.target \in Sids /\ OpenOK(q, disk)
    BY <1>1, <1>2, <1>5, <1>6 DEF RequestOK, OpenOK, At, Same, Clean
<1> QED
    BY <1>1, <1>2, <1>3, <1>5, <1>6, <1>7, Continues

LEMMA GoogleFailsKeeps ==
    ASSUME IInv, NEW w \in Workers, GoogleFails(w)
    PROVE  IInv'
<1>1. /\ workers[w].op = "complete" /\ UNCHANGED <<disk, tabs>>
      /\ faults < MaxFaults /\ faults' = faults + 1
      /\ workers' = Answer(w, "error", 0)
    BY DEF GoogleFails
<1>2. faults' \in 0..MaxFaults
    BY <1>1, FaultsType, BoundsAssumption
<1> QED
    BY <1>1, <1>2, Answers DEF Statuses

LEMMA SaveVaultKeeps ==
    ASSUME IInv, NEW w \in Workers, SaveVault(w)
    PROVE  IInv'
<1>1. /\ workers[w].pc = "save" /\ UNCHANGED <<disk, tabs, faults>>
      /\ workers' = Answer(w, "ok", 0)
    BY DEF SaveVault
<1>2. workers[w].op # "idle"
    BY <1>1, At1
<1> QED
    BY <1>1, <1>2, Answers, FaultsType DEF Statuses

-----------------------------------------------------------------------------
(* The tabs.                                                               *)

LEMMA IdleOK ==
    ASSUME NEW d
    PROVE  /\ RequestOK(Idle) /\ OpenOK(Idle, d)
           /\ Idle.tab = NONE /\ Idle.op = "idle" /\ Idle.pc = "idle"
<1>1. {} \in Contents /\ {} \in SUBSET Sids
    BY DEF Contents
<1>2. Idle \in Worker
    BY <1>1 DEF Idle, Worker
<1>3. /\ Idle.op = "idle" /\ Idle.pc = "idle" /\ Idle.tab = NONE
      /\ Idle.fd = "none"
    BY DEF Idle
<1> QED
    BY <1>2, <1>3 DEF RequestOK, OpenOK, At, Clean

LEMMA WorkerSet ==
    ASSUME IInv, NEW w \in Workers, NEW q, RequestOK(q), OpenOK(q, disk),
           workers' = [workers EXCEPT ![w] = q],
           UNCHANGED disk
    PROVE  /\ WorkersOK'
           /\ \A v \in Workers : workers'[v] = IF v = w THEN q ELSE workers[v]
<1>1. q \in Worker /\ workers \in [Workers -> Worker]
    BY DEF RequestOK, IInv, WorkersOK
<1>2. \A v \in Workers : workers'[v] = IF v = w THEN q ELSE workers[v]
    BY <1>1
<1>3. workers' \in [Workers -> Worker]
    BY <1>1
<1>4. \A v \in Workers : /\ RequestOK(workers'[v]) /\ OpenOK(workers'[v], disk')
    BY <1>2 DEF IInv, WorkersOK
<1> QED
    BY <1>2, <1>3, <1>4 DEF WorkersOK

LEMMA TabSet ==
    ASSUME IInv, NEW t \in Tabs, NEW b, TabOK(b), tabs' = [tabs EXCEPT ![t] = b],
           UNCHANGED disk, faults' \in 0..MaxFaults,
           WorkersOK', AnswersOK'
    PROVE  IInv'
<1>1. tabs \in [Tabs -> Tab] /\ b \in Tab
    BY DEF TabOK, IInv, TabsOK
<1>2. \A u \in Tabs : tabs'[u] = IF u = t THEN b ELSE tabs[u]
    BY <1>1
<1>3. tabs' \in [Tabs -> Tab]
    BY <1>1
<1>4. TabsOK'
    BY <1>2, <1>3 DEF IInv, TabsOK
<1> QED
    BY <1>4 DEF IInv, DiskOK, OthersOK

\* A tab that waits for nothing goes on; nothing else changes.
LEMMA TabMoves ==
    ASSUME IInv, NEW t \in Tabs, NEW b, TabOK(b), tabs' = [tabs EXCEPT ![t] = b],
           ~tabs[t].waiting, UNCHANGED <<disk, workers, faults>>
    PROVE  IInv'
<1>1. \A u \in Tabs : tabs'[u] = IF u = t THEN b ELSE tabs[u]
    BY DEF IInv, TabsOK
<1>2. \A w \in Workers : workers[w].tab \in Tabs \cup {NONE}
    BY DEF IInv, WorkersOK, Worker
<1>3. \A w \in Workers : workers[w].tab # t
    BY NothingAssumption DEF IInv, AnswersOK, Awaits
<1>4. AnswersOK'
    BY <1>1, <1>2, <1>3 DEF IInv, AnswersOK
<1>5. WorkersOK'
    BY DEF IInv, WorkersOK
<1> QED
    BY <1>4, <1>5, TabSet, FaultsType

LEMMA BatchType ==
    ASSUME NEW b, TabOK(b), b.batch \in Batches
    PROVE  /\ b.batch \in Seq(Sids) /\ Len(b.batch) \in Nat
           /\ b.start <= Len(b.batch) => b.batch[b.start] \in Sids
<1>1. b.batch \in Seq(Sids)
    BY BatchesAssumption
<1>2. b.start \in Nat /\ b.start \in 1..(Len(b.batch) + 1)
    BY DEF TabOK, Tab
<1> QED
    BY <1>1, <1>2

LEMMA DropKeeps ==
    ASSUME IInv, NEW t \in Tabs, Drop(t)
    PROVE  IInv'
<1>1. /\ tabs[t].pc \in {"idle", "paused", "done"} /\ tabs[t].drops < MaxDrops
      /\ UNCHANGED <<disk, workers, faults>>
    BY DEF Drop
<1> DEFINE n == tabs[t].drops + 1
           b(files, c) == [NoUpload EXCEPT !.pc = "init", !.batch = files,
                                              !.shape = c,
                                              !.drops = n]
<1>2. PICK files \in Batches, c \in Shapes :
         tabs' = [tabs EXCEPT ![t] = b(files, c)]
    BY DEF Drop
<1>3. TabOK(tabs[t])
    BY DEF IInv, TabsOK
<1>4. ~tabs[t].waiting /\ n \in 0..MaxDrops /\ 0 \in 0..MaxRetries
    BY <1>1, <1>3, BoundsAssumption DEF TabOK, Tab
<1> HIDE DEF n
<1>5. /\ b(files, c).pc = "init" /\ b(files, c).batch = files
      /\ b(files, c).shape = c
      /\ b(files, c).start = 1 /\ b(files, c).waiting = FALSE
    BY DEF NoUpload
<1>6. b(files, c) \in Tab
    BY <1>4 DEF Tab, NoUpload
<1>7. Len(files) \in Nat /\ Len(files) >= 1
    BY BatchesAssumption
<1> HIDE DEF b
<1>8. TabOK(b(files, c))
    BY <1>5, <1>6, <1>7 DEF TabOK
<1> QED
    BY <1>1, <1>2, <1>4, <1>8, TabMoves

LEMMA ResumeKeeps ==
    ASSUME IInv, NEW t \in Tabs, Resume(t)
    PROVE  IInv'
<1> DEFINE a == tabs[t]
           b == [a EXCEPT !.pc = "init", !.next = 0, !.attempt = 0]
<1>1. /\ a.pc = "paused" /\ UNCHANGED <<disk, workers, faults>>
      /\ tabs' = [tabs EXCEPT ![t].pc = "init", ![t].next = 0, ![t].attempt = 0]
    BY DEF Resume
<1>2. TabOK(a) /\ a \in Tab /\ tabs \in [Tabs -> Tab]
    BY DEF IInv, TabsOK
<1>3. tabs' = [tabs EXCEPT ![t] = b]
    BY <1>1, <1>2
<1>4. ~a.waiting /\ 0 \in 0..MaxRetries
    BY <1>1, <1>2, BoundsAssumption DEF TabOK
<1>5. b \in Tab
    BY <1>2, <1>4 DEF Tab
<1>6. /\ b.pc = "init" /\ b.batch = a.batch /\ b.start = a.start
      /\ b.shape = a.shape /\ b.waiting = a.waiting
    BY <1>2 DEF Tab
<1> HIDE DEF b
<1>7. TabOK(b)
    BY <1>1, <1>2, <1>4, <1>5, <1>6 DEF TabOK
<1> QED
    BY <1>1, <1>3, <1>4, <1>7, TabMoves

LEMMA SendKeeps ==
    ASSUME IInv, NEW t \in Tabs, NEW w \in Workers, Send(t, w)
    PROVE  IInv'
<1> DEFINE a == tabs[t]
           b == [a EXCEPT !.waiting = TRUE]
           pc == IF a.pc = "init" THEN "list" ELSE "start"
           q == [Idle EXCEPT !.op = a.pc, !.tab = t, !.sid = a.batch[a.start],
                             !.shape = a.shape,
                             !.idx = a.next, !.pc = pc]
<1>1. /\ a.pc \in {"init", "chunk", "complete"} /\ ~a.waiting
      /\ workers[w].op = "idle" /\ UNCHANGED <<disk, faults>>
      /\ tabs' = [tabs EXCEPT ![t].waiting = TRUE]
    BY DEF Send
<1>2. workers' = [workers EXCEPT ![w] = q]
    BY DEF Send
<1>3. TabOK(a) /\ a \in Tab /\ tabs \in [Tabs -> Tab]
    BY DEF IInv, TabsOK
<1>4. tabs' = [tabs EXCEPT ![t] = b]
    BY <1>1, <1>3
<1>5. /\ b \in Tab /\ b.pc = a.pc /\ b.batch = a.batch /\ b.start = a.start
      /\ b.shape = a.shape /\ b.next = a.next /\ b.waiting
    BY <1>3 DEF Tab
<1>6. /\ a.batch[a.start] \in Sids /\ a.shape \in Shapes
      /\ a.next \in Nat /\ (a.pc = "chunk" => <<a.shape, a.next>> \in AllChunks)
    BY <1>1, <1>3, BatchType DEF TabOK, Tab
<1>7. pc \in {"list", "start"} /\ (a.pc = "init" <=> pc = "list")
    OBVIOUS
<1> HIDE DEF pc
<1>8. /\ q.op = a.pc /\ q.pc = pc /\ q.tab = t /\ q.sid = a.batch[a.start]
      /\ q.shape = a.shape /\ q.idx = a.next
      /\ q.fd = "none"
    BY DEF Idle
<1>9. q \in Worker
    <2>1. Idle \in Worker
        BY IdleOK DEF RequestOK
    <2> HIDE DEF a
    <2> QED
        BY <1>1, <1>6, <1>7, <2>1 DEF Worker
<1> HIDE DEF q, b
<1>10. WorkersOK' /\ \A v \in Workers : workers'[v] = IF v = w THEN q ELSE workers[v]
    <2>1. RequestOK(q)
        BY <1>1, <1>6, <1>7, <1>8, <1>9 DEF RequestOK, At, Clean
    <2>2. OpenOK(q, disk)
        BY <1>7, <1>8 DEF OpenOK
    <2> QED
        BY <1>1, <1>2, <2>1, <2>2, WorkerSet
<1>11. \A u \in Tabs : tabs'[u] = IF u = t THEN b ELSE tabs[u]
    BY <1>3, <1>4
<1>12. \A v \in Workers : workers[v].tab # t /\ workers[v].tab \in Tabs \cup {NONE}
    <2>1. \A v \in Workers : workers[v].tab \in Tabs \cup {NONE}
        BY DEF IInv, WorkersOK, Worker
    <2>2. \A v \in Workers : workers[v].tab # t
        BY <1>1, NothingAssumption DEF IInv, AnswersOK, Awaits
    <2> QED
        BY <2>1, <2>2
<1>13. AnswersOK'
    <2>1. ASSUME NEW v \in Workers, workers'[v].tab # NONE
          PROVE  Awaits(tabs'[workers'[v].tab], workers'[v])
        <3>1. CASE v = w
            BY <1>5, <1>8, <1>10, <1>11, <3>1 DEF Awaits
        <3>2. CASE v # w
            BY <1>10, <1>11, <1>12, <2>1, <3>2 DEF IInv, AnswersOK
        <3> QED
            BY <3>1, <3>2
    <2>2. \A v, x \in Workers :
             workers'[v].tab = workers'[x].tab /\ workers'[v].tab # NONE => v = x
        BY <1>8, <1>10, <1>12 DEF IInv, AnswersOK
    <2> QED
        BY <2>1, <2>2 DEF AnswersOK
<1>14. TabOK(b)
    BY <1>1, <1>3, <1>5 DEF TabOK
<1> QED
    BY <1>1, <1>4, <1>10, <1>13, <1>14, TabSet, FaultsType

\* What the uploader becomes after an answer or a network error.
LEMMA AfterErrorOK ==
    ASSUME NEW b, TabOK(b), b.waiting
    PROVE  /\ TabOK(AfterError(b)) /\ ~AfterError(b).waiting
           /\ AfterError(b).batch = b.batch /\ AfterError(b).start = b.start
<1> DEFINE retry == b.pc = "chunk" /\ b.attempt < MaxRetries
           n == IF retry THEN b.attempt + 1 ELSE 0
           pc == IF retry THEN "chunk" ELSE "paused"
           x == [b EXCEPT !.waiting = FALSE, !.attempt = n, !.pc = pc]
<1>1. AfterError(b) = x
    BY DEF AfterError
<1>2. b \in Tab /\ b.pc \in {"init", "chunk", "complete"}
    BY DEF TabOK
<1>3. /\ n \in 0..MaxRetries /\ pc \in {"chunk", "paused"}
      /\ pc = "chunk" => b.pc = "chunk"
    BY <1>2, BoundsAssumption DEF Tab
<1> HIDE DEF n, pc, retry
<1>4. x \in Tab
    BY <1>2, <1>3 DEF Tab
<1>5. /\ x.pc = pc /\ ~x.waiting /\ x.batch = b.batch /\ x.start = b.start
      /\ x.shape = b.shape /\ x.next = b.next
    BY <1>2 DEF Tab
<1> HIDE DEF x
<1>6. TabOK(x)
    BY <1>2, <1>3, <1>4, <1>5 DEF TabOK
<1> QED
    BY <1>1, <1>5, <1>6

LEMMA AfterCountOK ==
    ASSUME NEW b, TabOK(b), b.waiting, NEW n \in Nat
    PROVE  /\ TabOK(AfterCount(b, n)) /\ ~AfterCount(b, n).waiting
           /\ AfterCount(b, n).batch = b.batch
           /\ AfterCount(b, n).start = b.start
<1> DEFINE more == n < TotalChunks[b.shape]
           pc == IF more THEN "chunk" ELSE "complete"
           x == [b EXCEPT !.waiting = FALSE, !.next = n, !.attempt = 0, !.pc = pc]
<1>1. AfterCount(b, n) = x
    BY DEF AfterCount
<1>2. b \in Tab /\ b.pc \in {"init", "chunk", "complete"} /\ b.shape \in Shapes
    BY DEF TabOK
<1>3. TotalChunks[b.shape] \in Nat
    BY <1>2, TotalChunksAssumption
<1>4. more => <<b.shape, n>> \in AllChunks
    <2>1. ASSUME more PROVE <<b.shape, n>> \in Chunks(b.shape)
        BY <1>3, <2>1 DEF Chunks
    <2> QED
        BY <1>2, <2>1 DEF AllChunks
<1>5. /\ pc \in {"chunk", "complete"} /\ (pc = "chunk" => more)
      /\ 0 \in 0..MaxRetries
    BY BoundsAssumption
<1> HIDE DEF more, pc
<1>6. x \in Tab
    BY <1>2, <1>5 DEF Tab
<1>7. /\ x.pc = pc /\ ~x.waiting /\ x.batch = b.batch /\ x.start = b.start
      /\ x.shape = b.shape /\ x.next = n
    BY <1>2 DEF Tab
<1> HIDE DEF x
<1>8. TabOK(x)
    BY <1>2, <1>4, <1>5, <1>6, <1>7 DEF TabOK
<1> QED
    BY <1>1, <1>7, <1>8

LEMMA AfterCompleteOK ==
    ASSUME NEW b, TabOK(b), b.waiting
    PROVE  /\ TabOK(AfterComplete(b)) /\ ~AfterComplete(b).waiting
           /\ AfterComplete(b).batch = b.batch
           /\ AfterComplete(b).start = b.start + 1 /\ b.start \in Nat
<1> DEFINE more == b.start < Len(b.batch)
           pc == IF more THEN "init" ELSE "done"
           n == b.start + 1
           x == [b EXCEPT !.waiting = FALSE, !.start = n, !.next = 0, !.pc = pc]
<1>1. AfterComplete(b) = x
    BY DEF AfterComplete
<1>2. /\ b \in Tab /\ b.pc \in {"init", "chunk", "complete"} /\ b.start \in Nat
      /\ b.batch \in Batches /\ b.start <= Len(b.batch)
      /\ b.start \in 1..(Len(b.batch) + 1)
    BY DEF TabOK, Tab
<1>3. Len(b.batch) \in Nat
    BY <1>2, BatchType
<1>4. /\ pc \in {"init", "done"} /\ (pc = "init" => n <= Len(b.batch))
      /\ n \in Nat /\ n \in 1..(Len(b.batch) + 1)
    BY <1>2, <1>3
<1> HIDE DEF more, pc, n
<1>5. x \in Tab
    BY <1>2, <1>4 DEF Tab
<1>6. /\ x.pc = pc /\ ~x.waiting /\ x.batch = b.batch /\ x.start = n
      /\ x.shape = b.shape
    BY <1>2 DEF Tab
<1> HIDE DEF x
<1>7. TabOK(x)
    BY <1>2, <1>4, <1>5, <1>6 DEF TabOK
<1> QED
    BY <1>1, <1>2, <1>6, <1>7 DEF n

LEMMA AfterReplyOK ==
    ASSUME IInv, NEW w \in Workers, workers[w].pc = "reply",
           workers[w].tab # NONE
    PROVE  LET b == AfterReply(tabs[workers[w].tab], workers[w])
           IN  TabOK(b) /\ ~b.waiting
<1> DEFINE r == workers[w]
           a == tabs[r.tab]
           b == AfterReply(a, r)
<1>1. /\ r \in Worker /\ r.tab \in Tabs /\ Awaits(a, r)
    BY DEF IInv, WorkersOK, AnswersOK, RequestOK, Worker
<1>2. TabOK(a)
    BY <1>1 DEF IInv, TabsOK
<1>3. a.waiting
    BY <1>1 DEF Awaits
<1> HIDE DEF a
<1>4. CASE r.res # "ok"
    <2>1. b = AfterError(a)
        BY <1>4 DEF AfterReply
    <2> HIDE DEF b
    <2>2. TabOK(b) /\ ~b.waiting
        BY <1>2, <1>3, <2>1, AfterErrorOK
    <2> QED
        BY <2>2 DEF b, a
<1>5. CASE r.res = "ok" /\ r.op # "complete"
    <2>1. b = AfterCount(a, r.count) /\ r.count \in Nat
        BY <1>1, <1>5 DEF AfterReply, Worker
    <2> HIDE DEF b
    <2>2. TabOK(b) /\ ~b.waiting
        BY <1>2, <1>3, <2>1, AfterCountOK
    <2> QED
        BY <2>2 DEF b, a
<1>6. CASE r.res = "ok" /\ r.op = "complete"
    <2>1. b = AfterComplete(a)
        BY <1>6 DEF AfterReply
    <2> HIDE DEF b, r
    <2>2. TabOK(b) /\ ~b.waiting
        BY <1>2, <1>3, <2>1, AfterCompleteOK
    <2> QED
        BY <2>2 DEF b, r, a
<1> QED
    BY <1>4, <1>5, <1>6

LEMMA ReplyKeeps ==
    ASSUME IInv, NEW w \in Workers, Reply(w)
    PROVE  IInv'
<1> DEFINE r == workers[w]
           t == r.tab
           b == AfterReply(tabs[t], r)
<1>1. /\ r.pc = "reply" /\ UNCHANGED <<disk, faults>>
      /\ workers' = [workers EXCEPT ![w] = Idle]
      /\ tabs' = IF t # NONE THEN [tabs EXCEPT ![t] = b] ELSE tabs
    BY DEF Reply
<1>2. /\ WorkersOK'
      /\ \A v \in Workers : workers'[v] = IF v = w THEN Idle ELSE workers[v]
    BY <1>1, IdleOK, WorkerSet
<1>3. \A v \in Workers : workers[v].tab \in Tabs \cup {NONE}
    BY DEF IInv, WorkersOK, Worker
<1>4. \A v \in Workers : v # w /\ workers[v].tab # NONE => workers[v].tab # t
    BY DEF IInv, AnswersOK
<1>5. \A u \in Tabs : u # t => tabs'[u] = tabs[u]
    BY <1>1 DEF IInv, TabsOK
<1>6. AnswersOK'
    <2>1. ASSUME NEW v \in Workers, workers'[v].tab # NONE
          PROVE  Awaits(tabs'[workers'[v].tab], workers'[v])
        <3>1. v # w /\ workers'[v] = workers[v]
            BY <1>2, <2>1, IdleOK
        <3> QED
            BY <1>3, <1>4, <1>5, <2>1, <3>1 DEF IInv, AnswersOK
    <2>2. \A v, x \in Workers :
             workers'[v].tab = workers'[x].tab /\ workers'[v].tab # NONE => v = x
        BY <1>2, IdleOK DEF IInv, AnswersOK
    <2> QED
        BY <2>1, <2>2 DEF AnswersOK
<1>7. CASE t = NONE
    <2>1. TabsOK' /\ OthersOK' /\ DiskOK'
        BY <1>1, <1>7 DEF IInv, TabsOK, OthersOK, DiskOK
    <2> QED
        BY <1>2, <1>6, <2>1 DEF IInv
<1>8. CASE t # NONE
    <2>1. tabs' = [tabs EXCEPT ![t] = b] /\ t \in Tabs
        BY <1>1, <1>3, <1>8
    <2>2. TabOK(b)
        BY <1>1, <1>8, AfterReplyOK
    <2> HIDE DEF b, t
    <2> QED
        BY <1>1, <1>2, <1>6, <2>1, <2>2, TabSet, FaultsType
<1> QED
    BY <1>7, <1>8

LEMMA ConnectionLostKeeps ==
    ASSUME IInv, NEW t \in Tabs, ConnectionLost(t)
    PROVE  IInv'
<1> DEFINE b == AfterError(tabs[t])
<1>1. /\ tabs[t].waiting /\ faults < MaxFaults /\ faults' = faults + 1
      /\ tabs' = [tabs EXCEPT ![t] = b] /\ UNCHANGED disk
    BY DEF ConnectionLost
<1>2. PICK w \in Workers :
         /\ workers[w].tab = t
         /\ \/ workers' = [workers EXCEPT ![w].tab = NONE]
            \/ workers' = [workers EXCEPT ![w] = Idle]
    BY DEF ConnectionLost
<1>3. TabOK(tabs[t]) /\ tabs \in [Tabs -> Tab]
    BY DEF IInv, TabsOK
<1>4. TabOK(b)
    BY <1>1, <1>3, AfterErrorOK
<1> HIDE DEF b
<1>5. \A u \in Tabs : tabs'[u] = IF u = t THEN b ELSE tabs[u]
    BY <1>1, <1>3
<1>6. PICK q : /\ workers' = [workers EXCEPT ![w] = q] /\ q.tab = NONE
               /\ RequestOK(q) /\ OpenOK(q, disk)
    <2>1. CASE workers' = [workers EXCEPT ![w] = Idle]
        BY <2>1, IdleOK
    <2>2. CASE workers' = [workers EXCEPT ![w].tab = NONE]
        <3> DEFINE r == workers[w]
                   q == [r EXCEPT !.tab = NONE]
        <3>1. /\ r \in Worker /\ RequestOK(r) /\ OpenOK(r, disk)
              /\ workers \in [Workers -> Worker]
            BY DEF IInv, WorkersOK
        <3>2. workers' = [workers EXCEPT ![w] = q]
            BY <2>2, <3>1
        <3>3. q \in Worker /\ q.tab = NONE
            BY <3>1 DEF Worker
        <3>4. /\ q.op = r.op /\ q.pc = r.pc /\ q.sid = r.sid /\ q.res = r.res
              /\ q.shape = r.shape /\ q.idx = r.idx
              /\ q.meta = r.meta /\ q.target = r.target /\ q.fd = r.fd
            BY <3>1 DEF Worker
        <3> HIDE DEF q
        <3>5. RequestOK(q)
            BY <3>1, <3>3, <3>4 DEF RequestOK
        <3>6. OpenOK(q, disk)
            BY <3>1, <3>4 DEF OpenOK
        <3> QED
            BY <3>2, <3>3, <3>5, <3>6
    <2> QED
        BY <1>2, <2>1, <2>2
<1>7. /\ WorkersOK'
      /\ \A v \in Workers : workers'[v] = IF v = w THEN q ELSE workers[v]
    BY <1>1, <1>6, WorkerSet
<1>8. \A v \in Workers : workers[v].tab \in Tabs \cup {NONE}
    BY DEF IInv, WorkersOK, Worker
<1>9. AnswersOK'
    <2>1. ASSUME NEW v \in Workers, workers'[v].tab # NONE
          PROVE  Awaits(tabs'[workers'[v].tab], workers'[v])
        <3>1. v # w /\ workers'[v] = workers[v]
            BY <1>6, <1>7, <2>1
        <3>2. workers[v].tab # t
            BY <1>2, <2>1, <3>1 DEF IInv, AnswersOK
        <3> QED
            BY <1>5, <1>8, <2>1, <3>1, <3>2 DEF IInv, AnswersOK
    <2>2. \A v, x \in Workers :
             workers'[v].tab = workers'[x].tab /\ workers'[v].tab # NONE => v = x
        BY <1>6, <1>7 DEF IInv, AnswersOK
    <2> QED
        BY <2>1, <2>2 DEF AnswersOK
<1>10. faults' \in 0..MaxFaults
    BY <1>1, FaultsType, BoundsAssumption
<1> QED
    BY <1>1, <1>4, <1>7, <1>9, <1>10, TabSet

LEMMA CrashKeeps ==
    ASSUME IInv, Crash
    PROVE  IInv'
<1>1. /\ faults < MaxFaults /\ faults' = faults + 1 /\ UNCHANGED disk
      /\ workers' = [w \in Workers |-> Idle]
      /\ tabs' = [t \in Tabs |-> IF tabs[t].waiting THEN AfterError(tabs[t])
                                 ELSE tabs[t]]
    BY DEF Crash
<1>2. \A w \in Workers : workers'[w] = Idle
    BY <1>1
<1>3. WorkersOK'
    <2>1. Idle \in Worker
        BY IdleOK DEF RequestOK
    <2>2. workers' \in [Workers -> Worker]
        BY <1>1, <2>1
    <2> QED
        BY <1>2, <2>2, IdleOK DEF WorkersOK
<1>4. AnswersOK'
    BY <1>2, IdleOK DEF AnswersOK
<1>5. ASSUME NEW t \in Tabs
      PROVE  TabOK(tabs'[t])
    <2>1. TabOK(tabs[t])
        BY DEF IInv, TabsOK
    <2> QED
        BY <1>1, <2>1, AfterErrorOK
<1>6. TabsOK'
    <2>1. \A t \in Tabs : tabs'[t] \in Tab
        BY <1>5 DEF TabOK
    <2>2. tabs' = [t \in Tabs |-> tabs'[t]]
        BY <1>1
    <2>3. tabs' \in [Tabs -> Tab]
        BY <2>1, <2>2
    <2> QED
        BY <1>5, <2>3 DEF TabsOK
<1>7. faults' \in 0..MaxFaults
    BY <1>1, FaultsType, BoundsAssumption
<1> QED
    BY <1>1, <1>3, <1>4, <1>6, <1>7 DEF IInv, DiskOK, OthersOK

LEMMA TwoDaysPassKeeps ==
    ASSUME IInv, TwoDaysPass
    PROVE  IInv'
<1>1. /\ faults < MaxFaults /\ faults' = faults + 1
      /\ UNCHANGED <<workers, tabs>>
      /\ \A w \in Workers : workers[w].op = "idle"
      /\ disk' = [s \in Sids |-> IF disk[s].meta \in Meta
                                 THEN [disk[s] EXCEPT !.meta.old = TRUE]
                                 ELSE disk[s]]
    BY DEF TwoDaysPass
<1>2. ASSUME NEW s \in Sids
      PROVE  /\ disk'[s] \in Directory
             /\ ~disk'[s].dir => disk'[s] = NoSession
    <2>1. disk[s] \in Directory /\ (~disk[s].dir => disk[s] = NoSession)
        BY DEF IInv, DiskOK
    <2>2. CASE disk[s].meta \in Meta
        <3> DEFINE m == [disk[s].meta EXCEPT !.old = TRUE]
                   d == [disk[s] EXCEPT !.meta = m]
        <3>1. disk'[s] = d
            BY <1>1, <2>2
        <3>2. m \in Text
            BY <2>2 DEF Meta, Text
        <3>3. disk[s].dir
            BY <2>1, <2>2, NothingAssumption DEF NoSession
        <3> HIDE DEF m
        <3>4. d \in Directory /\ d.dir = disk[s].dir
            BY <2>1, <3>2 DEF Directory
        <3> HIDE DEF d
        <3> QED
            BY <3>1, <3>3, <3>4
    <2>3. CASE disk[s].meta \notin Meta
        BY <1>1, <2>1, <2>3
    <2> QED
        BY <2>2, <2>3
<1>3. DiskOK'
    <2>1. disk' = [s \in Sids |-> disk'[s]]
        BY <1>1
    <2>2. disk' \in [Sids -> Directory]
        BY <1>2, <2>1
    <2> QED
        BY <1>2, <2>2 DEF DiskOK
<1>4. WorkersOK'
    <2>1. \A w \in Workers : OpenOK(workers[w], disk')
        BY <1>1 DEF IInv, WorkersOK, RequestOK, At, OpenOK
    <2> QED
        BY <1>1, <2>1 DEF IInv, WorkersOK
<1>5. faults' \in 0..MaxFaults
    BY <1>1, FaultsType, BoundsAssumption
<1> QED
    BY <1>1, <1>3, <1>4, <1>5
    DEF IInv, TabsOK, AnswersOK, OthersOK

-----------------------------------------------------------------------------
LEMMA InitInv == Init => IInv
<1> SUFFICES ASSUME Init
             PROVE  IInv
    OBVIOUS
<1>1. DiskOK
    BY DEF Init, DiskOK, NoSession, Directory, Text
<1>2. \A w \in Workers : workers[w] = Idle
    BY DEF Init
<1>3. WorkersOK
    <2>1. Idle \in Worker
        BY IdleOK DEF RequestOK
    <2>2. workers \in [Workers -> Worker]
        BY <2>1 DEF Init
    <2> QED
        BY <1>2, <2>2, IdleOK DEF WorkersOK
<1>4. AnswersOK
    BY <1>2, IdleOK DEF AnswersOK
<1>5. TabOK(NoUpload) /\ NoUpload.start = 1
    <2>1. /\ NoUpload.pc = "idle" /\ NoUpload.batch = <<>> /\ NoUpload.start = 1
          /\ ~NoUpload.waiting
        BY DEF NoUpload
    <2>2. NoUpload \in Tab
        BY BoundsAssumption DEF NoUpload, Tab
    <2> QED
        BY <2>1, <2>2 DEF TabOK
<1>6. \A t \in Tabs : tabs[t] = NoUpload
    BY DEF Init
<1>7. TabsOK
    <2>1. tabs \in [Tabs -> Tab]
        BY <1>5 DEF Init, TabOK
    <2> QED
        BY <1>5, <1>6, <2>1 DEF TabsOK
<1>8. OthersOK
    BY BoundsAssumption DEF Init, OthersOK
<1> QED
    BY <1>1, <1>3, <1>4, <1>7, <1>8 DEF IInv

LEMMA NextKeeps == IInv /\ [Next]_vars => IInv'
<1> SUFFICES ASSUME IInv, [Next]_vars
             PROVE  IInv'
    OBVIOUS
<1>1. CASE UNCHANGED vars
    BY <1>1
    DEF vars, IInv, DiskOK, WorkersOK, TabsOK, AnswersOK, OthersOK
<1>2. CASE \E t \in Tabs : Drop(t) \/ Resume(t)
    BY <1>2, DropKeeps, ResumeKeeps
<1>3. CASE \E t \in Tabs, w \in Workers : Send(t, w)
    BY <1>3, SendKeeps
<1>4. ASSUME NEW w \in Workers, ServerStep(w)
      PROVE  IInv'
    <2>1. CASE OpenTmp(w) \/ Flush(w) \/ ReplaceMeta(w)
        BY <2>1, OpenTmpKeeps, FlushKeeps, ReplaceMetaKeeps
    <2>2. CASE RemoveData(w) \/ RemoveMeta(w) \/ RemoveTmp(w) \/ RemoveDir(w)
        BY <2>2, RemoveDataKeeps, RemoveMetaKeeps, RemoveTmpKeeps, RemoveDirKeeps
    <2>3. CASE ListSessions(w) \/ SweepOne(w) \/ ReadMeta(w)
        BY <2>3, ListSessionsKeeps, SweepOneKeeps, ReadMetaKeeps
    <2>4. CASE MakeDir(w) \/ TruncateData(w) \/ CheckChunk(w) \/ WriteData(w)
        BY <2>4, MakeDirKeeps, TruncateDataKeeps, CheckChunkKeeps, WriteDataKeeps
    <2>5. CASE Finalize(w) \/ OpenData(w) \/ UploadToDrive(w) \/ SaveVault(w)
        BY <2>5, FinalizeKeeps, OpenDataKeeps, UploadToDriveKeeps, SaveVaultKeeps
    <2>6. CASE Reply(w)
        BY <2>6, ReplyKeeps
    <2> QED
        BY <1>4, <2>1, <2>2, <2>3, <2>4, <2>5, <2>6 DEF ServerStep
<1>5. CASE Fault
    BY <1>5, ConnectionLostKeeps, GoogleFailsKeeps, CrashKeeps, TwoDaysPassKeeps
    DEF Fault
<1> QED
    BY <1>1, <1>2, <1>3, <1>4, <1>5 DEF Next

\* In every behaviour the directories, the requests and the tabs are what the
\* routes of main.py and uploadFiles take them for.
THEOREM Invariance == Spec => []IInv
<1>1. Init => IInv
    BY InitInv
<1>2. IInv /\ [Next]_vars => IInv'
    BY NextKeeps
<1> QED
    BY <1>1, <1>2, PTL DEF Spec

\* TypeOK holds for any tabs, workers, files, chunk sizes and bounds: a directory
\* only ever holds what upload_sessions.py writes into it.
THEOREM SessionTypeOK == Spec => []TypeOK
<1>1. IInv => TypeOK
    <2> SUFFICES ASSUME IInv
                 PROVE  TypeOK
        OBVIOUS
    <2>1. \A s \in Sids :
             /\ disk[s].dir \in BOOLEAN
             /\ disk[s].data = ABSENT \/ disk[s].data \subseteq AllChunks
             /\ disk[s].meta \in Text /\ disk[s].tmp \in Text
             /\ ~disk[s].dir => disk[s] = NoSession
        BY DEF IInv, DiskOK, Directory, Contents
    <2>2. \A w \in Workers :
             /\ workers[w].op \in {"idle", "init", "chunk", "complete"}
             /\ workers[w].fd \in {"none", "tmp", "meta", "data", "gone"}
             /\ workers[w].held = ABSENT \/ workers[w].held \subseteq AllChunks
             /\ workers[w].sweep \subseteq Sids
             /\ workers[w].target \in Sids \cup {NONE}
        BY DEF IInv, WorkersOK, Worker, Contents
    <2>3. \A t \in Tabs :
             /\ tabs[t].pc \in {"idle", "init", "chunk", "complete", "paused",
                                 "done"}
             /\ tabs[t].batch \in Batches \cup {<<>>}
             /\ tabs[t].start \in 1..(Len(tabs[t].batch) + 1)
             /\ tabs[t].attempt \in 0..MaxRetries
             /\ tabs[t].drops \in 0..MaxDrops
        BY DEF IInv, TabsOK, TabOK, Tab
    <2> QED
        BY <2>1, <2>2, <2>3 DEF TypeOK, IInv, OthersOK
<1> QED
    BY <1>1, Invariance, PTL

-----------------------------------------------------------------------------
(* When init runs alone and there is one chunk size.                       *)

LEMMA CalmStep ==
    ASSUME CInv, NEW w \in Workers, \A s \in Sids : SessionOK(disk'[s]),
           \A v \in Workers \ {w} :
               /\ workers'[v].op = workers[v].op
               /\ Writing(workers'[v]) => Writing(workers[v]),
           workers'[w].op \in {"idle", workers[w].op},
           Writing(workers'[w]) =>
               \A v \in Workers \ {w} : ~Writing(workers[v]),
           \A v \in Workers : workers'[v].op # "idle" =>
               /\ WriterOK(workers'[v], disk'[workers'[v].sid])
               /\ ReaderOK(workers'[v], disk'[workers'[v].sid])
    PROVE  CInv'
<1>1. InTurn'
    <2>1. ASSUME NEW v \in Workers, NEW x \in Workers,
                 workers'[v].op = "init", workers'[x].op # "idle"
          PROVE  v = x
        <3>1. workers[v].op = "init" /\ workers[x].op # "idle"
            BY <2>1
        <3> QED
            BY <3>1 DEF CInv, InTurn
    <2>2. ASSUME NEW v \in Workers, NEW x \in Workers,
                 Writing(workers'[v]), Writing(workers'[x])
          PROVE  v = x
        BY <2>2 DEF CInv, InTurn
    <2> QED
        BY <2>1, <2>2 DEF InTurn, Writing
<1> QED
    BY <1>1 DEF CInv

\* One request moves and the files stay.
LEMMA CalmMove ==
    ASSUME IInv, CInv, NEW w \in Workers, NEW q,
           workers' = [workers EXCEPT ![w] = q], UNCHANGED disk,
           q.op \in {"idle", workers[w].op},
           Writing(q) => \A v \in Workers \ {w} : ~Writing(workers[v]),
           q.op # "idle" => /\ WriterOK(q, disk[q.sid])
                            /\ ReaderOK(q, disk[q.sid])
    PROVE  CInv'
<1>1. \A v \in Workers : workers'[v] = IF v = w THEN q ELSE workers[v]
    BY DEF IInv, WorkersOK
<1>2. \A s \in Sids : SessionOK(disk'[s])
    BY DEF CInv
<1>3. \A v \in Workers : workers'[v].op # "idle" =>
               /\ WriterOK(workers'[v], disk'[workers'[v].sid])
               /\ ReaderOK(workers'[v], disk'[workers'[v].sid])
    BY <1>1 DEF CInv
<1> QED
    BY <1>1, <1>2, <1>3, CalmStep

\* A request that answers, or is forgotten, has nothing left to promise.
LEMMA CalmEnd ==
    ASSUME IInv, CInv, NEW w \in Workers, NEW q,
           workers' = [workers EXCEPT ![w] = q], UNCHANGED disk,
           q.op \in {"idle", workers[w].op}, q.pc \in {"idle", "reply"}
    PROVE  CInv'
<1>1. ~Writing(q) /\ WriterOK(q, disk[q.sid]) /\ ReaderOK(q, disk[q.sid])
    BY DEF Writing, WriterOK, ReaderOK, Clean
<1> QED
    BY <1>1, CalmMove

LEMMA CalmAnswers ==
    ASSUME IInv, CInv, NEW w \in Workers, NEW status \in Statuses, NEW n \in Nat,
           workers[w].op # "idle", workers' = Answer(w, status, n),
           UNCHANGED disk
    PROVE  CInv'
<1>1. PICK q : /\ workers' = [workers EXCEPT ![w] = q]
               /\ Same(q, workers[w]) /\ q.pc = "reply"
    BY AnswerOK
<1> QED
    BY <1>1, CalmEnd DEF Same

\* Beside a writer, or init, nobody writes.
LEMMA Bystander ==
    ASSUME IInv, CInv, NEW w \in Workers, NEW v \in Workers, v # w,
           Writing(workers[w]) \/ workers[w].op = "init",
           workers[v].op # "idle", NEW d
    PROVE  WriterOK(workers[v], d) /\ workers[w].op # "init"
           /\ workers[v].op # "init" /\ ~Writing(workers[v])
<1>1. RequestOK(workers[w]) /\ RequestOK(workers[v])
    BY DEF IInv, WorkersOK
<1>2. workers[w].op # "idle"
    BY <1>1 DEF Writing, RequestOK, At
<1>3. workers[w].op # "init" /\ workers[v].op # "init"
    BY <1>2 DEF CInv, InTurn
<1>4. ~Writing(workers[v])
    BY <1>3 DEF CInv, InTurn
<1>5. workers[v].pc \notin {"mkdir", "truncate"}
    BY <1>1, <1>3 DEF RequestOK, At, Clean
<1> QED
    BY <1>3, <1>4, <1>5 DEF WriterOK, Writing

\* A writer changes its own directory and goes on; the others are not concerned.
LEMMA CalmWrite ==
    ASSUME IInv, CInv, NEW w \in Workers,
           Writing(workers[w]) \/ workers[w].op = "init",
           NEW s \in Sids, NEW d,
           \A x \in Sids : disk'[x] = IF x = s THEN d ELSE disk[x],
           NEW q, q.op = workers[w].op, q.sid = s, workers[w].sid = s,
           \A v \in Workers : workers'[v] = IF v = w THEN q ELSE workers[v],
           SessionOK(d), WriterOK(q, d), ReaderOK(q, d),
           \A v \in Workers \ {w} :
               workers[v].op \notin {"idle", "init"} /\ workers[v].sid = s
                   => ReaderOK(workers[v], d)
    PROVE  CInv'
<1>1. \A x \in Sids : SessionOK(disk'[x])
    BY DEF CInv
<1>2. ASSUME NEW v \in Workers, workers'[v].op # "idle"
      PROVE  /\ WriterOK(workers'[v], disk'[workers'[v].sid])
             /\ ReaderOK(workers'[v], disk'[workers'[v].sid])
    <2>1. CASE v = w
        BY <2>1
    <2>2. CASE v # w
        <3>1. workers'[v] = workers[v] /\ workers[v].op # "idle"
            BY <1>2, <2>2
        <3>2. workers[v].op # "init" /\ workers[v].sid \in Sids
            BY <2>2, <3>1, Bystander DEF IInv, WorkersOK, RequestOK
        <3>3. WriterOK(workers[v], disk'[workers[v].sid])
            BY <2>2, <3>1, Bystander
        <3>4. ReaderOK(workers[v], disk'[workers[v].sid])
            BY <2>2, <3>1, <3>2 DEF CInv
        <3> QED
            BY <3>1, <3>3, <3>4
    <2> QED
        BY <2>1, <2>2
<1>3. \A v \in Workers \ {w} : ~Writing(workers[v])
    <2>1. \A v \in Workers \ {w} : workers[v].op = "idle" => ~Writing(workers[v])
        BY DEF IInv, WorkersOK, RequestOK, At, Writing
    <2> QED
        BY <2>1, Bystander
<1> QED
    BY <1>1, <1>2, <1>3, CalmStep

LEMMA OneShape ==
    ASSUME Calm, NEW c \in Shapes
    PROVE  AllChunks = Chunks(c)
BY DEF Calm, AllChunks

LEMMA CalmOpenTmp ==
    ASSUME IInv, CInv, NEW w \in Workers, OpenTmp(w)
    PROVE  CInv'
<1> DEFINE r == workers[w]
           s == r.sid
           q == [r EXCEPT !.fd = "tmp", !.pc = "flush"]
           d == [disk[s] EXCEPT !.tmp = EMPTY]
<1>1. /\ r.pc = "open_tmp"
      /\ IF disk[s].dir
         THEN /\ disk' = [disk EXCEPT ![s].tmp = EMPTY]
              /\ workers' = [workers EXCEPT ![w].fd = "tmp", ![w].pc = "flush"]
         ELSE workers' = Answer(w, "error", 0) /\ UNCHANGED disk
    BY DEF OpenTmp
<1>2. /\ RequestOK(r) /\ r \in Worker /\ r.op # "idle" /\ s \in Sids
      /\ disk[s] \in Directory /\ disk \in [Sids -> Directory]
      /\ workers \in [Workers -> Worker]
    BY <1>1, At1
<1>3. CASE ~disk[s].dir
    BY <1>1, <1>2, <1>3, CalmAnswers DEF Statuses
<1>4. CASE disk[s].dir
    <2>1. /\ \A x \in Sids : disk'[x] = IF x = s THEN d ELSE disk[x]
          /\ \A v \in Workers : workers'[v] = IF v = w THEN q ELSE workers[v]
        BY <1>1, <1>2, <1>4
    <2>2. /\ q.pc = "flush" /\ q.fd = "tmp" /\ q.meta = r.meta /\ q.op = r.op
          /\ q.sid = s
        BY <1>2 DEF Worker
    <2>3. d.tmp = EMPTY /\ d.meta = disk[s].meta /\ d.data = disk[s].data
        BY <1>2 DEF Directory
    <2>4. /\ WriterOK(r, disk[s]) /\ SessionOK(disk[s])
          /\ r.op \in {"init", "chunk"}
        BY <1>1, <1>2 DEF CInv, RequestOK, At, Clean
    <2> HIDE DEF q, d, s
    <2>5. SessionOK(d)
        BY <2>3, <2>4 DEF SessionOK
    <2>6. WriterOK(q, d)
        BY <1>1, <2>2, <2>3, <2>4 DEF WriterOK, Writing
    <2>7. ReaderOK(q, d)
        BY <2>2, <2>4 DEF ReaderOK
    <2>8. \A v \in Workers \ {w} :
             workers[v].op \notin {"idle", "init"} /\ workers[v].sid = s
                 => ReaderOK(workers[v], d)
        BY <2>3 DEF CInv, ReaderOK
    <2> QED
        BY <1>1, <1>2, <2>1, <2>2, <2>5, <2>6, <2>7, <2>8, CalmWrite
        DEF Writing, s
<1> QED
    BY <1>3, <1>4

\* The temporary file is the writer's own, so its text is whole.
LEMMA CalmFlush ==
    ASSUME IInv, CInv, NEW w \in Workers, Flush(w)
    PROVE  CInv'
<1> DEFINE r == workers[w]
           s == r.sid
           q == [r EXCEPT !.fd = "none", !.pc = "replace"]
<1>1. /\ r.pc = "flush"
      /\ workers' = [workers EXCEPT ![w].fd = "none", ![w].pc = "replace"]
    BY DEF Flush
<1>2. /\ RequestOK(r) /\ r \in Worker /\ r.op # "idle" /\ s \in Sids
      /\ disk[s] \in Directory /\ disk \in [Sids -> Directory]
      /\ workers \in [Workers -> Worker]
    BY <1>1, At1
<1>3. /\ WriterOK(r, disk[s]) /\ SessionOK(disk[s]) /\ r.op \in {"init", "chunk"}
    BY <1>1, <1>2 DEF CInv, RequestOK, At, Clean
<1>4. \/ r.fd = "tmp" /\ disk[s].tmp = EMPTY
      \/ r.fd = "gone" /\ disk[s].tmp = ABSENT
    BY <1>1, <1>3 DEF WriterOK
<1>5. \/ r.fd = "tmp" /\ disk' = [disk EXCEPT ![s].tmp = r.meta]
      \/ r.fd = "gone" /\ UNCHANGED disk
    BY <1>4 DEF Flush
<1>6. \A v \in Workers : workers'[v] = IF v = w THEN q ELSE workers[v]
    BY <1>1, <1>2
<1>7. /\ q.pc = "replace" /\ q.meta = r.meta /\ q.op = r.op /\ q.sid = s
    BY <1>2 DEF Worker
<1> DEFINE d == disk'[s]
<1>8. /\ \A x \in Sids : disk'[x] = IF x = s THEN d ELSE disk[x]
      /\ d.meta = disk[s].meta /\ d.data = disk[s].data
      /\ d.tmp \in {ABSENT, r.meta}
    <2>1. CASE r.fd = "tmp" /\ disk' = [disk EXCEPT ![s].tmp = r.meta]
        BY <1>2, <2>1 DEF Directory
    <2>2. CASE UNCHANGED disk /\ r.fd = "gone"
        BY <1>4, <2>2
    <2> QED
        BY <1>5, <2>1, <2>2
<1> HIDE DEF q, d, s
<1>9. SessionOK(d)
    BY <1>3, <1>8 DEF SessionOK
<1>10. WriterOK(q, d)
    BY <1>1, <1>3, <1>7, <1>8 DEF WriterOK, Writing
<1>11. ReaderOK(q, d)
    BY <1>3, <1>7 DEF ReaderOK
<1>12. \A v \in Workers \ {w} :
          workers[v].op \notin {"idle", "init"} /\ workers[v].sid = s
              => ReaderOK(workers[v], d)
    BY <1>8 DEF CInv, ReaderOK
<1> QED
    BY <1>1, <1>2, <1>6, <1>7, <1>8, <1>9, <1>10, <1>11, <1>12, CalmWrite
    DEF Writing, s

\* Nobody else has the temporary file or meta.json open.
LEMMA CalmReplaceDoes ==
    ASSUME IInv, CInv, NEW w \in Workers, ReplaceMeta(w)
    PROVE  LET s == workers[w].sid
           IN  \/ UNCHANGED disk /\ workers' = Answer(w, "error", 0)
               \/ /\ disk[s].tmp = workers[w].meta /\ workers[w].meta \in Meta
                  /\ disk' = [disk EXCEPT ![s].meta = workers[w].meta,
                                          ![s].tmp = ABSENT]
                  /\ workers' = Answer(w, "ok", workers[w].meta.received)
<1> DEFINE r == workers[w]
           s == r.sid
           moved == [tmp |-> "meta", meta |-> "gone"]
           n == r.meta.received
<1>1. /\ r.pc = "replace"
      /\ IF disk[s].tmp = ABSENT
         THEN workers' = Answer(w, "error", 0) /\ UNCHANGED disk
         ELSE /\ disk' = [disk EXCEPT ![s].meta = disk[s].tmp,
                                      ![s].tmp = ABSENT]
              /\ workers' = Redirected(Answer(w, "ok", n), s, moved)
    BY DEF ReplaceMeta
<1>2. /\ RequestOK(r) /\ r.op # "idle" /\ s \in Sids
      /\ workers \in [Workers -> Worker]
    BY <1>1, At1
<1>3. disk[s].tmp \in {ABSENT, r.meta} /\ r.meta \in Meta /\ n \in Nat
    BY <1>1, <1>2 DEF CInv, WriterOK, RequestOK, Meta
<1>4. \A v \in Workers \ {w} : workers[v].fd \notin {"tmp", "meta"}
    BY <1>1 DEF IInv, WorkersOK, OpenOK, CInv, InTurn, Writing
<1> HIDE DEF n
<1>5. PICK q : Answer(w, "ok", n) = [workers EXCEPT ![w] = q] /\ q.fd = "none"
    BY <1>2, <1>3, AnswerOK DEF Statuses
<1>6. Redirected(Answer(w, "ok", n), s, moved) = [workers EXCEPT ![w] = q]
    <2>1. DOMAIN moved = {"tmp", "meta"}
        OBVIOUS
    <2> HIDE DEF moved
    <2> QED
        BY <1>2, <1>4, <1>5, <2>1 DEF Redirected
<1> QED
    BY <1>1, <1>3, <1>5, <1>6 DEF n

LEMMA CalmReplaceMeta ==
    ASSUME IInv, CInv, NEW w \in Workers, ReplaceMeta(w)
    PROVE  CInv'
<1> DEFINE r == workers[w]
           s == r.sid
           d == [disk[s] EXCEPT !.meta = r.meta, !.tmp = ABSENT]
<1>1. r.pc = "replace"
    BY DEF ReplaceMeta
<1>2. /\ RequestOK(r) /\ r \in Worker /\ r.op # "idle" /\ s \in Sids
      /\ disk[s] \in Directory /\ disk \in [Sids -> Directory]
      /\ workers \in [Workers -> Worker]
    BY <1>1, At1
<1>3. CASE UNCHANGED disk /\ workers' = Answer(w, "error", 0)
    BY <1>2, <1>3, CalmAnswers DEF Statuses
<1>4. CASE /\ r.meta \in Meta
           /\ disk' = [disk EXCEPT ![s].meta = r.meta, ![s].tmp = ABSENT]
           /\ workers' = Answer(w, "ok", r.meta.received)
    <2>1. r.meta.received \in Nat
        BY <1>4 DEF Meta
    <2>2. PICK q : /\ workers' = [workers EXCEPT ![w] = q]
                   /\ Same(q, r) /\ q.pc = "reply"
        <3> DEFINE n == r.meta.received
        <3> HIDE DEF n
        <3>1. workers' = Answer(w, "ok", n) /\ n \in Nat /\ "ok" \in Statuses
            BY <1>4, <2>1 DEF n, Statuses
        <3> QED
            BY <1>2, <3>1, AnswerOK
    <2>3. /\ \A x \in Sids : disk'[x] = IF x = s THEN d ELSE disk[x]
          /\ \A v \in Workers : workers'[v] = IF v = w THEN q ELSE workers[v]
        BY <1>2, <1>4, <2>2
    <2>4. d.meta = r.meta /\ d.data = disk[s].data
        BY <1>2 DEF Directory
    <2>5. WriterOK(r, disk[s])
        BY <1>2 DEF CInv
    <2>6. q.op = r.op /\ q.sid = s
        BY <2>2 DEF Same
    <2> HIDE DEF d, s
    <2>7. SessionOK(d)
        BY <1>1, <1>4, <2>4, <2>5, NothingAssumption
        DEF SessionOK, WriterOK, Writing, Torn
    <2>8. WriterOK(q, d) /\ ReaderOK(q, d)
        BY <2>2 DEF WriterOK, ReaderOK, Writing, Clean
    <2>9. \A v \in Workers \ {w} :
             workers[v].op \notin {"idle", "init"} /\ workers[v].sid = s
                 => ReaderOK(workers[v], d)
        BY <2>4 DEF CInv, ReaderOK
    <2> QED
        BY <1>1, <1>2, <2>3, <2>6, <2>7, <2>8, <2>9, CalmWrite DEF Writing, s
<1> QED
    BY <1>3, <1>4, CalmReplaceDoes

\* What the loss of each file leaves of the promises of request r, now q.
LEMMA CalmLoss ==
    ASSUME NEW r, NEW q, NEW d, NEW e, Still(q, r), OpenOK(r, disk),
           r.sid \in Sids, d = disk[r.sid],
           WriterOK(r, d), ReaderOK(r, d),
           \/ /\ e.data = ABSENT /\ e.meta = d.meta /\ e.tmp = d.tmp
              /\ q.fd = IF r.fd = "data" THEN "gone" ELSE r.fd
              /\ q.held = IF r.fd = "data" THEN d.data ELSE r.held
           \/ /\ e.data = d.data /\ e.meta = ABSENT /\ e.tmp = d.tmp
              /\ q.fd = IF r.fd = "meta" THEN "gone" ELSE r.fd
              /\ q.held = r.held
           \/ /\ e.data = d.data /\ e.meta = d.meta /\ e.tmp = ABSENT
              /\ q.fd = IF r.fd = "tmp" THEN "gone" ELSE r.fd
              /\ q.held = r.held
    PROVE  WriterOK(q, e) /\ ReaderOK(q, e)
<1>1. /\ q.op = r.op /\ q.pc = r.pc /\ q.meta = r.meta /\ q.idx = r.idx
    BY DEF Still, Same
<1>2. ABSENT \notin Meta
    BY NothingAssumption
<1>3. WriterOK(q, e)
    BY <1>1, <1>2 DEF WriterOK, Writing
<1>4. ReaderOK(q, e)
    BY <1>1 DEF ReaderOK, OpenOK, Clean
<1> QED
    BY <1>3, <1>4

LEMMA CalmFileGoes ==
    ASSUME IInv, CInv, NEW w \in Workers, NEW s, NEW file \in {"data", "meta", "tmp"},
           FileGone(w, s, file),
           file = "data" => disk'[s].data = ABSENT,
           file = "meta" => disk'[s].meta = ABSENT,
           file = "tmp" => disk'[s].tmp = ABSENT,
           \A v \in Workers \ {w} :
               workers'[v].held =
                   IF file = "data" /\ workers[v].sid = s /\ workers[v].fd = "data"
                   THEN disk[s].data ELSE workers[v].held
    PROVE  CInv'
<1> DEFINE d == disk'[s]
<1>1. /\ s \in Sids /\ disk' = [disk EXCEPT ![s] = d]
      /\ file # "data" => d.data = disk[s].data
      /\ file # "meta" => d.meta = disk[s].meta
      /\ file # "tmp" => d.tmp = disk[s].tmp
    BY DEF FileGone
<1>2. \A x \in Sids : disk'[x] = IF x = s THEN d ELSE disk[x]
    <2> HIDE DEF d
    <2> QED
        BY <1>1 DEF IInv, DiskOK
<1>3. /\ workers[w].pc \in Clean /\ workers'[w].pc \in Clean
      /\ workers'[w].op = workers[w].op /\ workers'[w].meta = workers[w].meta
      /\ workers'[w].held = workers[w].held
    BY DEF FileGone, Same
<1>4. \A v \in Workers \ {w} :
         /\ Still(workers'[v], workers[v])
         /\ workers'[v].fd =
               IF workers[v].sid = s /\ workers[v].fd = file THEN "gone"
               ELSE workers[v].fd
    BY DEF FileGone
<1>5. \A x \in Sids : SessionOK(disk'[x])
    <2>1. SessionOK(disk[s])
        BY <1>1 DEF CInv
    <2>2. SessionOK(d)
        BY <1>1, <2>1, NothingAssumption DEF SessionOK
    <2> QED
        BY <1>2, <2>2 DEF CInv
<1>6. ASSUME NEW v \in Workers, workers'[v].op # "idle"
      PROVE  /\ WriterOK(workers'[v], disk'[workers'[v].sid])
             /\ ReaderOK(workers'[v], disk'[workers'[v].sid])
    <2>1. CASE v = w
        <3>1. ReaderOK(workers[w], disk[workers[w].sid])
            BY <1>3, <1>6, <2>1 DEF CInv
        <3>2. WriterOK(workers'[w], disk'[workers'[w].sid])
            BY <1>3 DEF WriterOK, Writing, Clean
        <3>3. ReaderOK(workers'[w], disk'[workers'[w].sid])
            BY <1>3, <3>1 DEF ReaderOK, Clean
        <3> QED
            BY <2>1, <3>2, <3>3
    <2>2. CASE v # w
        <3> DEFINE r == workers[v]
                   q == workers'[v]
        <3>1. Still(q, r) /\ r.op # "idle" /\ q.sid = r.sid
            BY <1>4, <1>6, <2>2 DEF Still, Same
        <3>2. OpenOK(r, disk) /\ r.sid \in Sids
            BY <3>1 DEF IInv, WorkersOK, RequestOK
        <3>3. WriterOK(r, disk[r.sid]) /\ ReaderOK(r, disk[r.sid])
            BY <3>1 DEF CInv
        <3>4. /\ q.fd = IF r.sid = s /\ r.fd = file THEN "gone" ELSE r.fd
              /\ q.held = IF file = "data" /\ r.sid = s /\ r.fd = "data"
                          THEN disk[s].data ELSE r.held
            BY <1>4, <2>2
        <3>5. CASE r.sid = s
            <4> HIDE DEF r, q, d
            <4>1. disk'[s] = d
                BY <1>1, <1>2
            <4>2. \/ /\ d.data = ABSENT /\ d.meta = disk[s].meta
                     /\ d.tmp = disk[s].tmp
                     /\ q.fd = IF r.fd = "data" THEN "gone" ELSE r.fd
                     /\ q.held = IF r.fd = "data" THEN disk[s].data ELSE r.held
                  \/ /\ d.data = disk[s].data /\ d.meta = ABSENT
                     /\ d.tmp = disk[s].tmp
                     /\ q.fd = IF r.fd = "meta" THEN "gone" ELSE r.fd
                     /\ q.held = r.held
                  \/ /\ d.data = disk[s].data /\ d.meta = disk[s].meta
                     /\ d.tmp = ABSENT
                     /\ q.fd = IF r.fd = "tmp" THEN "gone" ELSE r.fd
                     /\ q.held = r.held
                BY <1>1, <3>4, <3>5, <4>1
            <4>3. WriterOK(r, disk[s]) /\ ReaderOK(r, disk[s])
                BY <3>3, <3>5
            <4>4. WriterOK(q, d) /\ ReaderOK(q, d)
                BY <3>1, <3>2, <3>5, <4>2, <4>3, CalmLoss
            <4> QED
                BY <3>1, <3>5, <4>1, <4>4 DEF q
        <3>6. CASE r.sid # s
            <4>1. disk'[r.sid] = disk[r.sid] /\ q.fd = r.fd /\ q.held = r.held
                BY <1>2, <3>2, <3>4, <3>6
            <4> HIDE DEF r, q
            <4>2. /\ q.op = r.op /\ q.pc = r.pc /\ q.meta = r.meta
                  /\ q.idx = r.idx /\ q.sid = r.sid
                BY <3>1 DEF Still, Same
            <4>3. WriterOK(q, disk'[q.sid]) /\ ReaderOK(q, disk'[q.sid])
                BY <3>3, <4>1, <4>2 DEF WriterOK, ReaderOK, Writing
            <4> QED
                BY <4>3 DEF q
        <3> QED
            BY <3>5, <3>6
    <2> QED
        BY <2>1, <2>2
<1>7. \A v \in Workers \ {w} :
         workers'[v].op = workers[v].op /\ workers'[v].pc = workers[v].pc
    BY <1>4 DEF Still, Same
<1> QED
    BY <1>3, <1>5, <1>6, <1>7, CalmStep DEF Writing, Clean

LEMMA CalmRemoves ==
    ASSUME IInv, CInv, NEW w \in Workers,
           RemoveData(w) \/ RemoveMeta(w) \/ RemoveTmp(w)
    PROVE  CInv'
<1>1. CASE RemoveData(w)
    BY <1>1, RemoveDataDoes, CalmFileGoes
<1>2. CASE RemoveMeta(w)
    BY <1>2, RemoveMetaDoes, CalmFileGoes
<1>3. CASE RemoveTmp(w)
    BY <1>3, RemoveTmpDoes, CalmFileGoes
<1> QED
    BY <1>1, <1>2, <1>3

LEMMA CalmRemoveDir ==
    ASSUME IInv, CInv, NEW w \in Workers, RemoveDir(w)
    PROVE  CInv'
<1> DEFINE r == workers[w]
           s == r.target
           next == IF r.op = "init" THEN "sweep" ELSE "save"
           q == [r EXCEPT !.target = NONE, !.pc = next]
           gone == disk[s].data = ABSENT /\ disk[s].meta = ABSENT
                   /\ disk[s].tmp = ABSENT
<1>1. /\ r.pc = "rm_dir" /\ disk' = [disk EXCEPT ![s].dir = @ /\ ~gone]
      /\ workers' = [workers EXCEPT ![w].target = NONE, ![w].pc = next]
    BY DEF RemoveDir
<1>2. /\ RequestOK(r) /\ r \in Worker /\ r.op # "idle"
      /\ workers \in [Workers -> Worker] /\ disk \in [Sids -> Directory]
    BY <1>1, At1
<1>3. next \in {"sweep", "save"} /\ r.op \in {"init", "complete"}
    BY <1>1, <1>2 DEF RequestOK, At, Clean
<1>4. r.op # "complete" => next = "sweep"
    BY <1>3
<1> HIDE DEF next, gone
<1>5. \A v \in Workers : workers'[v] = IF v = w THEN q ELSE workers[v]
    BY <1>1, <1>2
<1>6. /\ q.pc = next /\ q.op = r.op /\ q.sid = r.sid /\ q.meta = r.meta
      /\ q.held = r.held
    BY <1>2 DEF Worker
<1>7. \A x \in Sids : /\ disk'[x].data = disk[x].data
                      /\ disk'[x].meta = disk[x].meta
                      /\ disk'[x].tmp = disk[x].tmp
    BY <1>1, <1>2 DEF Directory
<1> HIDE DEF q, s
<1>8. \A x \in Sids : SessionOK(disk'[x])
    BY <1>7 DEF CInv, SessionOK
<1>9. ASSUME NEW v \in Workers, workers'[v].op # "idle"
      PROVE  /\ WriterOK(workers'[v], disk'[workers'[v].sid])
             /\ ReaderOK(workers'[v], disk'[workers'[v].sid])
    <2>1. CASE v = w
        <3>1. ReaderOK(r, disk[r.sid])
            BY <1>2 DEF CInv
        <3>2. \A d : WriterOK(q, d) /\ ReaderOK(q, d)
            BY <1>1, <1>3, <1>4, <1>6, <3>1 DEF WriterOK, ReaderOK, Writing, Clean
        <3> QED
            BY <1>5, <2>1, <3>2
    <2>2. CASE v # w
        <3>1. workers'[v] = workers[v] /\ workers[v].sid \in Sids
            BY <1>5, <1>9, <2>2 DEF IInv, WorkersOK, RequestOK
        <3>2. /\ WriterOK(workers[v], disk[workers[v].sid])
              /\ ReaderOK(workers[v], disk[workers[v].sid])
            BY <1>9, <3>1 DEF CInv
        <3> QED
            BY <1>7, <3>1, <3>2 DEF WriterOK, ReaderOK
    <2> QED
        BY <2>1, <2>2
<1> QED
    BY <1>3, <1>5, <1>6, <1>8, <1>9, CalmStep DEF Writing

\* The steps of init before it writes: it is alone.
LEMMA CalmListAndSweep ==
    ASSUME IInv, CInv, NEW w \in Workers, ListSessions(w) \/ SweepOne(w)
    PROVE  CInv'
<1> DEFINE r == workers[w]
<1>1. /\ r.pc \in {"list", "sweep"} /\ UNCHANGED disk
      /\ \/ workers' = Answer(w, "bad_meta", 0)
         \/ \E left, e : workers' = [workers EXCEPT ![w].sweep = left,
                                        ![w].target = e, ![w].pc = "rm_data"]
         \/ \E left : workers' = [workers EXCEPT ![w].sweep = left]
         \/ \E left : workers' = [workers EXCEPT ![w].sweep = left,
                                                 ![w].pc = "sweep"]
    BY DEF ListSessions, SweepOne
<1>2. /\ RequestOK(r) /\ r \in Worker /\ r.op # "idle"
      /\ workers \in [Workers -> Worker]
    BY <1>1, At1
<1>3. r.op = "init"
    BY <1>1, <1>2 DEF RequestOK, At, Clean
<1>4. CASE workers' = Answer(w, "bad_meta", 0)
    BY <1>1, <1>2, <1>4, CalmAnswers DEF Statuses
<1>5. ASSUME NEW q, workers' = [workers EXCEPT ![w] = q], q.op = r.op,
             q.pc \in {"list", "sweep", "rm_data"}
      PROVE  CInv'
    <2>1. ~Writing(q) /\ WriterOK(q, disk[q.sid]) /\ ReaderOK(q, disk[q.sid])
        BY <1>3, <1>5 DEF Writing, WriterOK, ReaderOK
    <2> QED
        BY <1>1, <1>5, <2>1, CalmMove
<1>6. ASSUME NEW left, NEW e,
             workers' = [workers EXCEPT ![w].sweep = left, ![w].target = e,
                                        ![w].pc = "rm_data"]
      PROVE  CInv'
    <2> DEFINE q == [r EXCEPT !.sweep = left, !.target = e, !.pc = "rm_data"]
    <2>1. workers' = [workers EXCEPT ![w] = q]
        BY <1>2, <1>6
    <2>2. q.op = r.op /\ q.pc = "rm_data"
        BY <1>2 DEF Worker
    <2> HIDE DEF q
    <2> QED
        BY <1>5, <2>1, <2>2
<1>7. ASSUME NEW left, workers' = [workers EXCEPT ![w].sweep = left]
      PROVE  CInv'
    <2> DEFINE q == [r EXCEPT !.sweep = left]
    <2>1. workers' = [workers EXCEPT ![w] = q]
        BY <1>2, <1>7
    <2>2. q.op = r.op /\ q.pc = r.pc
        BY <1>2 DEF Worker
    <2> HIDE DEF q
    <2> QED
        BY <1>1, <1>5, <2>1, <2>2
<1>8. ASSUME NEW left,
             workers' = [workers EXCEPT ![w].sweep = left, ![w].pc = "sweep"]
      PROVE  CInv'
    <2> DEFINE q == [r EXCEPT !.sweep = left, !.pc = "sweep"]
    <2>1. workers' = [workers EXCEPT ![w] = q]
        BY <1>2, <1>8
    <2>2. q.op = r.op /\ q.pc = "sweep"
        BY <1>2 DEF Worker
    <2> HIDE DEF q
    <2> QED
        BY <1>5, <2>1, <2>2
<1> QED
    BY <1>1, <1>4, <1>6, <1>7, <1>8

LEMMA CalmReadMeta ==
    ASSUME Calm, IInv, CInv, NEW w \in Workers, ReadMeta(w)
    PROVE  CInv'
<1> DEFINE r == workers[w]
           s == r.sid
           m == disk[s].meta
           n == [m EXCEPT !.old = FALSE]
<1>1. r.pc = "sweep" /\ UNCHANGED disk
    BY DEF ReadMeta
<1>2. \/ workers' = Answer(w, "bad_meta", 0)
      \/ /\ m \notin Torn /\ m # ABSENT
         /\ workers' = [workers EXCEPT ![w].meta = n, ![w].pc = "open_tmp"]
      \/ /\ m \notin Torn /\ (m = ABSENT \/ m.shape # r.shape)
         /\ workers' = [workers EXCEPT ![w].pc = "mkdir"]
    BY DEF ReadMeta, Goto
<1>3. /\ RequestOK(r) /\ r \in Worker /\ r.op # "idle" /\ s \in Sids
      /\ workers \in [Workers -> Worker] /\ disk[s] \in Directory
    BY <1>1, At1
<1>4. r.op = "init" /\ r.shape \in Shapes
    BY <1>1, <1>3 DEF RequestOK, At, Clean
<1>5. m \notin Torn => m = ABSENT \/ m \in Meta
    BY <1>3 DEF Directory, Text
<1>6. m \in Meta => m.shape = r.shape
    <2> HIDE DEF m
    <2> QED
        BY <1>4 DEF Calm, Meta
<1>7. \A v \in Workers \ {w} : ~Writing(workers[v])
    <2>1. \A v \in Workers : workers[v].op = "idle" => ~Writing(workers[v])
        BY DEF IInv, WorkersOK, RequestOK, At, Writing
    <2> QED
        BY <1>4, <2>1, Bystander
<1>8. CASE workers' = Answer(w, "bad_meta", 0)
    BY <1>1, <1>3, <1>8, CalmAnswers DEF Statuses
<1>9. CASE /\ m \notin Torn /\ m # ABSENT
           /\ workers' = [workers EXCEPT ![w].meta = n, ![w].pc = "open_tmp"]
    <2> DEFINE q == [r EXCEPT !.meta = n, !.pc = "open_tmp"]
    <2>1. n.shape = m.shape /\ n.received = m.received /\ m.received \in Nat
        <3>1. m \in Meta
            BY <1>5, <1>9
        <3> HIDE DEF m
        <3> QED
            BY <3>1 DEF Meta
    <2>2. SessionOK(disk[s]) /\ m \in Meta
        BY <1>3, <1>5, <1>9 DEF CInv
    <2>3. Counted(n) = Counted(m)
        BY <2>1 DEF Counted
    <2> HIDE DEF n
    <2>4. workers' = [workers EXCEPT ![w] = q]
        BY <1>3, <1>9
    <2>5. q.pc = "open_tmp" /\ q.meta = n /\ q.op = "init" /\ q.sid = s
        BY <1>3, <1>4 DEF Worker
    <2> HIDE DEF q
    <2>6. WriterOK(q, disk[q.sid])
        BY <2>1, <2>2, <2>3, <2>5 DEF WriterOK, Writing, SessionOK
    <2>7. ReaderOK(q, disk[q.sid])
        BY <2>5 DEF ReaderOK
    <2> QED
        BY <1>1, <1>4, <1>7, <2>4, <2>5, <2>6, <2>7, CalmMove
<1>10. CASE /\ m \notin Torn /\ (m = ABSENT \/ m.shape # r.shape)
            /\ workers' = [workers EXCEPT ![w].pc = "mkdir"]
    <2> DEFINE q == [r EXCEPT !.pc = "mkdir"]
    <2>1. workers' = [workers EXCEPT ![w] = q] /\ disk[s].meta = ABSENT
        BY <1>3, <1>5, <1>6, <1>10
    <2>2. q.pc = "mkdir" /\ q.op = "init" /\ q.sid = s
        BY <1>3, <1>4 DEF Worker
    <2> HIDE DEF q
    <2>3. WriterOK(q, disk[q.sid]) /\ ReaderOK(q, disk[q.sid])
        BY <2>1, <2>2 DEF WriterOK, ReaderOK, Writing
    <2> QED
        BY <1>1, <1>4, <1>7, <2>1, <2>2, <2>3, CalmMove
<1> QED
    BY <1>2, <1>8, <1>9, <1>10

LEMMA CalmMakeDir ==
    ASSUME IInv, CInv, NEW w \in Workers, MakeDir(w)
    PROVE  CInv'
<1> DEFINE r == workers[w]
           s == r.sid
           q == [r EXCEPT !.pc = "truncate"]
           d == [disk[s] EXCEPT !.dir = TRUE]
<1>1. /\ r.pc = "mkdir" /\ disk' = [disk EXCEPT ![s].dir = TRUE]
      /\ workers' = [workers EXCEPT ![w].pc = "truncate"]
    BY DEF MakeDir, Goto
<1>2. /\ RequestOK(r) /\ r \in Worker /\ r.op # "idle" /\ s \in Sids
      /\ disk[s] \in Directory /\ disk \in [Sids -> Directory]
      /\ workers \in [Workers -> Worker]
    BY <1>1, At1
<1>3. r.op = "init" /\ WriterOK(r, disk[s]) /\ SessionOK(disk[s])
    BY <1>1, <1>2 DEF RequestOK, At, Clean, CInv
<1>4. /\ \A x \in Sids : disk'[x] = IF x = s THEN d ELSE disk[x]
      /\ \A v \in Workers : workers'[v] = IF v = w THEN q ELSE workers[v]
    BY <1>1, <1>2
<1>5. q.pc = "truncate" /\ q.op = r.op /\ q.sid = s
    BY <1>2 DEF Worker
<1>6. d.meta = disk[s].meta /\ d.data = disk[s].data
    BY <1>2 DEF Directory
<1> HIDE DEF q, d, s
<1>7. SessionOK(d) /\ WriterOK(q, d) /\ ReaderOK(q, d)
    BY <1>1, <1>3, <1>5, <1>6 DEF SessionOK, WriterOK, ReaderOK, Writing
<1>8. \A v \in Workers \ {w} :
         workers[v].op \notin {"idle", "init"} /\ workers[v].sid = s
             => ReaderOK(workers[v], d)
    BY <1>6 DEF CInv, ReaderOK
<1> QED
    BY <1>2, <1>3, <1>4, <1>5, <1>7, <1>8, CalmWrite DEF s

\* data.bin is emptied only where there is no meta.json to contradict it.
LEMMA CalmTruncateData ==
    ASSUME IInv, CInv, NEW w \in Workers, TruncateData(w)
    PROVE  CInv'
<1> DEFINE r == workers[w]
           s == r.sid
           m == [shape |-> r.shape, received |-> 0,
                 old |-> FALSE]
           q == [r EXCEPT !.meta = m, !.pc = "open_tmp"]
           d == [disk[s] EXCEPT !.data = {}]
<1>1. /\ r.pc = "truncate"
      /\ IF disk[s].dir
         THEN /\ disk' = [disk EXCEPT ![s].data = {}]
              /\ workers' = [workers EXCEPT ![w].meta = m, ![w].pc = "open_tmp"]
         ELSE workers' = Answer(w, "error", 0) /\ UNCHANGED disk
    BY DEF TruncateData
<1>2. /\ RequestOK(r) /\ r \in Worker /\ r.op # "idle" /\ s \in Sids
      /\ disk[s] \in Directory /\ disk \in [Sids -> Directory]
      /\ workers \in [Workers -> Worker]
    BY <1>1, At1
<1>3. r.op = "init" /\ disk[s].meta = ABSENT
    BY <1>1, <1>2 DEF RequestOK, At, Clean, CInv, WriterOK
<1>4. CASE ~disk[s].dir
    BY <1>1, <1>2, <1>4, CalmAnswers DEF Statuses
<1>5. CASE disk[s].dir
    <2>1. m.received = 0 /\ Counted(m) = {}
        BY DEF Counted
    <2> HIDE DEF m
    <2>2. /\ \A x \in Sids : disk'[x] = IF x = s THEN d ELSE disk[x]
          /\ \A v \in Workers : workers'[v] = IF v = w THEN q ELSE workers[v]
        BY <1>1, <1>2, <1>5
    <2>3. q.pc = "open_tmp" /\ q.op = r.op /\ q.sid = s /\ q.meta = m
        BY <1>2 DEF Worker
    <2>4. d.meta = ABSENT /\ ABSENT \notin Meta \cup Torn
        BY <1>2, <1>3, NothingAssumption DEF Directory
    <2> HIDE DEF q, d, s
    <2>5. SessionOK(d)
        BY <2>4 DEF SessionOK
    <2>6. WriterOK(q, d) /\ ReaderOK(q, d)
        BY <1>3, <2>1, <2>3, <2>4 DEF WriterOK, ReaderOK, Writing
    <2>7. \A v \in Workers \ {w} : workers[v].op = "idle"
        BY <1>2, <1>3 DEF CInv, InTurn
    <2> QED
        BY <1>2, <1>3, <2>2, <2>3, <2>5, <2>6, <2>7, CalmWrite DEF s
<1> QED
    BY <1>4, <1>5

LEMMA CalmCheckChunk ==
    ASSUME IInv, CInv, NEW w \in Workers, CheckChunk(w)
    PROVE  CInv'
<1> DEFINE r == workers[w]
           s == r.sid
           m == disk[s].meta
<1>1. /\ r.op = "chunk" /\ r.pc = "start" /\ UNCHANGED disk
      /\ EventLoopFree
    BY DEF CheckChunk
<1>2. /\ RequestOK(r) /\ r \in Worker /\ r.op # "idle" /\ s \in Sids
      /\ workers \in [Workers -> Worker] /\ disk[s] \in Directory
    BY <1>1, At1
<1>3. m \notin Torn /\ m # ABSENT => m \in Meta /\ m.received \in Nat
    <2>1. m \notin Torn /\ m # ABSENT => m \in Meta
        BY <1>2 DEF Directory, Text
    <2> HIDE DEF m
    <2> QED
        BY <2>1 DEF Meta
<1>4. \/ \E status \in Statuses, n \in Nat : workers' = Answer(w, status, n)
      \/ /\ m \in Meta /\ r.idx = m.received
         /\ workers' = [workers EXCEPT ![w].meta = m, ![w].pc = "pwrite"]
    <2> HIDE DEF m
    <2>1. \/ workers' = Answer(w, "conflict", 0)
          \/ workers' = Answer(w, "bad_meta", 0)
          \/ m \notin Torn /\ m # ABSENT /\ workers' = Answer(w, "ok", m.received)
          \/ /\ m \notin Torn /\ m # ABSENT
             /\ ~(r.idx < m.received) /\ ~(r.idx > m.received)
             /\ workers' = [workers EXCEPT ![w].meta = m, ![w].pc = "pwrite"]
        BY DEF CheckChunk, m
    <2>2. r.idx \in Nat
        BY <1>2 DEF Worker
    <2> QED
        BY <1>3, <2>1, <2>2 DEF Statuses
<1>5. CASE \E status \in Statuses, n \in Nat : workers' = Answer(w, status, n)
    BY <1>1, <1>2, <1>5, CalmAnswers
<1>6. CASE /\ m \in Meta /\ r.idx = m.received
           /\ workers' = [workers EXCEPT ![w].meta = m, ![w].pc = "pwrite"]
    <2> DEFINE q == [r EXCEPT !.meta = m, !.pc = "pwrite"]
    <2>1. SessionOK(disk[s]) /\ m.received \in Nat
        BY <1>2, <1>6 DEF CInv, Meta
    <2>2. workers' = [workers EXCEPT ![w] = q]
        BY <1>2, <1>6
    <2>3. /\ q.pc = "pwrite" /\ q.meta = m /\ q.op = "chunk" /\ q.sid = s
          /\ q.idx = r.idx
        BY <1>1, <1>2 DEF Worker
    <2> HIDE DEF q
    <2>4. WriterOK(q, disk[q.sid])
        BY <1>6, <2>1, <2>3 DEF WriterOK, Writing, SessionOK
    <2>5. ReaderOK(q, disk[q.sid])
        BY <2>3 DEF ReaderOK
    <2>6. ASSUME NEW v \in Workers \ {w} PROVE ~Writing(workers[v])
        <3>1. workers[v].op # "init" /\ RequestOK(workers[v])
            BY <1>1 DEF IInv, WorkersOK, CInv, InTurn
        <3>2. workers[v].op = "chunk" => workers[v].pc \in {"start", "reply"}
            BY <1>1 DEF EventLoopFree
        <3> QED
            BY <3>1, <3>2 DEF RequestOK, At, Writing, Clean
    <2> QED
        BY <1>1, <2>2, <2>3, <2>4, <2>5, <2>6, CalmMove
<1> QED
    BY <1>4, <1>5, <1>6

\* The chunk that comes next is one more that meta.json may count.
LEMMA CalmWriteData ==
    ASSUME Calm, IInv, CInv, NEW w \in Workers, WriteData(w)
    PROVE  CInv'
<1> DEFINE r == workers[w]
           s == r.sid
           m == [r.meta EXCEPT !.received = @ + 1, !.old = FALSE]
           q == [r EXCEPT !.meta = m, !.pc = "open_tmp"]
           chunk == <<r.shape, r.idx>>
           data == disk[s].data \cup {chunk}
           d == [disk[s] EXCEPT !.data = data]
<1>1. /\ r.pc = "pwrite"
      /\ \/ workers' = Answer(w, "error", 0) /\ UNCHANGED disk
         \/ /\ disk[s].data # ABSENT
            /\ disk' = [disk EXCEPT ![s].data = @ \cup {chunk}]
            /\ workers' = [workers EXCEPT ![w].meta = m, ![w].pc = "open_tmp"]
    BY DEF WriteData
<1>2. /\ RequestOK(r) /\ r \in Worker /\ r.op # "idle" /\ s \in Sids
      /\ disk[s] \in Directory /\ disk \in [Sids -> Directory]
      /\ workers \in [Workers -> Worker]
    BY <1>1, At1
<1>3. /\ r.op = "chunk" /\ r.meta \in Meta /\ chunk \in AllChunks
      /\ r.shape \in Shapes
    BY <1>1, <1>2 DEF RequestOK, At, Clean
<1>4. WriterOK(r, disk[s]) /\ SessionOK(disk[s])
    BY <1>2 DEF CInv
<1>5. CASE workers' = Answer(w, "error", 0) /\ UNCHANGED disk
    BY <1>2, <1>5, CalmAnswers DEF Statuses
<1>6. CASE /\ disk[s].data # ABSENT
           /\ disk' = [disk EXCEPT ![s].data = @ \cup {chunk}]
           /\ workers' = [workers EXCEPT ![w].meta = m, ![w].pc = "open_tmp"]
    <2>1. /\ m.shape = r.meta.shape /\ m.received = r.meta.received + 1
          /\ r.meta.received \in Nat /\ r.meta.shape = r.shape
        <3> DEFINE old == r.meta
        <3>1. old \in Meta /\ r.shape \in Shapes
            BY <1>3
        <3>2. m = [old EXCEPT !.received = old.received + 1, !.old = FALSE]
            OBVIOUS
        <3> HIDE DEF old, m
        <3>3. /\ m.shape = old.shape /\ m.received = old.received + 1
              /\ old.received \in Nat /\ old.shape \in Shapes
            BY <3>1, <3>2 DEF Meta
        <3>4. old.shape = r.shape
            BY <3>1, <3>3 DEF Calm
        <3> QED
            BY <3>3, <3>4 DEF old
    <2>2. r.idx = r.meta.received /\ Counted(r.meta) \subseteq disk[s].data
        BY <1>1, <1>4, <1>6 DEF WriterOK, Writing
    <2>3. Counted(m) \subseteq data
        <3>1. ASSUME NEW k \in 0..(m.received - 1)
              PROVE  <<m.shape, k>> \in data
            <4>1. CASE k = r.meta.received
                BY <2>1, <2>2, <4>1
            <4>2. CASE k # r.meta.received
                <5>1. k \in 0..(r.meta.received - 1)
                    BY <2>1, <4>2
                <5> QED
                    BY <2>1, <2>2, <5>1 DEF Counted
            <4> QED
                BY <4>1, <4>2
        <3> QED
            BY <3>1 DEF Counted
    <2> HIDE DEF m
    <2>4. /\ \A x \in Sids : disk'[x] = IF x = s THEN d ELSE disk[x]
          /\ \A v \in Workers : workers'[v] = IF v = w THEN q ELSE workers[v]
        BY <1>2, <1>6
    <2>5. q.pc = "open_tmp" /\ q.op = r.op /\ q.sid = s /\ q.meta = m
        BY <1>2 DEF Worker
    <2>6. /\ d.meta = disk[s].meta /\ d.tmp = disk[s].tmp /\ d.data = data
          /\ disk[s].data \subseteq data
        BY <1>2 DEF Directory
    <2>7. ASSUME NEW v \in Workers \ {w},
                 workers[v].op \notin {"idle", "init"}, workers[v].sid = s
          PROVE  ReaderOK(workers[v], d)
        <3>1. ReaderOK(workers[v], disk[s]) /\ RequestOK(workers[v])
            BY <2>7 DEF CInv, IInv, WorkersOK
        <3>2. CASE workers[v].pc \in {"open_data", "drive"}
            <4>1. workers[v].meta \in Meta
                BY <3>1, <3>2 DEF RequestOK
            <4>2. workers[v].meta.shape \in Shapes
                BY <4>1 DEF Meta
            <4>3. chunk \in Chunks(workers[v].meta.shape)
                BY <1>3, <4>2, OneShape
            <4>4. disk[s].data = Chunks(workers[v].meta.shape) =>
                      data = Chunks(workers[v].meta.shape)
                BY <4>3
            <4> HIDE DEF data, d, chunk
            <4> QED
                BY <1>6, <2>6, <3>1, <4>4 DEF ReaderOK
        <3>3. CASE workers[v].pc \notin {"open_data", "drive"}
            BY <3>1, <3>3 DEF ReaderOK
        <3> QED
            BY <3>2, <3>3
    <2> HIDE DEF data, d, q
    <2>8. SessionOK(d)
        BY <1>4, <1>6, <2>6 DEF SessionOK
    <2>9. d.meta \in Meta => m.received >= d.meta.received
        <3>1. d.meta \in Meta => r.meta.received >= d.meta.received
            BY <1>1, <1>4, <2>6 DEF WriterOK, Writing
        <3>2. d.meta \in Meta => d.meta.received \in Nat
            BY DEF Meta
        <3> QED
            BY <2>1, <3>1, <3>2
    <2>10. WriterOK(q, d) /\ ReaderOK(q, d)
        BY <1>3, <2>3, <2>5, <2>6, <2>9 DEF WriterOK, ReaderOK, Writing
    <2> HIDE DEF s
    <2> QED
        BY <1>1, <1>2, <2>4, <2>5, <2>7, <2>8, <2>10, CalmWrite
        DEF Writing, s
<1> QED
    BY <1>1, <1>5, <1>6

LEMMA CalmFinalize ==
    ASSUME Calm, IInv, CInv, NEW w \in Workers, Finalize(w)
    PROVE  CInv'
<1> DEFINE r == workers[w]
           s == r.sid
           m == disk[s].meta
<1>1. r.op = "complete" /\ r.pc = "start" /\ UNCHANGED disk
    BY DEF Finalize
<1>2. /\ RequestOK(r) /\ r \in Worker /\ r.op # "idle" /\ s \in Sids
      /\ workers \in [Workers -> Worker] /\ disk[s] \in Directory
    BY <1>1, At1
<1>3. \/ workers' = Answer(w, "conflict", 0)
      \/ workers' = Answer(w, "bad_meta", 0)
      \/ /\ m \notin Torn /\ m # ABSENT /\ m.received = TotalChunks[m.shape]
         /\ workers' = [workers EXCEPT ![w].meta = m, ![w].pc = "open_data"]
    BY DEF Finalize
<1>4. CASE workers' = Answer(w, "conflict", 0) \/ workers' = Answer(w, "bad_meta", 0)
    BY <1>1, <1>2, <1>4, CalmAnswers DEF Statuses
<1>5. CASE /\ m \notin Torn /\ m # ABSENT /\ m.received = TotalChunks[m.shape]
           /\ workers' = [workers EXCEPT ![w].meta = m, ![w].pc = "open_data"]
    <2> DEFINE q == [r EXCEPT !.meta = m, !.pc = "open_data"]
    <2>1. m \in Meta
        BY <1>2, <1>5 DEF Directory, Text
    <2>2. m.shape \in Shapes
        BY <2>1 DEF Meta
    <2>3. Counted(m) = Chunks(m.shape)
        BY <1>5 DEF Counted, Chunks
    <2>4. disk[s].data \in {ABSENT, Chunks(m.shape)}
        <3>1. disk[s].data # ABSENT => Counted(m) \subseteq disk[s].data
            BY <1>2, <2>1 DEF CInv, SessionOK
        <3>2. disk[s].data # ABSENT => disk[s].data \in Contents
            BY <1>2 DEF Directory
        <3>3. disk[s].data # ABSENT => disk[s].data \subseteq Chunks(m.shape)
            BY <2>2, <3>2, OneShape DEF Contents
        <3> QED
            BY <2>3, <3>1, <3>3
    <2>5. workers' = [workers EXCEPT ![w] = q]
        BY <1>2, <1>5
    <2>6. q.pc = "open_data" /\ q.meta = m /\ q.op = "complete" /\ q.sid = s
        BY <1>1, <1>2 DEF Worker
    <2> HIDE DEF q, m
    <2>7. WriterOK(q, disk[q.sid]) /\ ReaderOK(q, disk[q.sid]) /\ ~Writing(q)
        BY <2>4, <2>6 DEF WriterOK, ReaderOK, Writing, Clean
    <2> QED
        BY <1>1, <2>5, <2>6, <2>7, CalmMove
<1> QED
    BY <1>3, <1>4, <1>5

LEMMA CalmOpenData ==
    ASSUME IInv, CInv, NEW w \in Workers, OpenData(w)
    PROVE  CInv'
<1> DEFINE r == workers[w]
           s == r.sid
           q == [r EXCEPT !.fd = "data", !.pc = "drive"]
<1>1. /\ r.pc = "open_data" /\ UNCHANGED disk
      /\ \/ workers' = Answer(w, "error", 0)
         \/ workers' = [workers EXCEPT ![w].fd = "data", ![w].pc = "drive"]
    BY DEF OpenData
<1>2. /\ RequestOK(r) /\ r \in Worker /\ r.op # "idle"
      /\ workers \in [Workers -> Worker]
    BY <1>1, At1
<1>3. r.op = "complete" /\ ReaderOK(r, disk[s])
    BY <1>1, <1>2 DEF RequestOK, At, Clean, CInv
<1>4. CASE workers' = Answer(w, "error", 0)
    BY <1>1, <1>2, <1>4, CalmAnswers DEF Statuses
<1>5. CASE workers' = [workers EXCEPT ![w].fd = "data", ![w].pc = "drive"]
    <2>1. workers' = [workers EXCEPT ![w] = q]
        BY <1>2, <1>5
    <2>2. /\ q.pc = "drive" /\ q.meta = r.meta /\ q.op = "complete" /\ q.sid = s
          /\ q.fd = "data"
        BY <1>2, <1>3 DEF Worker
    <2> HIDE DEF q
    <2>3. WriterOK(q, disk[q.sid]) /\ ReaderOK(q, disk[q.sid]) /\ ~Writing(q)
        BY <1>1, <1>3, <2>2 DEF WriterOK, ReaderOK, Writing, Clean
    <2> QED
        BY <1>1, <1>3, <2>1, <2>2, <2>3, CalmMove
<1> QED
    BY <1>1, <1>4, <1>5

LEMMA CalmUploadToDrive ==
    ASSUME IInv, CInv, NEW w \in Workers, UploadToDrive(w)
    PROVE  CInv'
<1> DEFINE r == workers[w]
           s == r.sid
           held == IF r.fd = "data" THEN disk[s].data ELSE r.held
           q == [r EXCEPT !.held = held, !.fd = "none", !.target = s,
                          !.pc = "rm_data"]
<1>1. /\ r.pc = "drive" /\ UNCHANGED disk
      /\ workers' = [workers EXCEPT
            ![w].held = IF r.fd = "data" THEN disk[s].data ELSE @,
            ![w].fd = "none", ![w].target = s, ![w].pc = "rm_data"]
    BY DEF UploadToDrive
<1>2. /\ RequestOK(r) /\ r \in Worker /\ r.op # "idle" /\ OpenOK(r, disk)
      /\ workers \in [Workers -> Worker]
    BY <1>1, At1
<1>3. r.op = "complete" /\ ReaderOK(r, disk[s])
    BY <1>1, <1>2 DEF RequestOK, At, Clean, CInv
<1>4. held = Chunks(r.meta.shape)
    BY <1>1, <1>2, <1>3 DEF ReaderOK, OpenOK
<1>5. workers' = [workers EXCEPT ![w] = q]
    BY <1>1, <1>2
<1> HIDE DEF held
<1>6. q.pc = "rm_data" /\ q.meta = r.meta /\ q.op = "complete" /\ q.held = held
    BY <1>2, <1>3 DEF Worker
<1> HIDE DEF q
<1>7. WriterOK(q, disk[q.sid]) /\ ReaderOK(q, disk[q.sid]) /\ ~Writing(q)
    BY <1>4, <1>6 DEF WriterOK, ReaderOK, Writing, Clean
<1> QED
    BY <1>1, <1>3, <1>5, <1>6, <1>7, CalmMove, ZenonT(60)

LEMMA CalmFailsAndSaves ==
    ASSUME IInv, CInv, NEW w \in Workers,
           GoogleFails(w) \/ SaveVault(w)
    PROVE  CInv'
<1>1. /\ UNCHANGED disk
      /\ workers' = Answer(w, "error", 0) \/ workers' = Answer(w, "ok", 0)
    BY DEF GoogleFails, SaveVault
<1>2. workers[w].op # "idle"
    <2>1. CASE GoogleFails(w)
        BY <2>1 DEF GoogleFails
    <2>2. CASE SaveVault(w)
        BY <2>2, At1 DEF SaveVault
    <2> QED
        BY <2>1, <2>2
<1> QED
    BY <1>1, <1>2, CalmAnswers DEF Statuses

\* InitAlone: init is sent when nothing runs, and nothing is sent beside it.
LEMMA CalmSend ==
    ASSUME Calm, IInv, CInv, NEW t \in Tabs, NEW w \in Workers, Send(t, w)
    PROVE  CInv'
<1> DEFINE a == tabs[t]
           pc == IF a.pc = "init" THEN "list" ELSE "start"
           q == [Idle EXCEPT !.op = a.pc, !.tab = t, !.sid = a.batch[a.start],
                             !.shape = a.shape,
                             !.idx = a.next, !.pc = pc]
           busy == {v \in Workers : workers[v].op # "idle"}
<1>1. /\ a.pc \in {"init", "chunk", "complete"} /\ workers[w].op = "idle"
      /\ UNCHANGED disk /\ workers' = [workers EXCEPT ![w] = q]
      /\ IF a.pc = "init" THEN busy = {}
         ELSE \A v \in busy : workers[v].op # "init"
    BY DEF Send, Calm
<1>2. pc \in {"list", "start"} /\ q.op = a.pc /\ q.pc = pc
    BY DEF Idle
<1> HIDE DEF pc, q
<1>3. \A v \in Workers : workers'[v] = IF v = w THEN q ELSE workers[v]
    BY <1>1 DEF IInv, WorkersOK
<1>4. ~Writing(q) /\ \A d : WriterOK(q, d) /\ ReaderOK(q, d)
    BY <1>2 DEF Writing, WriterOK, ReaderOK, Clean
<1>5. InTurn'
    <2>1. ASSUME NEW v \in Workers, NEW x \in Workers,
                 workers'[v].op = "init", workers'[x].op # "idle"
          PROVE  v = x
        BY <1>1, <1>2, <1>3, <2>1 DEF CInv, InTurn
    <2>2. ASSUME NEW v \in Workers, NEW x \in Workers,
                 Writing(workers'[v]), Writing(workers'[x])
          PROVE  v = x
        BY <1>3, <1>4, <2>2 DEF CInv, InTurn
    <2> QED
        BY <2>1, <2>2 DEF InTurn, Writing
<1>6. \A v \in Workers : workers'[v].op # "idle" =>
         /\ WriterOK(workers'[v], disk'[workers'[v].sid])
         /\ ReaderOK(workers'[v], disk'[workers'[v].sid])
    BY <1>1, <1>3, <1>4 DEF CInv
<1> QED
    BY <1>1, <1>5, <1>6 DEF CInv

LEMMA CalmReply ==
    ASSUME IInv, CInv, NEW w \in Workers, Reply(w)
    PROVE  CInv'
<1>1. UNCHANGED disk /\ workers' = [workers EXCEPT ![w] = Idle]
    BY DEF Reply
<1> QED
    BY <1>1, IdleOK, CalmEnd

LEMMA CalmConnectionLost ==
    ASSUME IInv, CInv, NEW t \in Tabs, ConnectionLost(t)
    PROVE  CInv'
<1>1. PICK w \in Workers :
         /\ UNCHANGED disk /\ workers[w].tab = t
         /\ \/ workers' = [workers EXCEPT ![w].tab = NONE]
            \/ workers' = [workers EXCEPT ![w] = Idle]
    BY DEF ConnectionLost
<1>2. CASE workers' = [workers EXCEPT ![w] = Idle]
    BY <1>1, <1>2, IdleOK, CalmEnd
<1>3. CASE workers' = [workers EXCEPT ![w].tab = NONE]
    <2> DEFINE r == workers[w]
               q == [r EXCEPT !.tab = NONE]
    <2>1. r \in Worker /\ RequestOK(r) /\ workers \in [Workers -> Worker]
        BY DEF IInv, WorkersOK
    <2>2. r.op # "idle"
        BY <1>1, <2>1, NothingAssumption DEF RequestOK
    <2>3. workers' = [workers EXCEPT ![w] = q]
        BY <1>3, <2>1
    <2>4. /\ q.op = r.op /\ q.pc = r.pc /\ q.sid = r.sid /\ q.idx = r.idx
          /\ q.meta = r.meta /\ q.fd = r.fd /\ q.held = r.held
        BY <2>1 DEF Worker
    <2> HIDE DEF q
    <2>5. WriterOK(r, disk[r.sid]) /\ ReaderOK(r, disk[r.sid])
        BY <2>2 DEF CInv
    <2>6. WriterOK(q, disk[q.sid]) /\ ReaderOK(q, disk[q.sid])
        BY <2>4, <2>5 DEF WriterOK, ReaderOK, Writing
    <2>7. Writing(q) => \A v \in Workers \ {w} : ~Writing(workers[v])
        BY <2>4 DEF CInv, InTurn, Writing
    <2> QED
        BY <1>1, <2>3, <2>4, <2>6, <2>7, CalmMove
<1> QED
    BY <1>1, <1>2, <1>3

LEMMA CalmCrash ==
    ASSUME CInv, Crash
    PROVE  CInv'
<1>1. UNCHANGED disk /\ \A w \in Workers : workers'[w] = Idle
    BY DEF Crash
<1> QED
    BY <1>1, IdleOK DEF CInv, InTurn, Writing

\* Two days change the age of meta.json and nothing it counts.
LEMMA AgesDoes ==
    ASSUME IInv, TwoDaysPass, NEW s \in Sids
    PROVE  /\ disk'[s].data = disk[s].data /\ disk'[s].tmp = disk[s].tmp
           /\ disk[s].meta \notin Meta => disk'[s].meta = disk[s].meta
           /\ disk[s].meta \in Meta =>
                 /\ disk'[s].meta \in Meta
                 /\ disk'[s].meta.received = disk[s].meta.received
                 /\ disk'[s].meta.shape = disk[s].meta.shape
<1> DEFINE m == [disk[s].meta EXCEPT !.old = TRUE]
<1>1. disk'[s] = IF disk[s].meta \in Meta THEN [disk[s] EXCEPT !.meta = m]
                 ELSE disk[s]
    BY DEF TwoDaysPass
<1>2. disk[s] \in Directory
    BY DEF IInv, DiskOK
<1>3. disk[s].meta \in Meta =>
         /\ m \in Meta /\ m.received = disk[s].meta.received
         /\ m.shape = disk[s].meta.shape
    BY DEF Meta
<1> HIDE DEF m
<1> QED
    BY <1>1, <1>2, <1>3 DEF Directory

LEMMA CalmTwoDaysPass ==
    ASSUME IInv, CInv, TwoDaysPass
    PROVE  CInv'
<1>1. UNCHANGED workers /\ \A w \in Workers : workers[w].op = "idle"
    BY DEF TwoDaysPass
<1>2. ASSUME NEW s \in Sids PROVE SessionOK(disk'[s])
    <2>1. SessionOK(disk[s])
        BY DEF CInv
    <2>2. CASE disk[s].meta \in Meta
        <3>1. /\ disk'[s].meta \in Meta /\ disk'[s].data = disk[s].data
              /\ Counted(disk'[s].meta) = Counted(disk[s].meta)
            BY <2>2, AgesDoes DEF Counted
        <3> QED
            BY <2>1, <2>2, <3>1, NothingAssumption DEF SessionOK, Torn
    <2>3. CASE disk[s].meta \notin Meta
        BY <2>1, <2>3, AgesDoes DEF SessionOK
    <2> QED
        BY <2>2, <2>3
<1> QED
    BY <1>1, <1>2 DEF CInv, InTurn, Writing

LEMMA CalmStays ==
    ASSUME CInv, UNCHANGED <<disk, workers>>
    PROVE  CInv'
BY DEF CInv, InTurn, Writing

LEMMA CalmInit == Init => CInv
<1> SUFFICES ASSUME Init
             PROVE  CInv
    OBVIOUS
<1>1. \A w \in Workers : workers[w] = Idle
    BY DEF Init
<1>2. \A s \in Sids : SessionOK(disk[s])
    BY NothingAssumption DEF Init, NoSession, SessionOK
<1> QED
    BY <1>1, <1>2, IdleOK DEF CInv, InTurn, Writing

LEMMA CalmNext ==
    ASSUME Calm, IInv, CInv, [Next]_vars
    PROVE  CInv'
<1>1. CASE UNCHANGED vars
    BY <1>1, CalmStays DEF vars
<1>2. CASE \E t \in Tabs : Drop(t) \/ Resume(t)
    BY <1>2, CalmStays DEF Drop, Resume
<1>3. CASE \E t \in Tabs, w \in Workers : Send(t, w)
    BY <1>3, CalmSend
<1>4. ASSUME NEW w \in Workers, ServerStep(w)
      PROVE  CInv'
    <2>1. CASE OpenTmp(w) \/ Flush(w) \/ ReplaceMeta(w)
        BY <2>1, CalmOpenTmp, CalmFlush, CalmReplaceMeta
    <2>2. CASE RemoveData(w) \/ RemoveMeta(w) \/ RemoveTmp(w) \/ RemoveDir(w)
        BY <2>2, CalmRemoves, CalmRemoveDir
    <2>3. CASE ListSessions(w) \/ SweepOne(w) \/ ReadMeta(w)
        BY <2>3, CalmListAndSweep, CalmReadMeta
    <2>4. CASE MakeDir(w) \/ TruncateData(w) \/ CheckChunk(w) \/ WriteData(w)
        BY <2>4, CalmMakeDir, CalmTruncateData, CalmCheckChunk, CalmWriteData
    <2>5. CASE Finalize(w) \/ OpenData(w) \/ UploadToDrive(w) \/ SaveVault(w)
        BY <2>5, CalmFinalize, CalmOpenData, CalmUploadToDrive, CalmFailsAndSaves
    <2>6. CASE Reply(w)
        BY <2>6, CalmReply
    <2> QED
        BY <1>4, <2>1, <2>2, <2>3, <2>4, <2>5, <2>6 DEF ServerStep
<1>5. CASE Fault
    BY <1>5, CalmConnectionLost, CalmFailsAndSaves, CalmCrash, CalmTwoDaysPass
    DEF Fault
<1> QED
    BY <1>1, <1>2, <1>3, <1>4, <1>5 DEF Next

\* With init alone and one chunk size there is one writer of a session, and what
\* it is about to write to meta.json is true of data.bin, in every behaviour.
THEOREM CalmInvariance ==
    ASSUME Calm
    PROVE  Spec => [](IInv /\ CInv)
<1>1. Init => IInv /\ CInv
    BY InitInv, CalmInit
<1>2. IInv /\ CInv /\ [Next]_vars => (IInv /\ CInv)'
    BY NextKeeps, CalmNext
<1> QED
    BY <1>1, <1>2, PTL DEF Spec

\* No request and no restart ever finds a meta.json that is empty or half
\* written: _write_meta's temporary file and os.replace do what they are for, as
\* long as init overlaps no other request.
THEOREM MetaIsIntact ==
    ASSUME Calm
    PROVE  Spec => []MetaIntact
<1>1. CInv => MetaIntact
    BY DEF CInv, SessionOK, MetaIntact
<1> QED
    BY <1>1, CalmInvariance, PTL

\* The chunks received_chunks counts are in data.bin, at every point where a crash
\* or a lost request may interrupt write_chunk, init_session or the cleanup.
THEOREM CountedIsWritten ==
    ASSUME Calm
    PROVE  Spec => []ReceivedIsWritten
<1>1. CInv => ReceivedIsWritten
    BY DEF CInv, SessionOK, Counted, ReceivedIsWritten
<1> QED
    BY <1>1, CalmInvariance, PTL

\* What finalize_session hands to the drives, and complete records in the vault,
\* is the whole file, also when two complete requests clean the session up.
THEOREM WholeIsHandedOff ==
    ASSUME Calm
    PROVE  Spec => []HandedOffWhole
<1>1. IInv /\ CInv => HandedOffWhole
    BY DEF CInv, ReaderOK, HandedOffWhole, Cleaning, Clean
<1> QED
    BY <1>1, CalmInvariance, PTL

=============================================================================
