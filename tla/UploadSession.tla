---------------------------- MODULE UploadSession ----------------------------
(***************************************************************************)
(* Resumable uploads of one user: the session directories on the server's  *)
(* disk (upload_sessions.py), the three routes that work on them (main.py, *)
(* /upload/init, /upload/chunk, /upload/complete) and the uploader that    *)
(* runs in every browser tab (templates/dashboard.html).                   *)
(*                                                                         *)
(* init and complete are `def` routes: each request runs in a thread of    *)
(* its own and interleaves with the others at every file operation.  The   *)
(* chunk route is `async def` and its write_chunk has no await, so chunk   *)
(* requests are serialized by the event loop, among themselves only.       *)
(*                                                                         *)
(* A session is the file a tab uploads: sessionIdFor hashes its name, size *)
(* and modification time.  A chunk is the pair of the chunk size it was    *)
(* cut with (its "shape") and its index.  json.dump's output fits one      *)
(* write, made when the file is closed.  The folder a session was opened   *)
(* for, and the vault in which complete records the file, are left out.    *)
(***************************************************************************)
EXTENDS Integers, FiniteSets, Sequences

CONSTANTS
    Tabs,        \* browser tabs of the user
    Workers,     \* requests the server may be running at the same time
    Sids,        \* session ids, one per file
    Batches,     \* the sequences of files that may be dropped on a page
    Shapes,      \* chunk sizes a page may have been loaded with
    TotalChunks, \* TotalChunks[c]: chunks of a file cut with chunk size c
    MaxRetries,  \* MAX_RETRIES_PER_CHUNK of the uploader
    MaxFaults,   \* bound: lost requests, crashes, Drive failures, idle days
    MaxDrops,    \* bound: uploads started in each tab
    InitAlone,   \* environment: init never overlaps another request
    Crashes,     \* environment: the server process may die
    ABSENT, EMPTY, GARBLED, NONE

ASSUME BatchesAssumption == Batches \subseteq Seq(Sids) \ {<<>>}
ASSUME TotalChunksAssumption == TotalChunks \in [Shapes -> Nat \ {0}]
ASSUME BoundsAssumption ==
    MaxRetries \in Nat /\ MaxFaults \in Nat /\ MaxDrops \in Nat
ASSUME EnvironmentAssumption ==
    InitAlone \in BOOLEAN /\ Crashes \in BOOLEAN

VARIABLES
    disk,       \* disk[s]: the directory of session s
    workers,    \* the request each worker runs, and where it is in it
    tabs,       \* the uploader of each tab
    faults      \* faults so far

vars == <<disk, workers, tabs, faults>>

-----------------------------------------------------------------------------
Meta == [shape : Shapes, received : Nat, old : BOOLEAN]

\* What a text file may hold; EMPTY and GARBLED are not JSON.
Torn == {EMPTY, GARBLED}
Text == Meta \cup Torn \cup {ABSENT}

Chunks(c) == {<<c, k>> : k \in 0..(TotalChunks[c] - 1)}
AllChunks == UNION {Chunks(c) : c \in Shapes}

ASSUME NothingAssumption ==
    /\ ABSENT \notin Meta \cup Torn /\ EMPTY \notin Meta /\ GARBLED \notin Meta
    /\ \A data \in SUBSET AllChunks : data # ABSENT
    /\ NONE \notin Tabs

NoSession == [dir |-> FALSE, data |-> ABSENT, meta |-> ABSENT, tmp |-> ABSENT]

Idle == [op |-> "idle", pc |-> "idle", tab |-> NONE, sid |-> NONE,
         shape |-> NONE, idx |-> 0, meta |-> NONE,
         fd |-> "none", held |-> {}, sweep |-> {}, target |-> NONE,
         res |-> "none", count |-> 0]

\* start: the file in progress, which is also where Resume begins.
NoUpload == [pc |-> "idle", batch |-> <<>>, start |-> 1, shape |-> NONE,
             next |-> 0, attempt |-> 0, waiting |-> FALSE,
             drops |-> 0]

Init ==
    /\ disk = [s \in Sids |-> NoSession]
    /\ workers = [w \in Workers |-> Idle]
    /\ tabs = [t \in Tabs |-> NoUpload]
    /\ faults = 0

-----------------------------------------------------------------------------
(* The uploader of a tab.                                                  *)

\* Files are dropped on the page: uploadFiles sends them one after the other,
\* with the chunk size the page fetched when it was loaded.  Environment: nobody
\* drops files on a page that is uploading, although the page would take them.  A
\* tab that gave up or was closed half way starts over with any files.
Drop(t) ==
    /\ tabs[t].pc \in {"idle", "paused", "done"}
    /\ tabs[t].drops < MaxDrops
    /\ \E files \in Batches, c \in Shapes :
          tabs' = [tabs EXCEPT ![t] =
                     [NoUpload EXCEPT !.pc = "init", !.batch = files,
                                      !.shape = c,
                                      !.drops = tabs[t].drops + 1]]
    /\ UNCHANGED <<disk, workers, faults>>

\* fetch: the request reaches the server and a worker takes it up.  With
\* InitAlone, init starts when nothing runs and nothing starts beside it.
Send(t, w) ==
    LET b == tabs[t]
        busy == {v \in Workers : workers[v].op # "idle"}
    IN  /\ b.pc \in {"init", "chunk", "complete"}
        /\ ~b.waiting
        /\ workers[w].op = "idle"
        /\ InitAlone =>
              IF b.pc = "init" THEN busy = {}
              ELSE \A v \in busy : workers[v].op # "init"
        /\ workers' = [workers EXCEPT ![w] =
              [Idle EXCEPT !.op = b.pc, !.tab = t,
                           !.sid = b.batch[b.start],
                           !.shape = b.shape, !.idx = b.next,
                           !.pc = IF b.pc = "init" THEN "list" ELSE "start"]]
        /\ tabs' = [tabs EXCEPT ![t].waiting = TRUE]
        /\ UNCHANGED <<disk, faults>>

\* Slip: one retry too many.
AfterErrorOnceMore(b) ==
    LET retry == b.pc = "chunk" /\ b.attempt <= MaxRetries
    IN  [b EXCEPT !.waiting = FALSE, !.attempt = IF retry THEN @ + 1 ELSE 0,
                  !.pc = IF retry THEN "chunk" ELSE "paused"]

\* The answer to a failed fetch, or to one that was not ok: a chunk is tried
\* again, anything else throws and the upload is paused.
AfterError(b) ==
    LET retry == b.pc = "chunk" /\ b.attempt < MaxRetries
    IN  [b EXCEPT !.waiting = FALSE, !.attempt = IF retry THEN @ + 1 ELSE 0,
                  !.pc = IF retry THEN "chunk" ELSE "paused"]

\* Slip: the loop runs while received_chunks <= total_chunks.
AfterCountOneMore(b, n) ==
    [b EXCEPT !.waiting = FALSE, !.next = n, !.attempt = 0,
              !.pc = IF n <= TotalChunks[b.shape] THEN "chunk" ELSE "complete"]

\* received_chunks from the server decides what is sent next.
AfterCount(b, n) ==
    [b EXCEPT !.waiting = FALSE, !.next = n, !.attempt = 0,
              !.pc = IF n < TotalChunks[b.shape] THEN "chunk" ELSE "complete"]

\* This file is done; Resume must not redo it.
AfterComplete(b) ==
    [b EXCEPT !.waiting = FALSE, !.start = @ + 1, !.next = 0,
              !.pc = IF b.start < Len(b.batch) THEN "init" ELSE "done"]

AfterReply(b, r) ==
    IF r.res # "ok" THEN AfterError(b)
    ELSE IF r.op = "complete" THEN AfterComplete(b)
    ELSE AfterCount(b, r.count)

\* The server's answer reaches the tab, if the tab still waits for it.
Reply(w) ==
    LET r == workers[w] IN
    /\ r.pc = "reply"
    /\ tabs' = IF r.tab # NONE
               THEN [tabs EXCEPT ![r.tab] = AfterReply(@, r)]
               ELSE tabs
    /\ workers' = [workers EXCEPT ![w] = Idle]
    /\ UNCHANGED <<disk, faults>>

\* The connection drops: the tab sees a network error.  Either the request
\* never arrived, or the server does not notice and the worker goes on
\* unobserved.
ConnectionLost(t) ==
    /\ tabs[t].waiting
    /\ faults < MaxFaults
    /\ faults' = faults + 1
    /\ tabs' = [tabs EXCEPT ![t] = AfterError(@)]
    /\ \E w \in Workers :
          /\ workers[w].tab = t
          /\ \/ workers' = [workers EXCEPT ![w].tab = NONE]
             \/ /\ workers[w].pc \in {"list", "start"}
                /\ workers' = [workers EXCEPT ![w] = Idle]
    /\ UNCHANGED disk

\* The user clicks Resume: uploadFiles again, from the file that failed.
Resume(t) ==
    /\ tabs[t].pc = "paused"
    /\ tabs' = [tabs EXCEPT ![t].pc = "init", ![t].next = 0, ![t].attempt = 0]
    /\ UNCHANGED <<disk, workers, faults>>

-----------------------------------------------------------------------------
(* Steps shared by the three routes.                                       *)

\* w sends its answer: a status, and received_chunks when there is one.
Answer(w, status, n) ==
    [workers EXCEPT ![w].pc = "reply", ![w].res = status, ![w].count = n,
                    ![w].fd = "none", ![w].meta = NONE]

Goto(w, label) == [workers EXCEPT ![w].pc = label]

\* The open descriptors on files of s follow their inode: a renamed file keeps
\* them, an unlinked or replaced one takes them out of the directory.
Redirected(ws, s, moved) ==
    [v \in Workers |->
        IF ws[v].sid = s /\ ws[v].fd \in DOMAIN moved
        THEN [ws[v] EXCEPT !.fd = moved[@]]
        ELSE ws[v]]

\* Slip: meta.json is written in place, without a temporary file.
OpenMetaInPlace(w) ==
    LET s == workers[w].sid IN
    /\ workers[w].pc = "open_tmp"
    /\ disk' = [disk EXCEPT ![s].meta = EMPTY]
    /\ workers' = [workers EXCEPT ![w].fd = "meta", ![w].pc = "flush"]
    /\ UNCHANGED <<tabs, faults>>

\* _write_meta, open(tmp_path, "w"): creates or truncates the one temporary
\* file of the session.
OpenTmp(w) ==
    LET s == workers[w].sid IN
    /\ workers[w].pc = "open_tmp"
    /\ IF disk[s].dir
       THEN /\ disk' = [disk EXCEPT ![s].tmp = EMPTY]
            /\ workers' = [workers EXCEPT ![w].fd = "tmp", ![w].pc = "flush"]
       ELSE /\ workers' = Answer(w, "error", 0)
            /\ UNCHANGED disk
    /\ UNCHANGED <<tabs, faults>>

\* json.dump and close: the text lands at the start of the file the descriptor
\* is open on, by now perhaps meta.json itself, over what another writer left
\* there; the tail of a longer text stays behind it.
Flush(w) ==
    LET s == workers[w].sid
        at == workers[w].fd
        rec == workers[w].meta
        over(c) == IF c = EMPTY THEN {rec} ELSE {rec, GARBLED}
    IN  /\ workers[w].pc = "flush"
        /\ CASE at = "tmp" -> \E x \in over(disk[s].tmp) :
                                 disk' = [disk EXCEPT ![s].tmp = x]
             [] at = "meta" -> \E x \in over(disk[s].meta) :
                                 disk' = [disk EXCEPT ![s].meta = x]
             [] OTHER -> UNCHANGED disk
        /\ workers' = [workers EXCEPT ![w].fd = "none", ![w].pc = "replace"]
        /\ UNCHANGED <<tabs, faults>>

\* os.replace(tmp_path, meta_path), after which the route answers.
ReplaceMeta(w) ==
    LET s == workers[w].sid IN
    /\ workers[w].pc = "replace"
    /\ IF disk[s].tmp = ABSENT
       THEN /\ workers' = Answer(w, "error", 0)
            /\ UNCHANGED disk
       ELSE /\ disk' = [disk EXCEPT ![s].meta = disk[s].tmp,
                                    ![s].tmp = ABSENT]
            /\ workers' =
                  Redirected(Answer(w, "ok", workers[w].meta.received), s,
                             [tmp |-> "meta", meta |-> "gone"])
    /\ UNCHANGED <<tabs, faults>>

(***************************************************************************)
(* cleanup_session(target): the files go one by one, then the directory if *)
(* it is empty.  A worker reading data.bin keeps what it had open.         *)
(***************************************************************************)
RemoveData(w) ==
    LET s == workers[w].target
        ws == [v \in Workers |->
                 IF workers[v].sid = s /\ workers[v].fd = "data"
                 THEN [workers[v] EXCEPT !.fd = "gone", !.held = disk[s].data]
                 ELSE workers[v]]
    IN  /\ workers[w].pc = "rm_data"
        /\ disk' = [disk EXCEPT ![s].data = ABSENT]
        /\ workers' = [ws EXCEPT ![w].pc = "rm_meta"]
        /\ UNCHANGED <<tabs, faults>>

RemoveMeta(w) ==
    LET s == workers[w].target IN
    /\ workers[w].pc = "rm_meta"
    /\ disk' = [disk EXCEPT ![s].meta = ABSENT]
    /\ workers' = [Redirected(workers, s, [meta |-> "gone"])
                     EXCEPT ![w].pc = "rm_tmp"]
    /\ UNCHANGED <<tabs, faults>>

RemoveTmp(w) ==
    LET s == workers[w].target IN
    /\ workers[w].pc = "rm_tmp"
    /\ disk' = [disk EXCEPT ![s].tmp = ABSENT]
    /\ workers' = [Redirected(workers, s, [tmp |-> "gone"])
                     EXCEPT ![w].pc = "rm_dir"]
    /\ UNCHANGED <<tabs, faults>>

RemoveDir(w) ==
    LET s == workers[w].target
        empty == disk[s].data = ABSENT /\ disk[s].meta = ABSENT
                 /\ disk[s].tmp = ABSENT
    IN  /\ workers[w].pc = "rm_dir"
        /\ disk' = [disk EXCEPT ![s].dir = @ /\ ~empty]
        /\ workers' = [workers EXCEPT
              ![w].target = NONE,
              ![w].pc = IF workers[w].op = "init" THEN "sweep" ELSE "save"]
        /\ UNCHANGED <<tabs, faults>>

-----------------------------------------------------------------------------
(* /upload/init: init_session, which sweeps before anything else.          *)

ListSessions(w) ==
    /\ workers[w].pc = "list"
    /\ workers' = [workers EXCEPT ![w].sweep = {s \in Sids : disk[s].dir},
                                  ![w].pc = "sweep"]
    /\ UNCHANGED <<disk, tabs, faults>>

\* One entry of the listing: json.load raises on a torn file, an abandoned or
\* half-made session is cleaned up, a live one is left alone.
SweepOne(w) ==
    /\ workers[w].pc = "sweep"
    /\ \E e \in workers[w].sweep :
          LET m == disk[e].meta IN
          workers' =
              IF m \in Torn THEN Answer(w, "bad_meta", 0)
              ELSE IF m = ABSENT \/ m.old
                   THEN [workers EXCEPT ![w].sweep = @ \ {e},
                                        ![w].target = e, ![w].pc = "rm_data"]
                   ELSE [workers EXCEPT ![w].sweep = @ \ {e}]
    /\ UNCHANGED <<disk, tabs, faults>>

\* The rest of init_session reads the session's own meta.json: a session of the
\* same file and chunk size is resumed.
ReadMeta(w) ==
    LET r == workers[w]
        m == disk[r.sid].meta
    IN  /\ r.pc = "sweep" /\ r.sweep = {}
        /\ workers' =
              IF m \in Torn THEN Answer(w, "bad_meta", 0)
              ELSE IF m # ABSENT /\ m.shape = r.shape
                   THEN [workers EXCEPT ![w].meta = [m EXCEPT !.old = FALSE],
                                        ![w].pc = "open_tmp"]
                   ELSE Goto(w, "mkdir")
        /\ UNCHANGED <<disk, tabs, faults>>

MakeDir(w) ==
    /\ workers[w].pc = "mkdir"
    /\ disk' = [disk EXCEPT ![workers[w].sid].dir = TRUE]
    /\ workers' = Goto(w, "truncate")
    /\ UNCHANGED <<tabs, faults>>

\* open(data_path, "wb") empties data.bin before meta.json says so.
TruncateData(w) ==
    LET r == workers[w] IN
    /\ r.pc = "truncate"
    /\ IF disk[r.sid].dir
       THEN /\ disk' = [disk EXCEPT ![r.sid].data = {}]
            /\ workers' = [workers EXCEPT
                  ![w].meta = [shape |-> r.shape, received |-> 0,
                               old |-> FALSE],
                  ![w].pc = "open_tmp"]
       ELSE /\ workers' = Answer(w, "error", 0)
            /\ UNCHANGED disk
    /\ UNCHANGED <<tabs, faults>>

-----------------------------------------------------------------------------
(* /upload/chunk: write_chunk, on the event loop.                          *)

\* No other chunk request is between its first and its last file operation.
EventLoopFree ==
    \A v \in Workers :
        workers[v].op = "chunk" => workers[v].pc \in {"start", "reply"}

\* Slip: a chunk ahead of the next expected one is accepted.
CheckChunkAnyIndex(w) ==
    LET r == workers[w]
        m == disk[r.sid].meta
    IN  /\ r.op = "chunk" /\ r.pc = "start"
        /\ EventLoopFree
        /\ workers' =
              IF m = ABSENT THEN Answer(w, "conflict", 0)
              ELSE IF m \in Torn THEN Answer(w, "bad_meta", 0)
              ELSE IF r.idx < m.received THEN Answer(w, "ok", m.received)
              ELSE [workers EXCEPT ![w].meta = m, ![w].pc = "pwrite"]
        /\ UNCHANGED <<disk, tabs, faults>>

CheckChunk(w) ==
    LET r == workers[w]
        m == disk[r.sid].meta
    IN  /\ r.op = "chunk" /\ r.pc = "start"
        /\ EventLoopFree
        /\ workers' =
              IF m = ABSENT THEN Answer(w, "conflict", 0)
              ELSE IF m \in Torn THEN Answer(w, "bad_meta", 0)
              ELSE IF r.idx < m.received THEN Answer(w, "ok", m.received)
              ELSE IF r.idx > m.received THEN Answer(w, "conflict", 0)
              ELSE [workers EXCEPT ![w].meta = m, ![w].pc = "pwrite"]
        /\ UNCHANGED <<disk, tabs, faults>>

\* os.open and os.pwrite: the chunk the tab cut lands where the session's chunk
\* size puts it, all of it.  One step: if data.bin is
\* removed between the two the chunk lands in a file that is gone, as if it had
\* been removed afterwards.
WriteData(w) ==
    LET r == workers[w]
        d == disk[r.sid].data
    IN  /\ r.pc = "pwrite"
        /\ IF d = ABSENT
           THEN /\ workers' = Answer(w, "error", 0)
                /\ UNCHANGED disk
           ELSE /\ disk' = [disk EXCEPT ![r.sid].data = @ \cup
                                {<<r.shape, r.idx>>}]
                /\ workers' = [workers EXCEPT
                      ![w].meta = [r.meta EXCEPT !.received = @ + 1,
                                                 !.old = FALSE],
                      ![w].pc = "open_tmp"]
        /\ UNCHANGED <<tabs, faults>>

-----------------------------------------------------------------------------
(* /upload/complete.                                                       *)

\* Slip: the number of received chunks is not checked.
FinalizeUnchecked(w) ==
    LET r == workers[w]
        m == disk[r.sid].meta
    IN  /\ r.op = "complete" /\ r.pc = "start"
        /\ workers' =
              IF m = ABSENT THEN Answer(w, "conflict", 0)
              ELSE IF m \in Torn THEN Answer(w, "bad_meta", 0)
              ELSE [workers EXCEPT ![w].meta = m, ![w].pc = "open_data"]
        /\ UNCHANGED <<disk, tabs, faults>>

\* finalize_session: every chunk must have arrived.
Finalize(w) ==
    LET r == workers[w]
        m == disk[r.sid].meta
    IN  /\ r.op = "complete" /\ r.pc = "start"
        /\ workers' =
              IF m = ABSENT THEN Answer(w, "conflict", 0)
              ELSE IF m \in Torn THEN Answer(w, "bad_meta", 0)
              ELSE IF m.received # TotalChunks[m.shape]
                   THEN Answer(w, "conflict", 0)
              ELSE [workers EXCEPT ![w].meta = m, ![w].pc = "open_data"]
        /\ UNCHANGED <<disk, tabs, faults>>

OpenData(w) ==
    LET r == workers[w] IN
    /\ r.pc = "open_data"
    /\ workers' = IF disk[r.sid].data = ABSENT THEN Answer(w, "error", 0)
                  ELSE [workers EXCEPT ![w].fd = "data", ![w].pc = "drive"]
    /\ UNCHANGED <<disk, tabs, faults>>

\* upload_many read all of the file and every chunk is on a drive.
UploadToDrive(w) ==
    LET r == workers[w] IN
    /\ r.pc = "drive"
    /\ workers' = [workers EXCEPT
          ![w].held = IF r.fd = "data" THEN disk[r.sid].data ELSE @,
          ![w].fd = "none", ![w].target = r.sid, ![w].pc = "rm_data"]
    /\ UNCHANGED <<disk, tabs, faults>>

\* record_file and save_vault, after the session is gone.  What becomes of the
\* vault, loaded before finalize_session and saved whole here, is VaultStore's.
SaveVault(w) ==
    /\ workers[w].pc = "save"
    /\ workers' = Answer(w, "ok", 0)
    /\ UNCHANGED <<disk, tabs, faults>>

\* A call to Google fails for good: the vault is not loaded, there is no room
\* (400) or a drive fails (502), with the session left in place, or the vault
\* is not saved, with the session gone.
GoogleFails(w) ==
    /\ workers[w].op = "complete"
    /\ workers[w].pc \in {"start", "drive", "save"}
    /\ faults < MaxFaults
    /\ faults' = faults + 1
    /\ workers' = Answer(w, "error", 0)
    /\ UNCHANGED <<disk, tabs>>

-----------------------------------------------------------------------------
(* The world around.                                                       *)

Cleaning(w) == workers[w].pc \in {"rm_data", "rm_meta", "rm_tmp", "rm_dir"}

\* The server process dies and comes back: every request is lost, what was
\* written to the container's disk stays.
Crash ==
    /\ Crashes
    /\ faults < MaxFaults
    /\ \E w \in Workers : workers[w].op # "idle"
    /\ faults' = faults + 1
    /\ workers' = [w \in Workers |-> Idle]
    /\ tabs' = [t \in Tabs |-> IF tabs[t].waiting
                               THEN AfterError(tabs[t])
                               ELSE tabs[t]]
    /\ UNCHANGED disk

\* STALE_AFTER_SECONDS pass with nothing going on.
TwoDaysPass ==
    /\ faults < MaxFaults
    /\ \A w \in Workers : workers[w].op = "idle"
    /\ \E s \in Sids : disk[s].meta \in Meta /\ ~disk[s].meta.old
    /\ faults' = faults + 1
    /\ disk' = [s \in Sids |-> IF disk[s].meta \in Meta
                               THEN [disk[s] EXCEPT !.meta.old = TRUE]
                               ELSE disk[s]]
    /\ UNCHANGED <<workers, tabs>>

ServerStep(w) ==
    \/ OpenTmp(w) \/ Flush(w) \/ ReplaceMeta(w)
    \/ RemoveData(w) \/ RemoveMeta(w) \/ RemoveTmp(w) \/ RemoveDir(w)
    \/ ListSessions(w) \/ SweepOne(w) \/ ReadMeta(w) \/ MakeDir(w)
    \/ TruncateData(w)
    \/ CheckChunk(w) \/ WriteData(w)
    \/ Finalize(w) \/ OpenData(w) \/ UploadToDrive(w) \/ SaveVault(w)
    \/ Reply(w)

Fault ==
    \/ \E t \in Tabs : ConnectionLost(t)
    \/ \E w \in Workers : GoogleFails(w)
    \/ Crash
    \/ TwoDaysPass

Next ==
    \/ \E t \in Tabs : Drop(t) \/ Resume(t)
    \/ \E t \in Tabs, w \in Workers : Send(t, w)
    \/ \E w \in Workers : ServerStep(w)
    \/ Fault

Spec == Init /\ [][Next]_vars

(***************************************************************************)
(* The server runs what it has accepted, a tab sends what it has to send   *)
(* and the user clicks Resume whenever an upload is paused.  Faults are    *)
(* bounded by MaxFaults, new uploads by MaxDrops; neither has to happen.   *)
(***************************************************************************)
Fairness ==
    /\ \A w \in Workers : WF_vars(ServerStep(w))
    /\ \A t \in Tabs : SF_vars(\E w \in Workers : Send(t, w))
    /\ \A t \in Tabs : WF_vars(Resume(t))

FairSpec == Spec /\ Fairness

-----------------------------------------------------------------------------
\* The directories hold what the code writes into them, the tabs and workers
\* are where their programs can be.
TypeOK ==
    /\ \A s \in Sids :
          /\ disk[s].dir \in BOOLEAN
          /\ disk[s].data = ABSENT \/ disk[s].data \subseteq AllChunks
          /\ disk[s].meta \in Text /\ disk[s].tmp \in Text
          /\ ~disk[s].dir => disk[s] = NoSession
    /\ \A w \in Workers :
          /\ workers[w].op \in {"idle", "init", "chunk", "complete"}
          /\ workers[w].fd \in {"none", "tmp", "meta", "data", "gone"}
          /\ workers[w].held = ABSENT \/ workers[w].held \subseteq AllChunks
          /\ workers[w].sweep \subseteq Sids
          /\ workers[w].target \in Sids \cup {NONE}
    /\ \A t \in Tabs :
          /\ tabs[t].pc \in {"idle", "init", "chunk", "complete", "paused",
                              "done"}
          /\ tabs[t].batch \in Batches \cup {<<>>}
          /\ tabs[t].start \in 1..(Len(tabs[t].batch) + 1)
          /\ tabs[t].attempt \in 0..MaxRetries
          /\ tabs[t].drops \in 0..MaxDrops
    /\ faults \in 0..MaxFaults

\* received_chunks never runs ahead of data.bin: wherever a crash or a lost
\* request interrupts a route, the chunks meta.json counts are in the file, cut
\* with the chunk size it records.  Resuming skips exactly these chunks.  (An
\* init that starts a session over empties the file first.)
ReceivedIsWritten ==
    \A s \in Sids :
        /\ disk[s].meta \in Meta /\ disk[s].data # ABSENT
        /\ \A w \in Workers : workers[w].op = "init" => workers[w].sid # s
        =>
            {<<disk[s].meta.shape, k>> : k \in 0..(disk[s].meta.received - 1)}
                \subseteq disk[s].data

\* What is uploaded to the drives, and recorded in the vault as the file, is
\* the whole file: never a prefix, never chunks of another upload.
HandedOffWhole ==
    \A w \in Workers :
        workers[w].op = "complete" /\ (Cleaning(w) \/ workers[w].pc = "save") =>
            workers[w].held = Chunks(workers[w].meta.shape)

\* meta.json is never seen empty or half written, not even by a request that
\* runs while it is replaced or after a crash in the middle of _write_meta.
MetaIntact == \A s \in Sids : disk[s].meta \notin Torn

\* A crash inside of cleanup_session has left meta.json without data.bin.
Gutted == \E s \in Sids : disk[s].meta \in Meta /\ disk[s].data = ABSENT

\* A batch whose user keeps clicking Resume is done in the end, after any number
\* of lost requests, crashes and failures of Google, and whatever the chunk and
\* complete requests of several tabs do to each other, unless a session stays
\* gutted: complete then fails each time, until the session is swept two days
\* later.  (With InitAlone; and a page runs one uploadFiles at a time, see Drop.)
UploadFinishes ==
    \A t \in Tabs :
        \/ tabs[t].pc \in {"init", "chunk", "complete", "paused"} ~>
              tabs[t].pc = "done"
        \/ <>[]Gutted

-----------------------------------------------------------------------------
(* What the documentation says and the code does not keep.                 *)

\* dashboard.html:408: "Nothing lost so far; click Resume to continue", whatever
\* the paused upload's own request is still doing on the server.  (A meta.json
\* that two inits have garbled is a case of its own.)
NothingLost ==
    \A t \in Tabs :
        \/ tabs[t].pc = "paused" ~> tabs[t].pc = "done"
        \/ <>[]~MetaIntact
=============================================================================
