------------------------------ MODULE Transfer ------------------------------
(***************************************************************************)
(* The bytes of one file on their way to the drives and back: the tasks of *)
(* upload_many and download_with_chunks in a thread pool (distributor.py,  *)
(* workers.py), the reader and the writer of file descriptors and the      *)
(* resumable loop (drive_client.py), and the progress that the tasks       *)
(* report and the browser polls (upload_sessions.py, /upload/status).      *)
(*                                                                         *)
(* Two /upload/complete requests may work on one session at a time: the    *)
(* browser gave up on the first and Resume sent the second.  Each has its  *)
(* own pool, lock and total; they share progress.json and its temporary    *)
(* file.  A byte is the position it has in the file.                       *)
(*                                                                         *)
(* Of googleapiclient this takes: next_chunk sends the chunk that begins   *)
(* at resumable_progress, tries again by itself, and moves on to where     *)
(* Google says it has got; MediaIoBaseDownload writes what it gets in      *)
(* order.                                                                  *)
(***************************************************************************)
EXTENDS Integers, Sequences, FiniteSets, Functions

CONSTANTS
    Requests,
    PlansOf,    \* PlansOf[n]: plans plan_chunks may return for n bytes
    ChunkSize,  \* TRANSFER_CHUNK_SIZE, which is SIMPLE_UPLOAD_THRESHOLD too
    MaxWorkers, \* MAX_WORKERS
    MaxFaults,  \* bound: calls to Google that fail for good
    ABSENT, EMPTY, GARBLED

Part == [offset : Nat, size : Nat]

\* PlanChunks!PlanCoversFile
Covers(plan, n) ==
    /\ \A i \in 1..Len(plan) :
          plan[i].offset = IF i = 1 THEN 0
                           ELSE plan[i-1].offset + plan[i-1].size
    /\ plan # <<>> /\ plan[Len(plan)].offset + plan[Len(plan)].size = n

ASSUME PlansAssumption ==
    /\ DOMAIN PlansOf \subseteq Nat
    /\ \A n \in DOMAIN PlansOf : \A plan \in PlansOf[n] :
          plan \in Seq(Part) /\ Covers(plan, n)
ASSUME BoundsAssumption ==
    ChunkSize \in Nat \ {0} /\ MaxWorkers \in Nat \ {0} /\ MaxFaults \in Nat
ASSUME RequestsAssumption == IsFiniteSet(Requests) /\ Requests # {}
ASSUME NothingAssumption ==
    {ABSENT, EMPTY, GARBLED} \cap Nat = {} /\ ABSENT \notin {EMPTY, GARBLED}

VARIABLES
    size,   \* of the file
    dir,    \* the session directory: is it there, progress.json, its .tmp, and
            \* whether data.bin and meta.json are there
    req,    \* what each request's own thread does
    task,   \* task[r]: the tasks of r's pool, in the order of submission
    listed, \* the chunk records in the vault, with the objects they name
    faults

vars == <<size, dir, req, task, listed, faults>>

NoRequest == [op |-> "idle", pc |-> "idle", lock |-> 0, total |-> 0,
              fd |-> "none", file |-> <<>>]

NewTask(part) == [pc |-> "queued", offset |-> part.offset, size |-> part.size,
                  pos |-> 0, object |-> <<>>, reported |-> 0, sum |-> 0,
                  fd |-> "none"]

Init ==
    /\ size \in DOMAIN PlansOf
    /\ dir = [there |-> TRUE, upload |-> TRUE, progress |-> ABSENT,
              tmp |-> ABSENT]
    /\ req = [r \in Requests |-> NoRequest]
    /\ task = [r \in Requests |-> <<>>]
    /\ listed = <<>>
    /\ faults = 0

Ended == {"done", "failed", "cancelled"}
Running == {"send", "report", "open", "flush", "replace"}

\* Bytes of the file that attempt r has put on drives.
Stored(r) == FoldFunction(+, 0, [i \in DOMAIN task[r] |-> task[r][i].pos])

-----------------------------------------------------------------------------
(* The requests.                                                           *)

\* upload_complete has the descriptor of data.bin and the plan.
StartUpload(r) ==
    /\ req[r].op = "idle"
    /\ dir.upload
    /\ \E plan \in PlansOf[size] :
          task' = [task EXCEPT ![r] = [i \in 1..Len(plan) |-> NewTask(plan[i])]]
    /\ req' = [req EXCEPT ![r] = [NoRequest EXCEPT
                                    !.op = "upload", !.pc = "tasks",
                                    !.fd = "open"]]
    /\ UNCHANGED <<size, dir, listed, faults>>

\* download: a fresh temporary file, and a task for each chunk record.
StartDownload(r) ==
    /\ req[r].op = "idle"
    /\ listed # <<>>
    /\ task' = [task EXCEPT ![r] = listed]
    /\ req' = [req EXCEPT ![r] = [NoRequest EXCEPT
                                    !.op = "download", !.pc = "tasks",
                                    !.fd = "open",
                                    !.file = [p \in 0..(size-1) |-> ABSENT]]]
    /\ UNCHANGED <<size, dir, listed, faults>>

\* A thread of the pool takes the next task.
Take(r, i) ==
    /\ task[r][i].pc = "queued"
    /\ \A j \in 1..(i-1) : task[r][j].pc # "queued"
    /\ Cardinality({j \in DOMAIN task[r] : task[r][j].pc \in Running})
          < MaxWorkers
    /\ task' = [task EXCEPT ![r][i].pc = "send"]
    /\ UNCHANGED <<size, dir, req, listed, faults>>

\* parallel_map meets the first exception: list(pool.map()) raises, tasks that
\* have not begun are cancelled.
CancelRest(r) ==
    /\ req[r].pc = "tasks"
    /\ \E i \in DOMAIN task[r] :
          /\ task[r][i].pc = "failed"
          /\ \A j \in 1..(i-1) : task[r][j].pc \in Ended
    /\ \E i \in DOMAIN task[r] : task[r][i].pc = "queued"
    /\ task' = [task EXCEPT ![r] =
           [i \in DOMAIN @ |-> IF @[i].pc = "queued"
                               THEN [@[i] EXCEPT !.pc = "cancelled"] ELSE @[i]]]
    /\ UNCHANGED <<size, dir, req, listed, faults>>

Succeeded(r) == \A i \in DOMAIN task[r] : task[r][i].pc = "done"

\* Leaving the pool waits for its threads.
PoolDone(r) == \A i \in DOMAIN task[r] : task[r][i].pc \in Ended

\* The descriptor is closed, come what may; a failed upload leaves the session.
Close(r) ==
    /\ req[r].pc = "tasks"
    /\ PoolDone(r)
    /\ req' = [req EXCEPT ![r].fd = "closed",
                          ![r].pc = IF ~Succeeded(r) THEN "error"
                                    ELSE IF req[r].op = "download" THEN "ok"
                                    ELSE "rm_upload"]
    /\ UNCHANGED <<size, dir, task, listed, faults>>

-----------------------------------------------------------------------------
(* A task of an upload: DriveClient.upload_from_fd.                        *)

Min2(a, b) == IF a <= b THEN a ELSE b

\* Slip: the reader goes on after what it read last, whatever was accepted.
ReaderPosNoSeek(t) == Min2(t.size, ChunkSize * ((t.pos + ChunkSize - 1) \div ChunkSize))

\* _FdRangeReader after seek(resumable_progress).
ReaderPos(t) == t.pos

\* _FdRangeReader.read of one chunk: at most what is left of the part.
Read(t) ==
    LET from == t.offset + ReaderPos(t)
        n == Min2(ChunkSize, t.size - ReaderPos(t))
    IN  [k \in 1..n |-> from + k - 1]

\* One next_chunk: Google keeps some of the bytes it is sent, at least one.
SendChunk(r, i) ==
    LET t == task[r][i]
        data == Read(t)
    IN  /\ req[r].op = "upload" /\ t.pc = "send"
        /\ t.size > ChunkSize
        /\ \E m \in 1..Len(data) :
              task' = [task EXCEPT ![r][i].object = @ \o SubSeq(data, 1, m),
                                   ![r][i].pos = @ + m,
                                   ![r][i].pc = "report"]
        /\ UNCHANGED <<size, dir, req, listed, faults>>

\* A part no larger than SIMPLE_UPLOAD_THRESHOLD: one pread, one POST.
SendWhole(r, i) ==
    LET t == task[r][i] IN
    /\ req[r].op = "upload" /\ t.pc = "send"
    /\ t.size <= ChunkSize
    /\ task' = [task EXCEPT ![r][i].object = Read(t), ![r][i].pos = t.size,
                            ![r][i].pc = "report"]
    /\ UNCHANGED <<size, dir, req, listed, faults>>

\* A call fails after its retries: the task raises.
TaskFails(r, i) ==
    /\ task[r][i].pc = "send"
    /\ faults < MaxFaults
    /\ faults' = faults + 1
    /\ task' = [task EXCEPT ![r][i].pc = "failed"]
    /\ UNCHANGED <<size, dir, req, listed>>

-----------------------------------------------------------------------------
(* task_progress_cb and write_finalize_progress, under progress_lock.      *)

\* Slip: the cumulative count is added each time.
DeltaCumulative(t) == t.pos

Delta(t) == t.pos - t.reported

\* Slip: no lock.
NoLock(r) == TRUE

LockFree(r) == req[r].lock = 0

\* The lock is taken and the total read.
Lock(r, i) ==
    LET t == task[r][i] IN
    /\ t.pc = "report"
    /\ LockFree(r)
    /\ req' = [req EXCEPT ![r].lock = i]
    /\ task' = [task EXCEPT ![r][i].sum = req[r].total + Delta(t),
                            ![r][i].reported = t.pos, ![r][i].pc = "open"]
    /\ UNCHANGED <<size, dir, listed, faults>>

AfterReport(t) == IF t.pos = t.size THEN "done" ELSE "send"

\* Slip: the lock is given back by hand, after the callback: not if it fails.
OpenKeepsLock(r, i) ==
    LET t == task[r][i] IN
    /\ t.pc = "open"
    /\ IF dir.there
       THEN /\ dir' = [dir EXCEPT !.tmp = EMPTY]
            /\ task' = [task EXCEPT ![r][i].fd = "tmp", ![r][i].pc = "flush"]
            /\ req' = [req EXCEPT ![r].total = t.sum]
       ELSE /\ task' = [task EXCEPT ![r][i].pc = AfterReport(t)]
            /\ req' = [req EXCEPT ![r].total = t.sum]
            /\ UNCHANGED dir
    /\ UNCHANGED <<size, listed, faults>>

\* Slip: the callback is called after the lock has been released.
OpenUnlocked(r, i) ==
    LET t == task[r][i] IN
    /\ t.pc = "open"
    /\ IF dir.there
       THEN /\ dir' = [dir EXCEPT !.tmp = EMPTY]
            /\ task' = [task EXCEPT ![r][i].fd = "tmp", ![r][i].pc = "flush"]
       ELSE /\ task' = [task EXCEPT ![r][i].pc = AfterReport(t)]
            /\ UNCHANGED dir
    /\ req' = [req EXCEPT ![r].total = t.sum, ![r].lock = 0]
    /\ UNCHANGED <<size, listed, faults>>

\* The total is written back; open(tmp_path, "w") creates or truncates the one
\* temporary file, or finds the directory gone, which is caught.
Open(r, i) ==
    LET t == task[r][i] IN
    /\ t.pc = "open"
    /\ IF dir.there
       THEN /\ dir' = [dir EXCEPT !.tmp = EMPTY]
            /\ task' = [task EXCEPT ![r][i].fd = "tmp", ![r][i].pc = "flush"]
            /\ req' = [req EXCEPT ![r].total = t.sum]
       ELSE /\ task' = [task EXCEPT ![r][i].pc = AfterReport(t)]
            /\ req' = [req EXCEPT ![r].total = t.sum, ![r].lock = 0]
            /\ UNCHANGED dir
    /\ UNCHANGED <<size, listed, faults>>

\* The text lands in the file the descriptor is open on: by now perhaps
\* progress.json itself, or a file that has been removed.
Flush(r, i) ==
    LET t == task[r][i]
        over(c) == IF c = EMPTY THEN {t.sum} ELSE {t.sum, GARBLED}
    IN  /\ t.pc = "flush"
        /\ CASE t.fd = "tmp" -> \E x \in over(dir.tmp) :
                                   dir' = [dir EXCEPT !.tmp = x]
             [] t.fd = "progress" -> \E x \in over(dir.progress) :
                                   dir' = [dir EXCEPT !.progress = x]
             [] OTHER -> UNCHANGED dir
        /\ task' = [task EXCEPT ![r][i].fd = "none", ![r][i].pc = "replace"]
        /\ UNCHANGED <<size, req, listed, faults>>

\* Descriptors follow their file when it is renamed or removed.
Redirected(tasks, moved) ==
    [r \in Requests |-> [i \in DOMAIN tasks[r] |->
        IF tasks[r][i].fd \in DOMAIN moved
        THEN [tasks[r][i] EXCEPT !.fd = moved[@]] ELSE tasks[r][i]]]

\* os.replace; the temporary file may be gone, which is caught.
Replace(r, i) ==
    LET t == task[r][i]
        next == [task EXCEPT ![r][i].pc = AfterReport(t)]
    IN  /\ t.pc = "replace"
        /\ IF dir.tmp = ABSENT
           THEN task' = next /\ UNCHANGED dir
           ELSE /\ dir' = [dir EXCEPT !.progress = dir.tmp, !.tmp = ABSENT]
                /\ task' = Redirected(next, [tmp |-> "progress",
                                             progress |-> "gone"])
        /\ req' = [req EXCEPT ![r].lock = 0]
        /\ UNCHANGED <<size, listed, faults>>

\* What /upload/status answers: a text that is not there, or is not JSON, is 0.
Shown(text) == IF text \in {ABSENT, EMPTY, GARBLED} THEN 0 ELSE text

-----------------------------------------------------------------------------
(* cleanup_session, and the chunk records go to the vault.                 *)

\* data.bin, meta.json and meta.json.tmp.
RemoveUpload(r) ==
    /\ req[r].pc = "rm_upload"
    /\ dir' = [dir EXCEPT !.upload = FALSE]
    /\ req' = [req EXCEPT ![r].pc = "rm_progress"]
    /\ UNCHANGED <<size, task, listed, faults>>

\* Slip: cleanup_session does not know of progress.json.
RemoveProgressNot(r) ==
    /\ req[r].pc = "rm_progress"
    /\ req' = [req EXCEPT ![r].pc = "rm_tmp"]
    /\ UNCHANGED <<size, dir, task, listed, faults>>

RemoveProgress(r) ==
    /\ req[r].pc = "rm_progress"
    /\ dir' = [dir EXCEPT !.progress = ABSENT]
    /\ task' = Redirected(task, [progress |-> "gone"])
    /\ req' = [req EXCEPT ![r].pc = "rm_tmp"]
    /\ UNCHANGED <<size, listed, faults>>

RemoveTmp(r) ==
    /\ req[r].pc = "rm_tmp"
    /\ dir' = [dir EXCEPT !.tmp = ABSENT]
    /\ task' = Redirected(task, [tmp |-> "gone"])
    /\ req' = [req EXCEPT ![r].pc = "rm_dir"]
    /\ UNCHANGED <<size, listed, faults>>

\* rmdir works on an empty directory; record_file replaces the entry.
RemoveDir(r) ==
    /\ req[r].pc = "rm_dir"
    /\ dir' = [dir EXCEPT !.there = dir.upload \/ dir.progress # ABSENT
                                              \/ dir.tmp # ABSENT]
    /\ listed' = [i \in DOMAIN task[r] |->
                     [NewTask(task[r][i]) EXCEPT !.object = task[r][i].object]]
    /\ req' = [req EXCEPT ![r].pc = "ok"]
    /\ UNCHANGED <<size, task, faults>>

-----------------------------------------------------------------------------
(* A task of a download: DriveClient.download_to_fd.                       *)

\* Slip: every writer begins at the start of the file.
WriterPosNoBase(t) == t.pos

\* _FdOffsetWriter.write: base offset and what was written before.
WriterPos(t) == t.offset + t.pos

\* One next_chunk: some of the bytes that are left, or all, and a pwrite.
Fetch(r, i) ==
    LET t == task[r][i]
        left == Len(t.object) - t.pos
    IN  /\ req[r].op = "download" /\ t.pc = "send"
        /\ \E m \in (IF left = 0 THEN {0} ELSE 1..Min2(ChunkSize, left)) :
              /\ req' = [req EXCEPT ![r].file = [p \in DOMAIN @ |->
                     IF p \in WriterPos(t)..(WriterPos(t) + m - 1)
                     THEN t.object[t.pos + 1 + p - WriterPos(t)] ELSE @[p]]]
              /\ task' = [task EXCEPT ![r][i].pos = @ + m,
                             ![r][i].pc = IF m = left THEN "done" ELSE "send"]
        /\ UNCHANGED <<size, dir, listed, faults>>

-----------------------------------------------------------------------------
TaskStep(r, i) ==
    \/ Take(r, i) \/ SendChunk(r, i) \/ SendWhole(r, i) \/ Fetch(r, i)
    \/ Lock(r, i) \/ Open(r, i) \/ Flush(r, i) \/ Replace(r, i)

RequestStep(r) ==
    \/ CancelRest(r) \/ Close(r)
    \/ RemoveUpload(r) \/ RemoveProgress(r) \/ RemoveTmp(r) \/ RemoveDir(r)

Next ==
    \E r \in Requests :
        \/ StartUpload(r) \/ StartDownload(r) \/ RequestStep(r)
        \/ \E i \in DOMAIN task[r] : TaskStep(r, i) \/ TaskFails(r, i)

Spec == Init /\ [][Next]_vars

\* Threads that can run do run; a lock goes to whoever keeps asking for it.
FairSpec ==
    /\ Spec
    /\ \A r \in Requests :
          /\ WF_vars(RequestStep(r))
          /\ WF_vars(\E i \in DOMAIN task[r] : TaskStep(r, i))

-----------------------------------------------------------------------------
Text == Nat \cup {ABSENT, EMPTY, GARBLED}

TypeOK ==
    /\ size \in DOMAIN PlansOf /\ faults \in 0..MaxFaults
    /\ dir.there \in BOOLEAN /\ dir.upload \in BOOLEAN
    /\ dir.progress \in Text /\ dir.tmp \in Text
    /\ \A r \in Requests :
          /\ req[r].op \in {"idle", "upload", "download"}
          /\ req[r].lock \in 0..Len(task[r])
          /\ req[r].total \in 0..size
          /\ \A i \in DOMAIN task[r] :
                /\ task[r][i].pc \in {"queued"} \cup Running \cup Ended
                /\ task[r][i].pos \in 0..task[r][i].size
                /\ task[r][i].fd \in {"none", "tmp", "progress", "gone"}

\* An object holds exactly the bytes of the file that its chunk record says,
\* however the part was cut for sending and however much of each request Google
\* kept.
PartsIntact ==
    \A n \in DOMAIN listed :
        LET t == listed[n]
        IN  t.object = [k \in 1..t.size |-> t.offset + k - 1]

\* A download that is answered is the file that was uploaded, byte by byte,
\* whichever tasks finished first.
DownloadWhole ==
    \A r \in Requests :
        req[r].op = "download" /\ req[r].pc = "ok" =>
            req[r].file = [p \in 0..(size-1) |-> p]

\* The parts' reports add up: nothing is lost when threads report at once, and
\* nothing is counted twice.
ProgressAddsUp ==
    \A r \in Requests :
        req[r].op = "upload" /\ req[r].pc # "tasks" /\ Succeeded(r) =>
            req[r].total = size

\* The percentage the browser shows has been reached by an attempt.
StatusIsTrue ==
    \E r \in Requests : Shown(dir.progress) <= Stored(r)

\* As long as one request works on the session alone, what the browser is shown
\* never goes back, until the upload is done and the file removed.
StatusNeverBack ==
    [][Cardinality({r \in Requests : req[r].op # "idle"}) <= 1
       /\ dir'.upload
       => Shown(dir'.progress) >= Shown(dir.progress)]_vars

\* When all is answered and no upload failed, the session has left nothing on
\* the disk, although late reports of one request recreate what another removes.
NothingLeft ==
    /\ \A r \in Requests : req[r].pc \in {"idle", "ok"}
    /\ \E r \in Requests : req[r].op = "upload"
    => ~dir.there

\* Every request is answered: no task waits for the lock for ever, and no pool
\* for a task.
Answered ==
    \A r \in Requests : req[r].pc = "tasks" ~> req[r].pc \in {"ok", "error"}
=============================================================================
