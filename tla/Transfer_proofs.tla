--------------------------- MODULE Transfer_proofs ---------------------------
(***************************************************************************)
(* Transfer, for any number of requests, threads and faults, any size of   *)
(* chunk and any plans that cover the file.                                *)
(*                                                                         *)
(* IInv ties each request to its tasks (RequestOK: which of them can run   *)
(* where the request is, and that the one that holds the lock is between   *)
(* taking it and giving it back), each task to its bytes (UploadOK and     *)
(* DownloadOK), the total to the sum of what the tasks have reported       *)
(* (TotalOK), the temporary file of a download to what its tasks have      *)
(* fetched (FileOK), and the directory to the requests that write in it    *)
(* and clean it up (DirOK).  AloneOK says more of the only request there   *)
(* has been: what the next report puts into progress.json is never less    *)
(* than what is there.                                                     *)
(*                                                                         *)
(* The parts of a plan add up to the file and leave no gap: both by        *)
(* counting up to the last part (UpTo of FiniteSums).                      *)
(***************************************************************************)
EXTENDS Transfer, FiniteSums, SequenceTheorems

\* n bytes of the file from position a on.
Bytes(a, n) == [k \in 1..n |-> a + k - 1]

Held == {"open", "flush", "replace"}

Task == [pc : {"queued"} \cup Running \cup Ended, offset : Nat, size : Nat,
         pos : Nat, object : Seq(Nat), reported : Nat, sum : Nat,
         fd : {"none", "tmp", "progress", "gone"}]

Files == {<<>>} \cup UNION {[0..(n - 1) -> Nat \cup {ABSENT}] : n \in Nat}

Request == [op : {"idle", "upload", "download"},
            pc : {"idle", "tasks", "rm_upload", "rm_progress", "rm_tmp",
                  "rm_dir", "ok", "error"},
            lock : Nat, total : Nat, fd : {"none", "open", "closed"},
            file : Files]

Directory == [there : BOOLEAN, upload : BOOLEAN, progress : Text, tmp : Text]

-----------------------------------------------------------------------------
(* The invariant.                                                          *)

\* The tasks or records ts are those of the plan.
Fits(ts, plan) ==
    /\ DOMAIN ts = 1..Len(plan)
    /\ \A i \in DOMAIN ts : ts[i].offset = plan[i].offset /\ ts[i].size = plan[i].size

Planned(ts, n) == \E plan \in PlansOf[n] : Fits(ts, plan)

\* A task of an upload has sent the bytes before pos of its part, and reported
\* them except on its way to the lock.
UploadOK(t) ==
    /\ t.object = Bytes(t.offset, t.pos)
    /\ t.pos <= t.size /\ t.reported <= t.pos
    /\ t.pc # "report" => t.reported = t.pos
    /\ t.pc = "done" => t.pos = t.size
    /\ t.size <= ChunkSize => t.pos \in {0, t.size}
    /\ t.pc \in {"queued", "send"} /\ t.size <= ChunkSize => t.pos = 0
    /\ t.fd # "none" <=> t.pc = "flush"

\* A task of a download has the whole object to fetch.
DownloadOK(t) ==
    /\ t.object = Bytes(t.offset, t.size)
    /\ t.pos <= t.size /\ t.reported = 0
    /\ t.pc \in {"queued", "send"} \cup Ended
    /\ t.pc = "done" => t.pos = t.size
    /\ t.fd = "none"

\* The request q, with the tasks ts, is where its program can be.
RequestOK(q, ts, n) ==
    /\ q \in Request /\ ts \in Seq(Task)
    /\ q.op = "idle" => q = NoRequest /\ ts = <<>>
    /\ q.op # "idle" => Planned(ts, n) /\ q.pc # "idle"
    /\ q.op = "upload" => \A i \in DOMAIN ts : UploadOK(ts[i])
    /\ q.op = "download" => /\ \A i \in DOMAIN ts : DownloadOK(ts[i])
                            /\ q.pc \in {"tasks", "ok", "error"} /\ q.total = 0
    /\ q.fd = "closed" => \A i \in DOMAIN ts : ts[i].pc \in Ended
    /\ q.pc \notin {"idle", "tasks"} => q.fd = "closed"
    /\ q.pc \notin {"idle", "tasks", "error"} =>
          \A i \in DOMAIN ts : ts[i].pc = "done"
    /\ q.lock \in 0..Len(ts)
    /\ \A i \in DOMAIN ts : ts[i].pc \in Held <=> q.lock = i

Reported(ts) == SumOver([i \in DOMAIN ts |-> ts[i].reported], DOMAIN ts)

\* Bytes that the tasks ts have put on drives, or fetched.
Sent(ts) == SumOver([i \in DOMAIN ts |-> ts[i].pos], DOMAIN ts)

\* The total is what was reported; the task that has the lock knows the next.
TotalOK(q, ts) ==
    q.op = "upload" =>
        /\ q.total <= Reported(ts)
        /\ (\A i \in DOMAIN ts : ts[i].pc # "open") => q.total = Reported(ts)
        /\ \A i \in DOMAIN ts :
              /\ ts[i].pc = "open" => ts[i].sum = Reported(ts)
              /\ ts[i].pc = "flush" => ts[i].sum = q.total

\* What a download has written is in its place.
FileOK(q, ts, n) ==
    q.op = "download" =>
        /\ q.file \in [0..(n - 1) -> Nat \cup {ABSENT}]
        /\ \A i \in DOMAIN ts : \A p \in 0..(n - 1) :
              ts[i].offset <= p /\ p < ts[i].offset + ts[i].pos => q.file[p] = p

ListedOK(recs, n) ==
    recs # <<>> =>
        /\ Planned(recs, n) /\ recs \in Seq(Task)
        /\ \A i \in DOMAIN recs :
              /\ DownloadOK(recs[i])
              /\ recs[i].pc = "queued" /\ recs[i].pos = 0

\* A number in progress.json, or on its way there, has been reached.
TextOK(x, tasks) ==
    \/ x \in {ABSENT, EMPTY, GARBLED}
    \/ x \in Nat /\ \E r \in Requests : x <= Sent(tasks[r])

\* Whoever wrote what is in the directory d has yet to clean it up.
DirOK(d, q, tasks) ==
    /\ d \in Directory
    /\ TextOK(d.progress, tasks) /\ TextOK(d.tmp, tasks)
    /\ d.upload => d.there
    /\ \A r \in Requests :
          q[r].op = "upload"
          /\ q[r].pc \in {"rm_progress", "rm_tmp", "rm_dir", "ok"} => ~d.upload
    /\ d.progress # ABSENT => \E r \in Requests :
          /\ q[r].op = "upload"
          /\ q[r].pc \in {"tasks", "rm_upload", "rm_progress", "error"}
    /\ d.tmp # ABSENT => \E r \in Requests :
          /\ q[r].op = "upload"
          /\ q[r].pc \in {"tasks", "rm_upload", "rm_progress", "rm_tmp", "error"}
    /\ d.there /\ (\E r \in Requests : q[r].op = "upload") =>
          \E r \in Requests : q[r].op = "upload" /\ q[r].pc # "ok"

\* Request r is the only one there has been.
Alone(r, q) == \A v \in Requests : q[v].op # "idle" => v = r

\* The only request, as long as the file is there, has its total or the one
\* before in progress.json, and the next in the temporary file.
AloneOK(d, q, ts) ==
    d.upload =>
        /\ d.progress \in Nat \cup {ABSENT}
        /\ d.progress \in Nat => d.progress <= q.total
        /\ (\A i \in DOMAIN ts : ts[i].pc \notin {"flush", "replace"}) =>
              d.tmp = ABSENT
        /\ \A i \in DOMAIN ts :
              /\ ts[i].pc = "flush" => ts[i].fd = "tmp" /\ d.tmp = EMPTY
              /\ ts[i].pc = "replace" => d.tmp = q.total

RequestInv(q, ts, n) ==
    RequestOK(q, ts, n) /\ TotalOK(q, ts) /\ FileOK(q, ts, n)

IInv ==
    /\ size \in DOMAIN PlansOf
    /\ faults \in 0..MaxFaults
    /\ req \in [Requests -> Request] /\ task \in [Requests -> Seq(Task)]
    /\ \A r \in Requests : RequestInv(req[r], task[r], size)
    /\ ListedOK(listed, size)
    /\ DirOK(dir, req, task)
    /\ \A r \in Requests : Alone(r, req) => AloneOK(dir, req[r], task[r])

-----------------------------------------------------------------------------
(* Bytes.                                                                  *)

LEMMA BytesType ==
    ASSUME NEW a \in Nat, NEW n \in Nat
    PROVE  /\ Bytes(a, n) \in Seq(Nat)
           /\ Len(Bytes(a, n)) = n /\ DOMAIN Bytes(a, n) = 1..n
           /\ \A k \in 1..n : Bytes(a, n)[k] = a + k - 1
<1>1. Bytes(a, n) \in [1..n -> Nat]
    BY DEF Bytes
<1>2. Bytes(a, n) \in Seq(Nat)
    BY <1>1, SeqDef
<1>3. Len(Bytes(a, n)) = n
    BY <1>1, <1>2, LenProperties
<1> QED
    BY <1>2, <1>3 DEF Bytes

LEMMA BytesCut ==
    ASSUME NEW a \in Nat, NEW n \in Nat, NEW m \in 0..n
    PROVE  SubSeq(Bytes(a, n), 1, m) = Bytes(a, m)
<1> DEFINE s == Bytes(a, n)
           u == SubSeq(s, 1, m)
<1>1. \A i \in 1..m : s[i] \in Nat /\ s[i] = Bytes(a, m)[i]
    BY DEF Bytes
<1>2. /\ u \in Seq(Nat) /\ Len(u) = (IF 1 <= m THEN m - 1 + 1 ELSE 0)
      /\ \A i \in 1..m - 1 + 1 : u[i] = s[1 + i - 1]
    <2> HIDE DEF s
    <2> QED
        BY <1>1, SubSeqProperties
<1>3. Len(u) = m /\ \A i \in 1..m : u[i] = s[i]
    <2> HIDE DEF u, s
    <2> QED
        BY <1>2
<1> HIDE DEF s, u
<1>4. \A i \in 1..Len(u) : u[i] = Bytes(a, m)[i]
    BY <1>1, <1>3
<1>5. Bytes(a, m) \in Seq(Nat) /\ Len(Bytes(a, m)) = m
    <2>1. m \in Nat
        OBVIOUS
    <2> QED
        BY <2>1, BytesType
<1>6. u = Bytes(a, m)
    BY <1>2, <1>3, <1>4, <1>5, SeqEqual
<1> QED
    BY <1>6 DEF u, s

LEMMA BytesJoin ==
    ASSUME NEW a \in Nat, NEW p \in Nat, NEW m \in Nat
    PROVE  Bytes(a, p) \o Bytes(a + p, m) = Bytes(a, p + m)
<1> DEFINE s == Bytes(a, p)
           t == Bytes(a + p, m)
           u == Bytes(a, p + m)
<1>1. /\ s \in Seq(Nat) /\ Len(s) = p /\ \A k \in 1..p : s[k] = a + k - 1
      /\ t \in Seq(Nat) /\ Len(t) = m /\ \A k \in 1..m : t[k] = a + p + k - 1
      /\ u \in Seq(Nat) /\ Len(u) = p + m
      /\ \A k \in 1..(p + m) : u[k] = a + k - 1
    <2>1. a + p \in Nat /\ p + m \in Nat
        OBVIOUS
    <2> QED
        BY <2>1, BytesType
<1> HIDE DEF s, t, u
<1>2. /\ s \o t \in Seq(Nat) /\ Len(s \o t) = p + m
      /\ \A i \in 1..(p + m) :
            (s \o t)[i] = IF i <= p THEN s[i] ELSE t[i - p]
    BY <1>1, ConcatProperties, ZenonT(60)
<1>3. \A i \in 1..(p + m) : (s \o t)[i] = u[i]
    BY <1>1, <1>2, SMTT(30)
<1>4. s \o t = u
    BY <1>1, <1>2, <1>3, SeqEqual
<1> QED
    BY <1>4 DEF s, t, u

\* What is read for a request is what comes next, and no more than the part.
LEMMA ReadIsBytes ==
    ASSUME NEW t \in Task, t.pos <= t.size
    PROVE  /\ Min2(ChunkSize, t.size - t.pos) \in 0..(t.size - t.pos)
           /\ Read(t) = Bytes(t.offset + t.pos,
                              Min2(ChunkSize, t.size - t.pos))
BY BoundsAssumption DEF Task, Read, ReaderPos, Min2, Bytes

-----------------------------------------------------------------------------
(* Sums over the tasks.                                                    *)

LEMMA TasksAre ==
    ASSUME NEW ts \in Seq(Task)
    PROVE  /\ DOMAIN ts = 1..Len(ts) /\ Len(ts) \in Nat
           /\ ts \in [1..Len(ts) -> Task]
           /\ IsFiniteSet(DOMAIN ts)
           /\ \A i \in DOMAIN ts : ts[i] \in Task
<1>1. DOMAIN ts = 1..Len(ts) /\ Len(ts) \in Nat /\ ts \in [1..Len(ts) -> Task]
    BY LenProperties
<1>2. IsFiniteSet(1..Len(ts))
    BY <1>1, FS_Interval
<1> QED
    BY <1>1, <1>2

LEMMA TaskFields ==
    ASSUME NEW t \in Task
    PROVE  /\ t.pc \in {"queued"} \cup Running \cup Ended
           /\ t.offset \in Nat /\ t.size \in Nat /\ t.pos \in Nat
           /\ t.object \in Seq(Nat) /\ t.reported \in Nat /\ t.sum \in Nat
           /\ t.fd \in {"none", "tmp", "progress", "gone"}
BY DEF Task

LEMMA SumsAreNat ==
    ASSUME NEW ts \in Seq(Task)
    PROVE  Sent(ts) \in Nat /\ Reported(ts) \in Nat
<1> DEFINE S == DOMAIN ts
           f == [i \in S |-> ts[i].pos]
           g == [i \in S |-> ts[i].reported]
<1>1. IsFiniteSet(S) /\ S \in SUBSET S
    BY TasksAre
<1>2. \A i \in S : f[i] \in Nat /\ g[i] \in Nat
    BY TasksAre, TaskFields
<1>3. SumOver(f, S) \in Nat /\ SumOver(g, S) \in Nat
    <2> HIDE DEF f, g, S
    <2> QED
        BY <1>1, <1>2, SumOfPart
<1> QED
    BY <1>3 DEF Sent, Reported

\* us has the tasks of ts, and none has fewer bytes.
Further(ts, us) ==
    /\ DOMAIN us = DOMAIN ts
    /\ \A i \in DOMAIN ts : ts[i].pos <= us[i].pos

LEMMA SentGrows ==
    ASSUME NEW ts \in Seq(Task), NEW us \in Seq(Task), Further(ts, us)
    PROVE  Sent(ts) <= Sent(us)
<1> DEFINE S == DOMAIN ts
           f == [i \in S |-> ts[i].pos]
           g == [i \in S |-> us[i].pos]
<1>1. IsFiniteSet(S)
    BY TasksAre
<1>2. \A i \in S : f[i] \in Int /\ g[i] \in Int /\ f[i] <= g[i]
    BY TasksAre, TaskFields DEF Further
<1>3. SumOver(f, S) <= SumOver(g, S)
    <2> HIDE DEF f, g, S
    <2> QED
        BY <1>1, <1>2, SumOrder
<1> QED
    BY <1>3 DEF Sent, Further

LEMMA ReportedSame ==
    ASSUME NEW ts \in Seq(Task), NEW us \in Seq(Task), DOMAIN us = DOMAIN ts,
           \A i \in DOMAIN ts : us[i].reported = ts[i].reported
    PROVE  Reported(us) = Reported(ts)
<1>1. [i \in DOMAIN us |-> us[i].reported] = [i \in DOMAIN ts |-> ts[i].reported]
    OBVIOUS
<1> QED
    BY <1>1 DEF Reported

LEMMA ReportedChanges ==
    ASSUME NEW ts \in Seq(Task), NEW us \in Seq(Task), DOMAIN us = DOMAIN ts,
           NEW j, j \in DOMAIN ts,
           \A i \in DOMAIN ts \ {j} : us[i].reported = ts[i].reported
    PROVE  Reported(us) = Reported(ts) + us[j].reported - ts[j].reported
<1> DEFINE S == DOMAIN ts
           f == [i \in S |-> ts[i].reported]
           g == [i \in S |-> us[i].reported]
<1>1. IsFiniteSet(S)
    BY TasksAre
<1>2. /\ \A i \in S : f[i] \in Int /\ g[i] \in Int
      /\ \A i \in S \ {j} : g[i] = f[i]
    BY TasksAre, TaskFields
<1>3. j \in S
    OBVIOUS
<1>4. SumOver(g, S) = SumOver(f, S) + g[j] - f[j]
    <2> HIDE DEF f, g, S
    <2>1. (\A i \in S : f[i] \in Int) /\ g[j] \in Int
        BY <1>2, <1>3
    <2>2. \A i \in S \ {j} : g[i] = f[i]
        BY <1>2
    <2> QED
        BY ONLY <1>1, <1>3, <2>1, <2>2, SumChanges
<1> QED
    BY <1>4 DEF Reported

\* What was reported has been sent.
LEMMA ReportedWasSent ==
    ASSUME NEW ts \in Seq(Task), \A i \in DOMAIN ts : ts[i].reported <= ts[i].pos
    PROVE  Reported(ts) <= Sent(ts)
<1> DEFINE S == DOMAIN ts
           f == [i \in S |-> ts[i].reported]
           g == [i \in S |-> ts[i].pos]
<1>1. IsFiniteSet(S)
    BY TasksAre
<1>2. \A i \in S : f[i] \in Int /\ g[i] \in Int /\ f[i] <= g[i]
    BY TasksAre, TaskFields
<1>3. SumOver(f, S) <= SumOver(g, S)
    <2> HIDE DEF f, g, S
    <2> QED
        BY <1>1, <1>2, SumOrder
<1> QED
    BY <1>3 DEF Sent, Reported

LEMMA ReportedIsSent ==
    ASSUME NEW ts, \A i \in DOMAIN ts : ts[i].reported = ts[i].pos
    PROVE  Reported(ts) = Sent(ts)
<1>1. [i \in DOMAIN ts |-> ts[i].reported] = [i \in DOMAIN ts |-> ts[i].pos]
    OBVIOUS
<1> QED
    BY <1>1 DEF Sent, Reported

-----------------------------------------------------------------------------
(* The parts of a plan.                                                    *)

LEMMA PartsFollow ==
    ASSUME NEW n \in DOMAIN PlansOf, NEW ts \in Seq(Task), Planned(ts, n)
    PROVE  /\ Len(ts) \in Nat \ {0} /\ n \in Nat
           /\ \A i \in 1..Len(ts) :
                 ts[i].offset = IF i = 1 THEN 0
                                ELSE ts[i-1].offset + ts[i-1].size
           /\ ts[Len(ts)].offset + ts[Len(ts)].size = n
<1>1. PICK plan \in PlansOf[n] : Fits(ts, plan)
    BY DEF Planned
<1>2. plan \in Seq(Part) /\ Covers(plan, n)
    BY PlansAssumption
<1>3. DOMAIN ts = 1..Len(ts) /\ Len(ts) \in Nat /\ Len(plan) \in Nat
    BY <1>2, TasksAre, LenProperties
<1>4. Len(ts) = Len(plan)
    BY <1>1, <1>3 DEF Fits
<1>5. Len(plan) # 0
    BY <1>2, EmptySeq DEF Covers
<1>6. \A i \in 1..Len(ts) : /\ ts[i].offset = plan[i].offset
                            /\ ts[i].size = plan[i].size
    BY <1>1, <1>3 DEF Fits
<1>7. \A i \in 1..Len(ts) : i # 1 => i - 1 \in 1..Len(ts)
    BY <1>3
<1>8. \A i \in 1..Len(ts) :
         ts[i].offset = IF i = 1 THEN 0 ELSE ts[i-1].offset + ts[i-1].size
    BY <1>2, <1>4, <1>6, <1>7 DEF Covers
<1>9. Len(ts) \in 1..Len(ts)
    BY <1>3, <1>4, <1>5
<1>10. ts[Len(ts)].offset + ts[Len(ts)].size = n
    BY <1>2, <1>4, <1>6, <1>9 DEF Covers
<1>11. ts[Len(ts)].offset \in Nat /\ ts[Len(ts)].size \in Nat
    BY <1>3, <1>9, TasksAre, TaskFields
<1>12. n \in Nat
    BY <1>10, <1>11
<1> QED
    BY <1>3, <1>4, <1>5, <1>8, <1>10, <1>12

LEMMA PartsAddUp ==
    ASSUME NEW n \in DOMAIN PlansOf, NEW ts \in Seq(Task), Planned(ts, n)
    PROVE  SumOver([i \in DOMAIN ts |-> ts[i].size], DOMAIN ts) = n
<1> DEFINE N == Len(ts)
           off == [i \in DOMAIN ts |-> ts[i].offset]
           f == [i \in DOMAIN ts |-> ts[i].size]
           upto(k) == IF k = 0 THEN 0 ELSE off[k] + f[k]
           D == {k \in 0..N : SumOver(f, 1..k) = upto(k)}
<1>1. N \in Nat \ {0} /\ DOMAIN ts = 1..N
    BY PartsFollow, TasksAre
<1>2. \A i \in 1..N : f[i] \in Nat /\ off[i] \in Nat
    BY <1>1, TasksAre, TaskFields
<1>3. /\ \A i \in 1..N : off[i] = IF i = 1 THEN 0 ELSE off[i-1] + f[i-1]
      /\ off[N] + f[N] = n
    <2>1. \A i \in 1..N : i # 1 => i - 1 \in 1..N
        BY <1>1
    <2>2. N \in 1..N
        BY <1>1
    <2> QED
        BY <1>1, <2>1, <2>2, PartsFollow
<1> HIDE DEF N, off, f
<1>4. 0 \in D
    <2>1. 1..0 = {}
        OBVIOUS
    <2> QED
        BY <1>1, <2>1, SumEmpty
<1>5. ASSUME NEW k \in Nat, k < N, k \in D
      PROVE  k + 1 \in D
    <2> DEFINE T == 1..k
    <2>1. IsFiniteSet(T)
        BY FS_Interval
    <2>2. PICK x : x = k + 1
        OBVIOUS
    <2>3. x \notin T /\ T \cup {x} = 1..(k + 1) /\ 1..(k + 1) \subseteq 1..N
        BY <1>1, <1>5, <2>2
    <2>4. x \in 1..N /\ \A y \in T \cup {x} : f[y] \in Int
        BY <1>1, <1>2, <1>5, <2>2, <2>3
    <2>5. SumOver(f, T \cup {x}) = SumOver(f, T) + f[x]
        <3> HIDE DEF T
        <3> QED
            BY ONLY <2>1, <2>3, <2>4, SumAdds
    <2>6. SumOver(f, 1..(k + 1)) = upto(k) + f[k + 1]
        BY <1>5, <2>2, <2>3, <2>5
    <2>7. upto(k) = off[k + 1]
        <3>1. k + 1 \in 1..N /\ (k + 1) - 1 = k
            BY <2>2, <2>4
        <3> QED
            BY <1>3, <3>1
    <2>8. upto(k + 1) = off[k + 1] + f[k + 1]
        OBVIOUS
    <2>9. k + 1 \in 0..N
        BY <2>2, <2>4
    <2> QED
        BY <2>6, <2>7, <2>8, <2>9
<1>6. \A k \in 0..N : k \in D
    <2> HIDE DEF D
    <2> QED
        BY <1>1, <1>4, <1>5, UpTo
<1>7. SumOver(f, 1..N) = n
    BY <1>1, <1>3, <1>6
<1> QED
    BY <1>1, <1>7 DEF f

LEMMA PartsCover ==
    ASSUME NEW n \in DOMAIN PlansOf, NEW ts \in Seq(Task), Planned(ts, n),
           NEW p \in 0..(n - 1)
    PROVE  \E i \in DOMAIN ts :
               ts[i].offset <= p /\ p < ts[i].offset + ts[i].size
<1> DEFINE N == Len(ts)
           S == {k \in 1..N : p < ts[k].offset + ts[k].size}
<1>1. N \in Nat \ {0} /\ n \in Nat /\ DOMAIN ts = 1..N
    BY PartsFollow, TasksAre
<1>2. N \in S
    BY <1>1, PartsFollow
<1>3. PICK m \in S : \A k \in S : m <= k
    <2>1. S \in SUBSET Nat /\ S # {}
        BY <1>1, <1>2
    <2> HIDE DEF S
    <2> QED
        BY <2>1, Least
<1>4. ts[m].offset <= p
    <2>1. CASE m = 1
        <3>1. ts[m].offset = 0
            BY <1>1, <2>1, PartsFollow
        <3> QED
            BY <1>1, <3>1
    <2>2. CASE m # 1
        <3>1. m - 1 \in 1..N /\ m - 1 \notin S
            BY <1>1, <1>3, <2>2
        <3>2. ts[m].offset = ts[m-1].offset + ts[m-1].size
            BY <1>1, <2>2, PartsFollow
        <3>3. ts[m-1].offset \in Nat /\ ts[m-1].size \in Nat
            BY <1>1, <3>1, TasksAre, TaskFields
        <3> QED
            BY <1>1, <3>1, <3>2, <3>3
    <2> QED
        BY <2>1, <2>2
<1> QED
    BY <1>1, <1>4

LEMMA SentAtMost ==
    ASSUME NEW n \in DOMAIN PlansOf, NEW ts \in Seq(Task), Planned(ts, n),
           \A i \in DOMAIN ts : ts[i].pos <= ts[i].size
    PROVE  /\ Sent(ts) <= n
           /\ (\A i \in DOMAIN ts : ts[i].pos = ts[i].size) => Sent(ts) = n
<1> DEFINE S == DOMAIN ts
           f == [i \in S |-> ts[i].pos]
           g == [i \in S |-> ts[i].size]
<1>1. IsFiniteSet(S)
    BY TasksAre
<1>2. \A i \in S : f[i] \in Int /\ g[i] \in Int /\ f[i] <= g[i]
    BY TasksAre, TaskFields
<1>3. SumOver(f, S) <= SumOver(g, S)
    <2> HIDE DEF f, g, S
    <2> QED
        BY <1>1, <1>2, SumOrder
<1>4. SumOver(g, S) = n
    BY PartsAddUp
<1>5. ASSUME \A i \in S : ts[i].pos = ts[i].size
      PROVE  f = g
    BY <1>5
<1> QED
    BY <1>3, <1>4, <1>5 DEF Sent

-----------------------------------------------------------------------------
(* What a step of one task keeps.                                          *)

LEMMA RequestFields ==
    ASSUME NEW q \in Request
    PROVE  /\ q.op \in {"idle", "upload", "download"}
           /\ q.pc \in {"idle", "tasks", "rm_upload", "rm_progress", "rm_tmp",
                        "rm_dir", "ok", "error"}
           /\ q.lock \in Nat /\ q.total \in Nat
           /\ q.fd \in {"none", "open", "closed"} /\ q.file \in Files
BY DEF Request

\* A request one of whose tasks has not ended is waiting for its pool.
LEMMA Busy ==
    ASSUME NEW q, NEW ts, NEW n, RequestOK(q, ts, n), NEW i \in DOMAIN ts,
           ts[i].pc \notin Ended
    PROVE  q.pc = "tasks" /\ q.op # "idle" /\ q.fd # "closed"
<1>1. ts # <<>>
    OBVIOUS
<1>2. q.op # "idle"
    BY <1>1 DEF RequestOK
<1>3. q.fd # "closed"
    BY DEF RequestOK
<1> QED
    BY <1>2, <1>3 DEF RequestOK

\* us is ts but for task i, which is t.
LEMMA OneTask ==
    ASSUME NEW ts \in Seq(Task), NEW i \in DOMAIN ts, NEW t \in Task,
           NEW us, us = [ts EXCEPT ![i] = t]
    PROVE  /\ us \in Seq(Task) /\ DOMAIN us = DOMAIN ts /\ Len(us) = Len(ts)
           /\ us[i] = t /\ \A j \in DOMAIN ts \ {i} : us[j] = ts[j]
<1>1. i \in 1..Len(ts)
    BY TasksAre
<1>2. us \in Seq(Task) /\ Len(us) = Len(ts)
    BY <1>1, ExceptSeq
<1> QED
    BY <1>2

LEMMA OneTaskKeepsRequest ==
    ASSUME NEW q, NEW ts, NEW n, NEW i \in DOMAIN ts, NEW t \in Task, NEW us,
           NEW p \in Request,
           RequestOK(q, ts, n), ts[i].pc \notin Ended,
           t.offset = ts[i].offset, t.size = ts[i].size,
           q.op = "upload" => UploadOK(t), q.op = "download" => DownloadOK(t),
           us = [ts EXCEPT ![i] = t],
           p.op = q.op, p.pc = q.pc, p.fd = q.fd,
           p.op = "download" => p.total = 0,
           p.lock \in 0..Len(ts),
           \A j \in DOMAIN ts : us[j].pc \in Held <=> p.lock = j
    PROVE  RequestOK(p, us, n)
<1>1. q.pc = "tasks" /\ q.op # "idle" /\ q.fd # "closed"
    BY Busy
<1>2. ts \in Seq(Task)
    BY DEF RequestOK
<1>3. /\ us \in Seq(Task) /\ DOMAIN us = DOMAIN ts /\ Len(us) = Len(ts)
      /\ us[i] = t /\ \A j \in DOMAIN ts \ {i} : us[j] = ts[j]
    BY <1>2, OneTask
<1>4. Planned(us, n)
    <2>1. PICK plan \in PlansOf[n] : Fits(ts, plan)
        BY <1>1 DEF RequestOK, Planned
    <2>2. \A j \in DOMAIN ts : /\ us[j].offset = ts[j].offset
                               /\ us[j].size = ts[j].size
        BY <1>3
    <2>3. Fits(us, plan)
        BY <1>3, <2>1, <2>2 DEF Fits
    <2> QED
        BY <2>3 DEF Planned
<1>5. q.op = "upload" => \A j \in DOMAIN us : UploadOK(us[j])
    BY <1>3 DEF RequestOK
<1>6. q.op = "download" => \A j \in DOMAIN us : DownloadOK(us[j])
    BY <1>3 DEF RequestOK
<1> QED
    BY <1>1, <1>3, <1>4, <1>5, <1>6 DEF RequestOK

\* The total, when nothing is reported.
LEMMA OneTaskKeepsTotal ==
    ASSUME NEW q, NEW ts \in Seq(Task), NEW i \in DOMAIN ts, NEW t \in Task,
           NEW us, NEW p,
           TotalOK(q, ts), ts[i].pc # "open",
           t.reported = ts[i].reported, t.pc # "open",
           t.pc = "flush" => t.sum = q.total,
           us = [ts EXCEPT ![i] = t], p.op = q.op, p.total = q.total
    PROVE  TotalOK(p, us)
<1>1. /\ us \in Seq(Task) /\ DOMAIN us = DOMAIN ts
      /\ us[i] = t /\ \A j \in DOMAIN ts \ {i} : us[j] = ts[j]
    BY OneTask
<1>2. Reported(us) = Reported(ts)
    BY <1>1, ReportedSame
<1>3. \A j \in DOMAIN ts : us[j].pc = "open" <=> ts[j].pc = "open"
    BY <1>1
<1> QED
    BY <1>1, <1>2, <1>3 DEF TotalOK

-----------------------------------------------------------------------------
(* Descriptors that follow their files.                                    *)

Renamed(t, u) ==
    /\ u \in Task /\ (t.fd = "none" <=> u.fd = "none")
    /\ u.pc = t.pc /\ u.offset = t.offset /\ u.size = t.size /\ u.pos = t.pos
    /\ u.object = t.object /\ u.reported = t.reported /\ u.sum = t.sum

\* us has the tasks of ts, some with their descriptors on another file.
Follow(ts, us) ==
    /\ us \in Seq(Task) /\ DOMAIN us = DOMAIN ts
    /\ \A i \in DOMAIN ts : Renamed(ts[i], us[i])

LEMMA FollowKeeps ==
    ASSUME NEW q, NEW ts \in Seq(Task), NEW us, NEW n, RequestInv(q, ts, n),
           Follow(ts, us)
    PROVE  RequestInv(q, us, n) /\ Further(ts, us)
<1>1. /\ us \in Seq(Task) /\ DOMAIN us = DOMAIN ts
      /\ \A i \in DOMAIN ts :
            LET t == ts[i]
                u == us[i]
            IN  /\ (t.fd = "none" <=> u.fd = "none")
                /\ u.pc = t.pc /\ u.offset = t.offset /\ u.size = t.size
                /\ u.pos = t.pos /\ u.object = t.object
                /\ u.reported = t.reported /\ u.sum = t.sum
    BY DEF Follow, Renamed
<1>2. Len(us) = Len(ts)
    BY <1>1, TasksAre
<1>3. Planned(ts, n) => Planned(us, n)
    BY <1>1 DEF Planned, Fits
<1>4. RequestOK(q, us, n)
    <2>1. q.op = "upload" => \A i \in DOMAIN us : UploadOK(us[i])
        BY <1>1 DEF RequestInv, RequestOK, UploadOK
    <2>2. q.op = "download" => \A i \in DOMAIN us : DownloadOK(us[i])
        BY <1>1 DEF RequestInv, RequestOK, DownloadOK
    <2>3. ts = <<>> => us = <<>>
        BY <1>1, <1>2, EmptySeq, SeqEqual
    <2>4. \A i \in DOMAIN ts : us[i].pc = ts[i].pc
        BY <1>1
    <2> QED
        BY <1>1, <1>2, <1>3, <2>1, <2>2, <2>3, <2>4 DEF RequestInv, RequestOK
<1>5. TotalOK(q, us)
    <2>1. Reported(us) = Reported(ts)
        BY <1>1, ReportedSame
    <2> QED
        BY <1>1, <2>1 DEF RequestInv, TotalOK
<1>6. FileOK(q, us, n)
    BY <1>1 DEF RequestInv, FileOK
<1>7. Further(ts, us)
    BY <1>1, TasksAre, TaskFields DEF Further
<1> QED
    BY <1>4, <1>5, <1>6, <1>7 DEF RequestInv

LEMMA RedirectedFollow ==
    ASSUME NEW tasks \in [Requests -> Seq(Task)], NEW moved,
           DOMAIN moved \in SUBSET {"tmp", "progress"},
           \A x \in DOMAIN moved : moved[x] \in {"progress", "gone"},
           NEW r \in Requests
    PROVE  Follow(tasks[r], Redirected(tasks, moved)[r])
<1> DEFINE ts == tasks[r]
           us == Redirected(tasks, moved)[r]
<1>1. us = [i \in DOMAIN ts |-> IF ts[i].fd \in DOMAIN moved
                                THEN [ts[i] EXCEPT !.fd = moved[@]] ELSE ts[i]]
    BY DEF Redirected
<1>2. ts \in Seq(Task)
    OBVIOUS
<1> HIDE DEF ts, us
<1>3. ASSUME NEW i \in DOMAIN ts PROVE Renamed(ts[i], us[i])
    <2>1. ts[i] \in Task
        BY <1>2, TasksAre
    <2>2. CASE ts[i].fd \in DOMAIN moved
        <3>1. us[i] = [ts[i] EXCEPT !.fd = moved[ts[i].fd]]
            BY <1>1, <2>2
        <3>2. moved[ts[i].fd] \in {"progress", "gone"} /\ ts[i].fd # "none"
            BY <2>2
        <3> QED
            BY <2>1, <3>1, <3>2 DEF Task, Renamed
    <2>3. CASE ts[i].fd \notin DOMAIN moved
        BY <1>1, <2>1, <2>3 DEF Renamed
    <2> QED
        BY <2>2, <2>3
<1>4. us \in Seq(Task) /\ DOMAIN us = DOMAIN ts
    <2>1. DOMAIN ts = 1..Len(ts) /\ Len(ts) \in Nat
        BY <1>2, TasksAre
    <2>2. us \in [1..Len(ts) -> Task]
        <3>1. \A i \in DOMAIN ts : us[i] \in Task
            BY <1>3 DEF Renamed
        <3> QED
            BY <1>1, <2>1, <3>1
    <2> QED
        BY <2>1, <2>2, SeqDef
<1>5. Follow(ts, us)
    BY <1>3, <1>4 DEF Follow
<1> QED
    BY <1>5 DEF ts, us

LEMMA FollowItself ==
    ASSUME NEW ts \in Seq(Task)
    PROVE  Follow(ts, ts)
<1>1. \A i \in DOMAIN ts : ts[i] \in Task
    BY TasksAre
<1> QED
    BY <1>1 DEF Follow, Renamed

LEMMA FollowAfter ==
    ASSUME NEW ts \in Seq(Task), NEW us \in Seq(Task), NEW vs,
           Further(ts, us), Follow(us, vs)
    PROVE  Further(ts, vs)
BY DEF Further, Follow, Renamed

-----------------------------------------------------------------------------
(* What a step keeps of the rest.                                          *)

LEMMA FurtherItself ==
    ASSUME NEW ts \in Seq(Task)
    PROVE  Further(ts, ts)
BY TasksAre, TaskFields DEF Further

AllFurther(tasks, more) == \A v \in Requests : Further(tasks[v], more[v])

\* What was reached is still reached.
LEMMA TextReached ==
    ASSUME NEW x, NEW tasks, NEW more, TextOK(x, tasks),
           tasks \in [Requests -> Seq(Task)], more \in [Requests -> Seq(Task)],
           \A v \in Requests : Sent(tasks[v]) <= Sent(more[v])
    PROVE  TextOK(x, more)
<1>1. CASE x \in {ABSENT, EMPTY, GARBLED}
    BY <1>1 DEF TextOK
<1>2. CASE x \notin {ABSENT, EMPTY, GARBLED}
    <2>1. PICK v \in Requests : x <= Sent(tasks[v])
        BY <1>2 DEF TextOK
    <2>2. tasks[v] \in Seq(Task) /\ more[v] \in Seq(Task)
        OBVIOUS
    <2>3. Sent(tasks[v]) \in Nat /\ Sent(more[v]) \in Nat
        BY <2>2, SumsAreNat
    <2>4. x \in Nat
        BY <1>2 DEF TextOK
    <2>5. x <= Sent(more[v])
        BY <2>1, <2>3, <2>4
    <2> QED
        BY <2>4, <2>5 DEF TextOK
<1> QED
    BY <1>1, <1>2

LEMMA TextStays ==
    ASSUME NEW x, NEW tasks, NEW more, TextOK(x, tasks),
           tasks \in [Requests -> Seq(Task)], more \in [Requests -> Seq(Task)],
           AllFurther(tasks, more)
    PROVE  TextOK(x, more)
<1>1. ASSUME NEW v \in Requests
      PROVE  Sent(tasks[v]) <= Sent(more[v])
    <2>1. tasks[v] \in Seq(Task) /\ more[v] \in Seq(Task)
        OBVIOUS
    <2> QED
        BY <2>1, SentGrows DEF AllFurther
<1> QED
    BY <1>1, TextReached

\* No request gets further in its program.
SamePlaces(q, p) ==
    \A v \in Requests : p[v].op = q[v].op /\ p[v].pc = q[v].pc

\* The directory e is d, with another text in one of its files.
Rewritten(d, e, tasks) ==
    /\ e \in Directory /\ e.there = d.there /\ e.upload = d.upload
    /\ TextOK(e.progress, tasks) /\ TextOK(e.tmp, tasks)

Uploading(q) == \E r \in Requests : q[r].op = "upload" /\ q[r].pc = "tasks"

\* The directory, when no request gets further in its program: it is as it
\* was, or a report has written in it.
LEMMA DirStays ==
    ASSUME NEW d, NEW q, NEW tasks, NEW e, NEW p, NEW more,
           tasks \in [Requests -> Seq(Task)], more \in [Requests -> Seq(Task)],
           DirOK(d, q, tasks), AllFurther(tasks, more), SamePlaces(q, p),
           e = d \/ (Rewritten(d, e, more) /\ Uploading(q))
    PROVE  DirOK(e, p, more)
<1> USE DEF AllFurther, SamePlaces, Rewritten, Uploading
<1> DEFINE Writing(z, c) == \E r \in Requests : z[r].op = "upload"
                                                /\ z[r].pc \in c
           C == {"tasks", "rm_upload", "rm_progress", "error"}
           D == C \cup {"rm_tmp"}
<1>1. \A c : Writing(q, c) => Writing(p, c)
    OBVIOUS
<1>2. /\ d \in Directory /\ d.upload => d.there
      /\ d.progress # ABSENT => Writing(q, C)
      /\ d.tmp # ABSENT => Writing(q, D)
    BY DEF DirOK
<1>3. /\ e \in Directory /\ e.there = d.there /\ e.upload = d.upload
      /\ TextOK(e.progress, more) /\ TextOK(e.tmp, more)
    BY TextStays DEF DirOK
<1>4. /\ e.progress # ABSENT => Writing(q, C)
      /\ e.tmp # ABSENT => Writing(q, D)
    <2>1. CASE e = d
        BY <1>2, <2>1
    <2>2. CASE e # d
        <3>1. PICK r \in Requests : q[r].op = "upload" /\ q[r].pc = "tasks"
            BY <2>2
        <3>2. Writing(q, C) /\ Writing(q, D)
            BY <3>1
        <3> QED
            BY <3>2
    <2> QED
        BY <2>1, <2>2
<1>5. \A r \in Requests :
         p[r].op = "upload"
         /\ p[r].pc \in {"rm_progress", "rm_tmp", "rm_dir", "ok"} => ~e.upload
    <2>1. \A r \in Requests :
             q[r].op = "upload"
             /\ q[r].pc \in {"rm_progress", "rm_tmp", "rm_dir", "ok"}
                 => ~d.upload
        BY DEF DirOK
    <2> QED
        BY <1>3, <2>1
<1>6. e.there /\ (\E r \in Requests : p[r].op = "upload") =>
         \E r \in Requests : p[r].op = "upload" /\ p[r].pc # "ok"
    <2>1. d.there /\ (\E r \in Requests : q[r].op = "upload") =>
             \E r \in Requests : q[r].op = "upload" /\ q[r].pc # "ok"
        BY DEF DirOK
    <2> QED
        BY <1>3, <2>1
<1>7. e.progress # ABSENT => Writing(p, C)
    <2> HIDE DEF Writing
    <2> QED
        BY <1>1, <1>4
<1>8. e.tmp # ABSENT => Writing(p, D)
    <2> HIDE DEF Writing
    <2> QED
        BY <1>1, <1>4
<1>9. /\ e.progress # ABSENT => \E r \in Requests :
            /\ p[r].op = "upload"
            /\ p[r].pc \in {"tasks", "rm_upload", "rm_progress", "error"}
      /\ e.tmp # ABSENT => \E r \in Requests :
            /\ p[r].op = "upload"
            /\ p[r].pc \in {"tasks", "rm_upload", "rm_progress", "rm_tmp",
                             "error"}
    BY <1>7, <1>8
<1> HIDE DEF Writing
<1> QED
    BY <1>2, <1>3, <1>5, <1>6, <1>9 DEF DirOK

LEMMA StepKeeps ==
    ASSUME IInv, NEW r \in Requests, UNCHANGED size, faults' \in 0..MaxFaults,
           req' \in [Requests -> Request], task' \in [Requests -> Seq(Task)],
           \A v \in Requests : RequestInv(req'[v], task'[v], size),
           ListedOK(listed', size), DirOK(dir', req', task'),
           req'[r].op # "idle",
           Alone(r, req') => AloneOK(dir', req'[r], task'[r])
    PROVE  IInv'
<1>1. ASSUME NEW v \in Requests, Alone(v, req')
      PROVE  AloneOK(dir', req'[v], task'[v])
    <2>1. v = r
        BY <1>1 DEF Alone
    <2> QED
        BY <1>1, <2>1
<1>2. size' \in DOMAIN PlansOf
    BY DEF IInv
<1> QED
    BY <1>1, <1>2 DEF IInv

LEMMA InvGives ==
    ASSUME IInv, NEW r \in Requests
    PROVE  /\ req \in [Requests -> Request] /\ task \in [Requests -> Seq(Task)]
           /\ req[r] \in Request /\ task[r] \in Seq(Task)
           /\ \A v \in Requests : RequestInv(req[v], task[v], size)
           /\ RequestOK(req[r], task[r], size)
           /\ TotalOK(req[r], task[r]) /\ FileOK(req[r], task[r], size)
           /\ size \in DOMAIN PlansOf /\ faults \in 0..MaxFaults
           /\ ListedOK(listed, size) /\ DirOK(dir, req, task)
           /\ Alone(r, req) => AloneOK(dir, req[r], task[r])
BY DEF IInv, RequestInv

\* A step of task i of r that leaves the directory alone.
LEMMA TaskStepKeeps ==
    ASSUME NEW r \in Requests, NEW i \in DOMAIN task[r], NEW t \in Task, NEW us,
           NEW q \in Request, NEW e,
           IInv, task[r][i].pc \notin Ended, task[r][i].pos <= t.pos,
           us = [task[r] EXCEPT ![i] = t],
           q.op = req[r].op, q.pc = req[r].pc, RequestInv(q, us, size),
           UNCHANGED <<size, listed>>, faults' \in 0..MaxFaults,
           req' = [req EXCEPT ![r] = q], task' = [task EXCEPT ![r] = us],
           dir' = e,
           \/ e = dir
           \/ /\ e \in Directory /\ e.there = dir.there /\ e.upload = dir.upload
              /\ TextOK(e.progress, task) /\ TextOK(e.tmp, task)
              /\ q.op = "upload",
           Alone(r, req) => AloneOK(e, q, us)
    PROVE  IInv'
<1>1. /\ req \in [Requests -> Request] /\ task \in [Requests -> Seq(Task)]
      /\ task[r] \in Seq(Task)
      /\ \A v \in Requests : RequestInv(req[v], task[v], size)
      /\ RequestOK(req[r], task[r], size)
      /\ ListedOK(listed, size) /\ DirOK(dir, req, task)
    BY InvGives
<1>2. us \in Seq(Task) /\ DOMAIN us = DOMAIN task[r] /\ Further(task[r], us)
    <2>1. /\ us \in Seq(Task) /\ DOMAIN us = DOMAIN task[r]
          /\ us[i] = t /\ \A j \in DOMAIN task[r] \ {i} : us[j] = task[r][j]
        BY <1>1, OneTask
    <2>2. \A j \in DOMAIN task[r] : task[r][j].pos <= task[r][j].pos
        BY <1>1, FurtherItself DEF Further
    <2>3. \A j \in DOMAIN task[r] : task[r][j].pos <= us[j].pos
        BY <2>1, <2>2
    <2> QED
        BY <2>1, <2>3 DEF Further
<1>3. req' \in [Requests -> Request] /\ task' \in [Requests -> Seq(Task)]
    BY <1>1, <1>2
<1>4. /\ req'[r] = q /\ task'[r] = us
      /\ \A v \in Requests \ {r} : req'[v] = req[v] /\ task'[v] = task[v]
    BY <1>1
<1>5. \A v \in Requests : RequestInv(req'[v], task'[v], size)
    BY <1>1, <1>4
<1>6. \A v \in Requests : Further(task[v], task'[v])
    BY <1>1, <1>2, <1>4, FurtherItself
<1>7. \A v \in Requests : req'[v].op = req[v].op /\ req'[v].pc = req[v].pc
    BY <1>4
<1>8. req[r].pc = "tasks" /\ req[r].op # "idle"
    BY <1>1, Busy
<1>9. DirOK(dir', req', task')
    <2>1. ASSUME e # dir
          PROVE  /\ e \in Directory /\ e.there = dir.there
                 /\ e.upload = dir.upload
                 /\ TextOK(e.progress, task') /\ TextOK(e.tmp, task')
                 /\ \E v \in Requests : req[v].op = "upload"
                                        /\ req[v].pc = "tasks"
        <3>1. TextOK(e.progress, task') /\ TextOK(e.tmp, task')
            BY <1>1, <1>3, <1>6, <2>1, TextStays DEF AllFurther
        <3> QED
            BY <1>8, <2>1, <3>1
    <2> DEFINE more == task'
               p == req'
    <2>2. more \in [Requests -> Seq(Task)] /\ AllFurther(task, more)
          /\ SamePlaces(req, p)
        BY <1>3, <1>6, <1>7 DEF AllFurther, SamePlaces
    <2>3. e = dir \/ (Rewritten(dir, e, more) /\ Uploading(req))
        BY <2>1 DEF Rewritten, Uploading
    <2> HIDE DEF more, p
    <2>4. DirOK(e, p, more)
        BY ONLY <1>1, <2>2, <2>3, DirStays
    <2> QED
        BY <2>4 DEF more, p
<1>10. ListedOK(listed', size)
    BY <1>1
<1>11. Alone(r, req') => AloneOK(dir', req'[r], task'[r])
    BY <1>4, <1>7 DEF Alone
<1> QED
    BY <1>3, <1>4, <1>5, <1>8, <1>9, <1>10, <1>11, StepKeeps

-----------------------------------------------------------------------------
(* Tasks on their way, between reports.                                    *)

LEMMA QuietTask ==
    ASSUME NEW r \in Requests, NEW i \in DOMAIN task[r], NEW t \in Task, NEW us,
           NEW q \in Request,
           IInv, task[r][i].pc \in {"queued", "send"},
           t.pc \in {"send", "report", "failed", "done"},
           t.offset = task[r][i].offset, t.size = task[r][i].size,
           t.reported = task[r][i].reported, task[r][i].pos <= t.pos,
           req[r].op = "upload" => UploadOK(t),
           req[r].op = "download" => DownloadOK(t),
           us = [task[r] EXCEPT ![i] = t],
           q.op = req[r].op, q.pc = req[r].pc, q.fd = req[r].fd,
           q.lock = req[r].lock, q.total = req[r].total,
           FileOK(q, us, size),
           UNCHANGED <<size, dir, listed>>, faults' \in 0..MaxFaults,
           req' = [req EXCEPT ![r] = q], task' = [task EXCEPT ![r] = us]
    PROVE  IInv'
<1> DEFINE ts == task[r]
<1>1. /\ RequestOK(req[r], ts, size) /\ TotalOK(req[r], ts)
      /\ Alone(r, req) => AloneOK(dir, req[r], ts)
      /\ ts \in Seq(Task)
    BY InvGives
<1>2. ts[i].pc \notin Ended /\ ts[i].pc \notin Held /\ t.pc \notin Held
    BY DEF Ended, Held
<1>3. /\ us \in Seq(Task) /\ DOMAIN us = DOMAIN ts
      /\ us[i] = t /\ \A j \in DOMAIN ts \ {i} : us[j] = ts[j]
    BY <1>1, OneTask
<1>4. RequestOK(q, us, size)
    <2>1. q.lock \in 0..Len(ts)
        BY <1>1 DEF RequestOK
    <2>2. \A j \in DOMAIN ts : ts[j].pc \in Held <=> req[r].lock = j
        BY <1>1 DEF RequestOK
    <2>3. \A j \in DOMAIN ts : us[j].pc \in Held <=> q.lock = j
        BY <1>2, <1>3, <2>2
    <2>4. q.op = "download" => q.total = 0
        BY <1>1 DEF RequestOK
    <2> QED
        BY <1>1, <1>2, <2>1, <2>3, <2>4, OneTaskKeepsRequest, SMTT(30)
<1>5. TotalOK(q, us)
    BY <1>1, OneTaskKeepsTotal
<1>6. Alone(r, req) => AloneOK(dir, q, us)
    BY <1>1, <1>3 DEF AloneOK
<1>7. RequestInv(q, us, size)
    BY <1>4, <1>5 DEF RequestInv
<1>8. dir' = dir
    OBVIOUS
<1> QED
    BY <1>2, <1>6, <1>7, <1>8, TaskStepKeeps

LEMMA KeepsTake ==
    ASSUME IInv, NEW r \in Requests, NEW i \in DOMAIN task[r], Take(r, i)
    PROVE  IInv'
<1> DEFINE t == [task[r][i] EXCEPT !.pc = "send"]
           us == [task[r] EXCEPT ![i] = t]
           q == req[r]
<1>1. /\ RequestOK(q, task[r], size) /\ FileOK(q, task[r], size)
      /\ q \in Request /\ req \in [Requests -> Request]
      /\ task[r] \in Seq(Task) /\ task \in [Requests -> Seq(Task)]
      /\ faults \in 0..MaxFaults
    BY InvGives
<1>2. task[r][i] \in Task /\ task[r][i].pc = "queued"
    BY <1>1, TasksAre DEF Take
<1>3. /\ t \in Task /\ t.pc = "send"
      /\ t.offset = task[r][i].offset /\ t.size = task[r][i].size
      /\ t.pos = task[r][i].pos /\ t.object = task[r][i].object
      /\ t.reported = task[r][i].reported /\ t.fd = task[r][i].fd
    BY <1>2 DEF Task, Running
<1>4. task' = [task EXCEPT ![r] = us] /\ req' = [req EXCEPT ![r] = q]
    BY <1>1 DEF Take
<1> HIDE DEF t
<1>5. /\ q.op = "upload" => UploadOK(t)
      /\ q.op = "download" => DownloadOK(t)
    BY <1>1, <1>2, <1>3 DEF RequestOK, UploadOK, DownloadOK
<1>6. FileOK(q, us, size)
    <2>1. /\ DOMAIN us = DOMAIN task[r]
          /\ us[i] = t /\ \A j \in DOMAIN task[r] \ {i} : us[j] = task[r][j]
        BY <1>1, <1>3, OneTask
    <2>2. \A j \in DOMAIN us : /\ us[j].offset = task[r][j].offset
                               /\ us[j].pos = task[r][j].pos
        BY <1>3, <2>1
    <2> QED
        BY <1>1, <2>1, <2>2 DEF FileOK
<1>7. task[r][i].pos <= t.pos
    BY <1>2, <1>3, TaskFields
<1>8. UNCHANGED <<size, dir, listed>> /\ faults' \in 0..MaxFaults
    BY <1>1 DEF Take
<1> HIDE DEF us, q
<1>9. us = [task[r] EXCEPT ![i] = t]
    BY DEF us
<1> QED
    BY <1>1, <1>2, <1>3, <1>4, <1>5, <1>6, <1>7, <1>8, <1>9, QuietTask DEF q

LEMMA KeepsTaskFails ==
    ASSUME IInv, NEW r \in Requests, NEW i \in DOMAIN task[r], TaskFails(r, i)
    PROVE  IInv'
<1> DEFINE t == [task[r][i] EXCEPT !.pc = "failed"]
           us == [task[r] EXCEPT ![i] = t]
           q == req[r]
<1>1. /\ RequestOK(q, task[r], size) /\ FileOK(q, task[r], size)
      /\ q \in Request /\ req \in [Requests -> Request]
      /\ task[r] \in Seq(Task) /\ task \in [Requests -> Seq(Task)]
      /\ faults \in 0..MaxFaults
    BY InvGives
<1>2. task[r][i] \in Task /\ task[r][i].pc = "send"
    BY <1>1, TasksAre DEF TaskFails
<1>3. /\ t \in Task /\ t.pc = "failed"
      /\ t.offset = task[r][i].offset /\ t.size = task[r][i].size
      /\ t.pos = task[r][i].pos /\ t.object = task[r][i].object
      /\ t.reported = task[r][i].reported /\ t.fd = task[r][i].fd
    BY <1>2 DEF Task, Ended
<1>4. task' = [task EXCEPT ![r] = us] /\ req' = [req EXCEPT ![r] = q]
    BY <1>1 DEF TaskFails
<1> HIDE DEF t
<1>5. /\ q.op = "upload" => UploadOK(t)
      /\ q.op = "download" => DownloadOK(t)
    BY <1>1, <1>2, <1>3 DEF RequestOK, UploadOK, DownloadOK, Ended
<1>6. FileOK(q, us, size)
    <2>1. /\ DOMAIN us = DOMAIN task[r]
          /\ us[i] = t /\ \A j \in DOMAIN task[r] \ {i} : us[j] = task[r][j]
        BY <1>1, <1>3, OneTask
    <2>2. \A j \in DOMAIN us : /\ us[j].offset = task[r][j].offset
                               /\ us[j].pos = task[r][j].pos
        BY <1>3, <2>1
    <2> QED
        BY <1>1, <2>1, <2>2 DEF FileOK
<1>7. task[r][i].pos <= t.pos
    BY <1>2, <1>3, TaskFields
<1>8. UNCHANGED <<size, dir, listed>> /\ faults' \in 0..MaxFaults
    BY <1>1, BoundsAssumption DEF TaskFails
<1> HIDE DEF us, q
<1>9. us = [task[r] EXCEPT ![i] = t]
    BY DEF us
<1> QED
    BY <1>1, <1>2, <1>3, <1>4, <1>5, <1>6, <1>7, <1>8, <1>9, QuietTask DEF q

LEMMA KeepsSendChunk ==
    ASSUME IInv, NEW r \in Requests, NEW i \in DOMAIN task[r], SendChunk(r, i)
    PROVE  IInv'
<1> DEFINE s == task[r][i]
           q == req[r]
<1>1. /\ RequestOK(q, task[r], size) /\ FileOK(q, task[r], size)
      /\ q \in Request /\ req \in [Requests -> Request]
      /\ task[r] \in Seq(Task) /\ task \in [Requests -> Seq(Task)]
      /\ faults \in 0..MaxFaults
    BY InvGives
<1>2. s \in Task /\ s.pc = "send" /\ q.op = "upload" /\ ChunkSize < s.size
    BY <1>1, TasksAre, TaskFields, BoundsAssumption DEF SendChunk
<1>3. UploadOK(s)
    BY <1>1, <1>2 DEF RequestOK
<1>4. PICK m \in 1..Len(Read(s)) :
         task' = [task EXCEPT
                     ![r][i].object = @ \o SubSeq(Read(s), 1, m),
                     ![r][i].pos = @ + m,
                     ![r][i].pc = "report"]
    BY DEF SendChunk
<1> DEFINE o == s.object \o SubSeq(Read(s), 1, m)
           n == s.pos + m
           t == [s EXCEPT !.object = o, !.pos = n, !.pc = "report"]
           us == [task[r] EXCEPT ![i] = t]
<1>5. task' = [task EXCEPT ![r] = us]
    BY <1>1, <1>4
<1>6. req' = [req EXCEPT ![r] = q] /\ UNCHANGED <<size, dir, listed>>
      /\ faults' \in 0..MaxFaults
    BY <1>1 DEF SendChunk
<1>7. /\ s.pos <= s.size /\ s.object = Bytes(s.offset, s.pos)
      /\ s.reported = s.pos /\ s.fd = "none"
      /\ s.offset \in Nat /\ s.size \in Nat /\ s.pos \in Nat
      /\ s.reported \in Nat
    <2> HIDE DEF s
    <2> QED
        BY <1>2, <1>3, TaskFields DEF UploadOK
<1>8. /\ SubSeq(Read(s), 1, m) = Bytes(s.offset + s.pos, m)
      /\ m \in Nat /\ 1 <= m /\ s.pos + m <= s.size
    <2> DEFINE k == Min2(ChunkSize, s.size - s.pos)
               b == s.offset + s.pos
    <2>1. k \in 0..(s.size - s.pos) /\ Read(s) = Bytes(b, k)
        BY <1>2, <1>7, ReadIsBytes
    <2>2. b \in Nat /\ k \in Nat
        BY <1>7, <2>1
    <2>3. Len(Read(s)) = k
        BY <2>1, <2>2, BytesType, ZenonT(60)
    <2>4. m \in 0..k /\ m \in Nat /\ 1 <= m
        BY <2>2, <2>3
    <2> HIDE DEF k, b, s
    <2>5. SubSeq(Bytes(b, k), 1, m) = Bytes(b, m)
        BY <2>2, <2>4, BytesCut
    <2>6. s.pos + m <= s.size
        BY <1>7, <2>1, <2>4
    <2> QED
        BY <2>1, <2>4, <2>5, <2>6 DEF b
<1>9. /\ o = Bytes(s.offset, n) /\ o \in Seq(Nat)
      /\ n \in Nat /\ s.pos <= n /\ n <= s.size
    <2> DEFINE a == s.offset
               k == s.pos
    <2>1. a \in Nat /\ k \in Nat /\ m \in Nat /\ n \in Nat
        BY <1>7, <1>8
    <2>2. o = Bytes(a, k) \o Bytes(a + k, m)
        BY <1>7, <1>8
    <2> HIDE DEF a, k
    <2>3. o = Bytes(a, k + m)
        BY <2>1, <2>2, BytesJoin
    <2>4. n = k + m
        BY DEF k
    <2>5. Bytes(a, n) \in Seq(Nat)
        BY <2>1, BytesType
    <2>6. s.pos <= n /\ n <= s.size
        BY <1>7, <1>8
    <2> QED
        BY <2>1, <2>3, <2>4, <2>5, <2>6 DEF a
<1> HIDE DEF o, n, s
<1>10. /\ t.pc = "report" /\ t.pos = n /\ t.object = o
       /\ t.offset = s.offset /\ t.size = s.size
       /\ t.reported = s.reported /\ t.fd = s.fd
    BY <1>2 DEF Task
<1>11. t \in Task
    BY <1>2, <1>9 DEF Task, Running
<1> HIDE DEF t
<1>12. UploadOK(t)
    BY <1>2, <1>7, <1>9, <1>10, BoundsAssumption DEF UploadOK
<1>13. FileOK(q, us, size)
    BY <1>2 DEF FileOK
<1>14. s.pos <= t.pos
    BY <1>9, <1>10
<1> HIDE DEF us, q
<1>15. us = [task[r] EXCEPT ![i] = t]
    BY DEF us
<1>16. q = req[r] /\ s = task[r][i]
    BY DEF q, s
<1> QED
    BY <1>1, <1>2, <1>5, <1>6, <1>10, <1>11, <1>12, <1>13, <1>14, <1>15, <1>16,
       QuietTask

LEMMA KeepsSendWhole ==
    ASSUME IInv, NEW r \in Requests, NEW i \in DOMAIN task[r], SendWhole(r, i)
    PROVE  IInv'
<1> DEFINE s == task[r][i]
           q == req[r]
<1>1. /\ RequestOK(q, task[r], size) /\ FileOK(q, task[r], size)
      /\ q \in Request /\ req \in [Requests -> Request]
      /\ task[r] \in Seq(Task) /\ task \in [Requests -> Seq(Task)]
      /\ faults \in 0..MaxFaults
    BY InvGives
<1>2. s \in Task /\ s.pc = "send" /\ q.op = "upload" /\ s.size <= ChunkSize
    BY <1>1, TasksAre DEF SendWhole
<1>3. UploadOK(s)
    BY <1>1, <1>2 DEF RequestOK
<1> DEFINE o == Read(s)
           n == s.size
           t == [s EXCEPT !.object = o, !.pos = n, !.pc = "report"]
           us == [task[r] EXCEPT ![i] = t]
<1>5. task' = [task EXCEPT ![r] = us]
    BY <1>1 DEF SendWhole
<1>6. req' = [req EXCEPT ![r] = q] /\ UNCHANGED <<size, dir, listed>>
      /\ faults' \in 0..MaxFaults
    BY <1>1 DEF SendWhole
<1>7. /\ s.pos = 0 /\ s.reported = 0 /\ s.fd = "none"
      /\ s.offset \in Nat /\ s.size \in Nat
    <2> HIDE DEF s
    <2> QED
        BY <1>2, <1>3, TaskFields DEF UploadOK
<1>8. o = Bytes(s.offset, n) /\ o \in Seq(Nat)
    <2>1. Read(s) = Bytes(s.offset + s.pos, Min2(ChunkSize, s.size - s.pos))
        BY <1>2, <1>7, ReadIsBytes
    <2>2. s.offset + s.pos = s.offset
        BY <1>7
    <2>3. Min2(ChunkSize, s.size - s.pos) = s.size
        BY <1>2, <1>7, BoundsAssumption DEF Min2
    <2>4. Bytes(s.offset, s.size) \in Seq(Nat)
        BY <1>7, BytesType
    <2> QED
        BY <2>1, <2>2, <2>3, <2>4
<1> HIDE DEF o, s
<1>9. /\ t.pc = "report" /\ t.pos = n /\ t.object = o
      /\ t.offset = s.offset /\ t.size = s.size
      /\ t.reported = s.reported /\ t.fd = s.fd
    BY <1>2 DEF Task
<1>10. t \in Task
    BY <1>2, <1>7, <1>8 DEF Task, Running
<1> HIDE DEF t
<1>11. UploadOK(t)
    BY <1>7, <1>8, <1>9 DEF UploadOK
<1>12. FileOK(q, us, size)
    BY <1>2 DEF FileOK
<1>13. s.pos <= t.pos
    BY <1>7, <1>9
<1> HIDE DEF us, q
<1>14. us = [task[r] EXCEPT ![i] = t]
    BY DEF us
<1>15. q = req[r] /\ s = task[r][i]
    BY DEF q, s
<1> QED
    BY <1>1, <1>2, <1>5, <1>6, <1>9, <1>10, <1>11, <1>12, <1>13, <1>14, <1>15,
       QuietTask

LEMMA KeepsFetch ==
    ASSUME IInv, NEW r \in Requests, NEW i \in DOMAIN task[r], Fetch(r, i)
    PROVE  IInv'
<1> DEFINE s == task[r][i]
           d == req[r]
           left == Len(s.object) - s.pos
<1>1. /\ RequestOK(d, task[r], size) /\ FileOK(d, task[r], size)
      /\ d \in Request /\ req \in [Requests -> Request]
      /\ task[r] \in Seq(Task) /\ task \in [Requests -> Seq(Task)]
      /\ size \in DOMAIN PlansOf /\ faults \in 0..MaxFaults
    BY InvGives
<1>2. s \in Task /\ s.pc = "send" /\ d.op = "download"
    BY <1>1, TasksAre DEF Fetch
<1>3. DownloadOK(s)
    BY <1>1, <1>2 DEF RequestOK
<1>4. PICK m \in (IF left = 0 THEN {0} ELSE 1..Min2(ChunkSize, left)) :
         /\ req' = [req EXCEPT ![r].file = [p \in DOMAIN @ |->
                IF p \in WriterPos(s)..(WriterPos(s) + m - 1)
                THEN s.object[s.pos + 1 + p - WriterPos(s)] ELSE @[p]]]
         /\ task' = [task EXCEPT ![r][i].pos = @ + m,
                        ![r][i].pc = IF m = left THEN "done" ELSE "send"]
    BY DEF Fetch
<1> DEFINE f == [p \in DOMAIN d.file |->
                    IF p \in WriterPos(s)..(WriterPos(s) + m - 1)
                    THEN s.object[s.pos + 1 + p - WriterPos(s)] ELSE d.file[p]]
           n == s.pos + m
           c == IF m = left THEN "done" ELSE "send"
           q == [d EXCEPT !.file = f]
           t == [s EXCEPT !.pos = n, !.pc = c]
           us == [task[r] EXCEPT ![i] = t]
<1>5. task' = [task EXCEPT ![r] = us] /\ req' = [req EXCEPT ![r] = q]
    BY <1>1, <1>4
<1>6. UNCHANGED <<size, dir, listed>> /\ faults' \in 0..MaxFaults
    BY <1>1 DEF Fetch
<1>7. /\ s.object = Bytes(s.offset, s.size) /\ s.pos <= s.size
      /\ s.reported = 0 /\ s.fd = "none"
      /\ s.offset \in Nat /\ s.size \in Nat /\ s.pos \in Nat
    <2> HIDE DEF s
    <2> QED
        BY <1>2, <1>3, TaskFields DEF DownloadOK
<1>8. m \in Nat /\ n \in Nat /\ s.pos <= n /\ n <= s.size
      /\ (c = "done" => n = s.size) /\ c \in {"done", "send"}
    <2>1. Len(s.object) = s.size
        <3> DEFINE a == s.offset
                   k == s.size
        <3>1. a \in Nat /\ k \in Nat /\ s.object = Bytes(a, k)
            BY <1>7
        <3> HIDE DEF a, k
        <3>2. Len(Bytes(a, k)) = k
            BY <3>1, BytesType
        <3> QED
            BY <3>1, <3>2 DEF k
    <2>2. left \in Nat /\ left = s.size - s.pos
        BY <1>7, <2>1
    <2>3. m \in 0..left
        BY <2>2, BoundsAssumption DEF Min2
    <2> HIDE DEF s, left
    <2> QED
        BY <1>7, <2>2, <2>3
<1>9. /\ d.file \in [0..(size - 1) -> Nat \cup {ABSENT}]
      /\ \A j \in DOMAIN task[r] : \A p \in 0..(size - 1) :
            task[r][j].offset <= p /\ p < task[r][j].offset + task[r][j].pos
                => d.file[p] = p
    BY <1>1, <1>2 DEF FileOK
<1>10. \A p \in 0..(size - 1) :
          f[p] = IF s.offset + s.pos <= p /\ p < s.offset + n THEN p
                 ELSE d.file[p]
    <2> SUFFICES ASSUME NEW p \in 0..(size - 1)
                 PROVE  f[p] = IF s.offset + s.pos <= p /\ p < s.offset + n
                               THEN p ELSE d.file[p]
        OBVIOUS
    <2>1. size \in Nat
        BY <1>1, <1>2, PartsFollow DEF RequestOK
    <2>2. f[p] = IF p \in (s.offset + s.pos)..(s.offset + s.pos + m - 1)
                 THEN s.object[s.pos + 1 + p - (s.offset + s.pos)]
                 ELSE d.file[p]
        BY <1>9 DEF WriterPos
    <2> HIDE DEF s, f, d
    <2>3. p \in (s.offset + s.pos)..(s.offset + s.pos + m - 1)
          <=> s.offset + s.pos <= p /\ p < s.offset + n
        BY <1>7, <1>8, <2>1, SMTT(30)
    <2>4. ASSUME s.offset + s.pos <= p, p < s.offset + n
          PROVE  s.object[s.pos + 1 + p - (s.offset + s.pos)] = p
        <3> DEFINE k == s.pos + 1 + p - (s.offset + s.pos)
        <3>1. /\ n \in Nat /\ s.pos \in Nat /\ s.offset \in Nat /\ p \in Nat
              /\ s.size \in Nat /\ n <= s.size
            BY <1>7, <1>8, <2>1
        <3>2. k \in 1..s.size /\ s.offset + k - 1 = p
            <4> HIDE DEF n
            <4> QED
                BY <2>4, <3>1, SMTT(30)
        <3> HIDE DEF k
        <3>3. s.object[k] = p
            BY <1>7, <3>2 DEF Bytes
        <3> QED
            BY <3>3 DEF k
    <2> QED
        BY <2>2, <2>3, <2>4
<1>11. f \in [0..(size - 1) -> Nat \cup {ABSENT}]
    <2>1. \A p \in 0..(size - 1) : f[p] \in Nat \cup {ABSENT}
        <3>1. size \in Nat
            BY <1>1, <1>2, PartsFollow DEF RequestOK
        <3> HIDE DEF f, d, s
        <3> QED
            BY <1>9, <1>10, <3>1
    <2>2. DOMAIN f = 0..(size - 1)
        BY <1>9
    <2>3. f = [p \in DOMAIN f |-> f[p]]
        OBVIOUS
    <2> HIDE DEF f
    <2> QED
        BY <2>1, <2>2, <2>3
<1>12. f \in Files
    <2>1. size \in Nat
        BY <1>1, <1>2, PartsFollow DEF RequestOK
    <2> HIDE DEF f
    <2> QED
        BY <1>11, <2>1 DEF Files
<1> HIDE DEF s, f, n, c, left, d
<1>13. /\ t.pc = c /\ t.pos = n /\ t.object = s.object
       /\ t.offset = s.offset /\ t.size = s.size
       /\ t.reported = s.reported /\ t.fd = s.fd
    BY <1>2 DEF Task
<1>14. t \in Task
    BY <1>2, <1>8 DEF Task, Running, Ended
<1>15. /\ q \in Request /\ q.file = f /\ q.op = d.op /\ q.pc = d.pc
       /\ q.fd = d.fd /\ q.lock = d.lock /\ q.total = d.total
    BY <1>1, <1>12 DEF Request
<1> HIDE DEF t, q
<1>16. DownloadOK(t)
    BY <1>7, <1>8, <1>13 DEF DownloadOK, Ended
<1>17. s = task[r][i] /\ d = req[r]
    BY DEF s, d
<1>18. FileOK(q, us, size)
    <2>1. /\ DOMAIN us = DOMAIN task[r]
          /\ us[i] = t /\ \A j \in DOMAIN task[r] \ {i} : us[j] = task[r][j]
        BY <1>1, <1>14, OneTask
    <2>2. ASSUME NEW j \in DOMAIN us, NEW p \in 0..(size - 1),
                 us[j].offset <= p, p < us[j].offset + us[j].pos
          PROVE  q.file[p] = p
        <3>1. size \in Nat
            BY <1>1, <1>2, PartsFollow DEF RequestOK
        <3>2. q.file[p] = IF s.offset + s.pos <= p /\ p < s.offset + n THEN p
                          ELSE d.file[p]
            BY <1>10, <1>15
        <3>3. CASE j = i
            <4>1. s.offset <= p /\ p < s.offset + n
                BY <1>13, <2>1, <2>2, <3>3
            <4>2. CASE s.offset + s.pos <= p
                BY <3>2, <4>1, <4>2
            <4>3. CASE ~(s.offset + s.pos <= p)
                <5>1. p < s.offset + s.pos
                    BY <1>7, <3>1, <4>3
                <5>2. d.file[p] = p
                    BY <1>9, <1>17, <4>1, <5>1
                <5> QED
                    BY <3>2, <5>2
            <4> QED
                BY <4>2, <4>3
        <3>4. CASE j # i
            <4>1. us[j] = task[r][j] /\ j \in DOMAIN task[r]
                BY <2>1, <3>4
            <4>2. d.file[p] = p
                BY <1>9, <2>2, <4>1
            <4> QED
                BY <3>2, <4>2
        <3> QED
            BY <3>3, <3>4
    <2> QED
        BY <1>11, <1>15, <2>2 DEF FileOK
<1>19. s.pos <= t.pos
    BY <1>8, <1>13
<1> HIDE DEF us
<1>20. us = [task[r] EXCEPT ![i] = t]
    BY DEF us
<1> QED
    BY <1>2, <1>5, <1>6, <1>8, <1>13, <1>14, <1>15, <1>16, <1>17, <1>18, <1>19,
       <1>20, QuietTask

-----------------------------------------------------------------------------
(* Reports.                                                                *)

\* The task that has the lock is the only one between taking it and giving it
\* back, and it is a task of an upload.
LEMMA Holder ==
    ASSUME NEW q, NEW ts, NEW n, NEW i \in DOMAIN ts, RequestOK(q, ts, n),
           ts[i].pc \in Held \cup {"report"}
    PROVE  /\ q.op = "upload" /\ UploadOK(ts[i]) /\ ts[i].pc \notin Ended
           /\ ts[i].pc \in Held => q.lock = i
           /\ \A j \in DOMAIN ts : ts[j].pc \in Held => q.lock = j
<1>1. ts[i].pc \notin Ended
    BY DEF Held, Ended
<1>2. q.op # "idle" /\ q \in Request
    BY <1>1, Busy DEF RequestOK
<1>3. q.op # "download"
    BY DEF RequestOK, DownloadOK, Held, Ended
<1>4. q.op = "upload"
    BY <1>2, <1>3, RequestFields
<1> QED
    BY <1>1, <1>4 DEF RequestOK

LEMMA KeepsLock ==
    ASSUME IInv, NEW r \in Requests, NEW i \in DOMAIN task[r], Lock(r, i)
    PROVE  IInv'
<1> DEFINE ts == task[r]
           s == ts[i]
           d == req[r]
           sum == d.total + Delta(s)
           t == [s EXCEPT !.sum = sum, !.reported = s.pos, !.pc = "open"]
           us == [ts EXCEPT ![i] = t]
           q == [d EXCEPT !.lock = i]
<1>1. /\ RequestOK(d, ts, size) /\ TotalOK(d, ts)
      /\ d \in Request /\ req \in [Requests -> Request]
      /\ ts \in Seq(Task) /\ task \in [Requests -> Seq(Task)]
      /\ faults \in 0..MaxFaults
      /\ Alone(r, req) => AloneOK(dir, d, ts)
    BY InvGives
<1>2. s \in Task /\ s.pc = "report" /\ d.lock = 0
    BY <1>1, TasksAre DEF Lock, LockFree
<1>3. task' = [task EXCEPT ![r] = us] /\ req' = [req EXCEPT ![r] = q]
    BY <1>1 DEF Lock
<1>4. UNCHANGED <<size, dir, listed>> /\ faults' \in 0..MaxFaults
    BY <1>1 DEF Lock
<1>5. i \in Nat /\ i # 0 /\ i \in 0..Len(ts) /\ \A j \in DOMAIN ts : j # 0
    BY <1>1, TasksAre
<1>6. /\ d.op = "upload" /\ UploadOK(s) /\ s.pc \notin Ended
      /\ \A j \in DOMAIN ts : ts[j].pc \notin Held
    BY <1>1, <1>2, <1>5, Holder
<1> HIDE DEF ts, s
<1>7. /\ s.pos <= s.size /\ s.reported <= s.pos /\ s.fd = "none"
      /\ s.offset \in Nat /\ s.size \in Nat /\ s.pos \in Nat
      /\ s.reported \in Nat /\ d.total \in Nat
    BY <1>1, <1>2, <1>6, TaskFields, RequestFields DEF UploadOK
<1>8. sum \in Nat /\ sum = d.total + s.pos - s.reported /\ d.total <= sum
    BY <1>7 DEF Delta
<1> HIDE DEF d, sum
<1>9. /\ q \in Request /\ q.lock = i /\ q.op = d.op /\ q.pc = d.pc
      /\ q.fd = d.fd /\ q.total = d.total
    BY <1>1, <1>5 DEF Request
<1>10. /\ t \in Task /\ t.pc = "open" /\ t.sum = sum /\ t.reported = s.pos
       /\ t.offset = s.offset /\ t.size = s.size /\ t.pos = s.pos
       /\ t.object = s.object /\ t.fd = s.fd
    BY <1>2, <1>7, <1>8 DEF Task, Running
<1> HIDE DEF t, q
<1>11. i \in DOMAIN ts
    BY DEF ts
<1>12. /\ us \in Seq(Task) /\ DOMAIN us = DOMAIN ts
       /\ us[i] = t /\ \A j \in DOMAIN ts \ {i} : us[j] = ts[j]
    BY <1>1, <1>10, <1>11, OneTask
<1>13. us = [ts EXCEPT ![i] = t] /\ s = ts[i]
    BY DEF s
<1> HIDE DEF us
<1>14. UploadOK(t)
    BY <1>2, <1>6, <1>7, <1>10 DEF UploadOK
<1>15. RequestOK(q, us, size)
    <2>1. \A j \in DOMAIN ts : us[j].pc \in Held <=> q.lock = j
        BY <1>6, <1>9, <1>10, <1>12 DEF Held
    <2>2. q.op # "download"
        BY <1>6, <1>9
    <2> QED
        BY <1>1, <1>5, <1>6, <1>9, <1>10, <1>11, <1>13, <1>14, <2>1, <2>2,
           OneTaskKeepsRequest
<1>16. TotalOK(q, us)
    <2>1. Reported(us) = Reported(ts) + us[i].reported - ts[i].reported
        BY <1>1, <1>11, <1>12, ReportedChanges
    <2>2. Reported(ts) = d.total
        BY <1>1, <1>6 DEF TotalOK, Held
    <2>3. Reported(us) = sum
        BY <1>7, <1>8, <1>10, <1>12, <1>13, <2>1, <2>2
    <2>4. \A j \in DOMAIN us : j # i => us[j].pc \notin Held
        BY <1>6, <1>12
    <2> QED
        BY <1>8, <1>9, <1>10, <1>11, <1>12, <2>3, <2>4 DEF TotalOK, Held
<1>17. Alone(r, req) => AloneOK(dir, q, us)
    <2>1. \A j \in DOMAIN us : us[j].pc \notin {"flush", "replace"}
        BY <1>6, <1>10, <1>12 DEF Held
    <2>2. \A j \in DOMAIN ts : ts[j].pc \notin {"flush", "replace"}
        BY <1>6 DEF Held
    <2> QED
        BY <1>1, <1>9, <2>1, <2>2 DEF AloneOK
<1>18. RequestInv(q, us, size)
    <2>1. FileOK(q, us, size)
        BY <1>6, <1>9 DEF FileOK
    <2> QED
        BY <1>15, <1>16, <2>1 DEF RequestInv
<1>19. s.pos <= t.pos
    BY <1>7, <1>10
<1>20. ts = task[r] /\ d = req[r] /\ dir' = dir
    BY <1>4 DEF ts, d
<1> QED
    BY <1>3, <1>4, <1>6, <1>9, <1>10, <1>13, <1>17, <1>18, <1>19, <1>20,
       TaskStepKeeps

\* A task that has reported is done or goes on.
LEMMA AfterReportOK ==
    ASSUME NEW s \in Task, s.pc \in {"open", "replace"}, UploadOK(s), NEW t,
           t = [s EXCEPT !.pc = AfterReport(s)]
    PROVE  /\ t \in Task /\ UploadOK(t) /\ t.pc \in {"done", "send"}
           /\ t.offset = s.offset /\ t.size = s.size /\ t.pos = s.pos
           /\ t.reported = s.reported
<1>1. AfterReport(s) \in {"done", "send"}
    BY DEF AfterReport
<1>2. /\ t.pc = AfterReport(s) /\ t.offset = s.offset /\ t.size = s.size
      /\ t.pos = s.pos /\ t.object = s.object /\ t.reported = s.reported
      /\ t.fd = s.fd
    BY DEF Task
<1>3. t \in Task
    BY <1>1 DEF Task, Running, Ended
<1>4. UploadOK(t)
    <2>1. t.pc = "done" <=> s.pos = s.size
        BY <1>2 DEF AfterReport
    <2>2. s.size <= ChunkSize => s.pos \in {0, s.size}
        BY DEF UploadOK
    <2> QED
        BY <1>1, <1>2, <2>1, <2>2 DEF UploadOK
<1> QED
    BY <1>1, <1>2, <1>3, <1>4

LEMMA KeepsOpen ==
    ASSUME IInv, NEW r \in Requests, NEW i \in DOMAIN task[r], Open(r, i)
    PROVE  IInv'
<1> DEFINE ts == task[r]
           s == ts[i]
           d == req[r]
<1>1. /\ RequestOK(d, ts, size) /\ TotalOK(d, ts)
      /\ d \in Request /\ req \in [Requests -> Request]
      /\ ts \in Seq(Task) /\ task \in [Requests -> Seq(Task)]
      /\ faults \in 0..MaxFaults /\ DirOK(dir, req, task)
      /\ Alone(r, req) => AloneOK(dir, d, ts)
    BY InvGives
<1>2. s \in Task /\ s.pc = "open"
    BY <1>1, TasksAre DEF Open
<1>3. UNCHANGED <<size, listed>> /\ faults' \in 0..MaxFaults
    BY <1>1 DEF Open
<1>4. /\ d.op = "upload" /\ UploadOK(s) /\ s.pc \notin Ended
      /\ \A j \in DOMAIN ts : ts[j].pc \in Held => j = i
      /\ d.lock = i
    BY <1>1, <1>2, Holder DEF Held
<1>5. /\ s.sum = Reported(ts) /\ d.total <= s.sum
      /\ s.sum \in Nat /\ d.total \in Nat
    <2>1. s.sum = Reported(ts) /\ d.total <= Reported(ts)
        BY <1>1, <1>2, <1>4 DEF TotalOK
    <2> HIDE DEF s, d
    <2> QED
        BY <1>1, <1>2, <2>1, TaskFields, RequestFields
<1>6. s.fd = "none" /\ s.pos \in Nat /\ s.pos <= s.pos
    <2> HIDE DEF s
    <2>1. s.fd = "none"
        BY <1>2, <1>4 DEF UploadOK
    <2> QED
        BY <1>2, <2>1, TaskFields
<1>7. CASE dir.there
    <2> DEFINE t == [s EXCEPT !.fd = "tmp", !.pc = "flush"]
               us == [ts EXCEPT ![i] = t]
               q == [d EXCEPT !.total = s.sum]
               e == [dir EXCEPT !.tmp = EMPTY]
    <2>1. /\ task' = [task EXCEPT ![r] = us] /\ req' = [req EXCEPT ![r] = q]
          /\ dir' = e
        BY <1>1, <1>7, ZenonT(60) DEF Open
    <2> HIDE DEF s, d, ts
    <2>2. /\ q \in Request /\ q.lock = d.lock /\ q.op = d.op /\ q.pc = d.pc
          /\ q.fd = d.fd /\ q.total = s.sum
        BY <1>1, <1>5 DEF Request
    <2>3. /\ t \in Task /\ t.pc = "flush" /\ t.fd = "tmp" /\ t.sum = s.sum
          /\ t.reported = s.reported /\ t.offset = s.offset /\ t.size = s.size
          /\ t.pos = s.pos /\ t.object = s.object
        BY <1>2 DEF Task, Running
    <2>4. /\ e \in Directory /\ e.there = dir.there /\ e.upload = dir.upload
          /\ e.progress = dir.progress /\ e.tmp = EMPTY
        BY <1>1 DEF DirOK, Directory, Text
    <2> HIDE DEF q, t, e
    <2>5. i \in DOMAIN ts /\ s = ts[i]
        BY DEF ts, s
    <2>6. /\ us \in Seq(Task) /\ DOMAIN us = DOMAIN ts
          /\ us[i] = t /\ \A j \in DOMAIN ts \ {i} : us[j] = ts[j]
        BY <1>1, <2>3, <2>5, OneTask
    <2>7. us = [ts EXCEPT ![i] = t]
        OBVIOUS
    <2> HIDE DEF us
    <2>8. UploadOK(t)
        BY <1>2, <1>4, <2>3 DEF UploadOK
    <2>9. RequestOK(q, us, size)
        <3>1. \A j \in DOMAIN ts : us[j].pc \in Held <=> q.lock = j
            BY <1>4, <2>2, <2>3, <2>6 DEF Held
        <3>2. q.op # "download" /\ q.lock \in 0..Len(ts)
            BY <1>1, <1>4, <2>2 DEF RequestOK
        <3> QED
            BY <1>1, <1>4, <2>2, <2>3, <2>5, <2>7, <2>8, <3>1, <3>2,
               OneTaskKeepsRequest
    <2>10. TotalOK(q, us)
        <3>1. \A j \in DOMAIN ts : us[j].reported = ts[j].reported
            BY <2>3, <2>5, <2>6
        <3>2. Reported(us) = Reported(ts)
            BY <1>1, <2>6, <3>1, ReportedSame
        <3>3. \A j \in DOMAIN us : us[j].pc # "open"
                                   /\ (us[j].pc = "flush" => j = i)
            BY <1>4, <2>3, <2>6 DEF Held
        <3> QED
            BY <1>5, <2>2, <2>3, <2>6, <3>2, <3>3 DEF TotalOK
    <2>11. RequestInv(q, us, size)
        <3>1. FileOK(q, us, size)
            BY <1>4, <2>2 DEF FileOK
        <3> QED
            BY <2>9, <2>10, <3>1 DEF RequestInv
    <2>12. Alone(r, req) => AloneOK(e, q, us)
        <3>1. \A j \in DOMAIN us : us[j].pc \in {"flush", "replace"} => j = i
            BY <1>4, <2>6 DEF Held
        <3>2. ASSUME AloneOK(dir, d, ts), dir.upload
              PROVE  /\ dir.progress \in Nat \cup {ABSENT}
                     /\ dir.progress \in Nat => dir.progress <= s.sum
            BY <1>5, <3>2 DEF AloneOK
        <3>3. us[i].pc = "flush" /\ us[i].fd = "tmp" /\ i \in DOMAIN us
            BY <2>3, <2>5, <2>6
        <3> QED
            BY <1>1, <2>2, <2>4, <3>1, <3>2, <3>3 DEF AloneOK
    <2>13. TextOK(e.progress, task) /\ TextOK(e.tmp, task)
        BY <1>1, <2>4 DEF DirOK, TextOK
    <2>14. ts = task[r] /\ d = req[r]
        BY DEF ts, d
    <2>15. \/ e = dir
           \/ /\ e \in Directory /\ e.there = dir.there
              /\ e.upload = dir.upload
              /\ TextOK(e.progress, task) /\ TextOK(e.tmp, task)
              /\ q.op = "upload"
        BY <1>4, <2>2, <2>4, <2>13
    <2>16. /\ task[r][i].pc \notin Ended /\ task[r][i].pos <= t.pos
           /\ us = [task[r] EXCEPT ![i] = t]
           /\ q.op = req[r].op /\ q.pc = req[r].pc
        BY <1>4, <1>6, <2>2, <2>3, <2>5, <2>7, <2>14
    <2>17. t \in Task /\ q \in Request
        BY <2>2, <2>3
    <2> QED
        BY <1>3, <2>1, <2>11, <2>12, <2>15, <2>16, <2>17, TaskStepKeeps
<1>8. CASE ~dir.there
    <2> DEFINE t == [s EXCEPT !.pc = AfterReport(s)]
               us == [ts EXCEPT ![i] = t]
               q == [d EXCEPT !.total = s.sum, !.lock = 0]
    <2>1. /\ task' = [task EXCEPT ![r] = us] /\ req' = [req EXCEPT ![r] = q]
          /\ dir' = dir
        BY <1>1, <1>8 DEF Open
    <2> HIDE DEF s, d, ts
    <2>2. /\ q \in Request /\ q.lock = 0 /\ q.op = d.op /\ q.pc = d.pc
          /\ q.fd = d.fd /\ q.total = s.sum
        BY <1>1, <1>5 DEF Request
    <2>3. /\ t \in Task /\ UploadOK(t) /\ t.pc \in {"done", "send"}
          /\ t.offset = s.offset /\ t.size = s.size /\ t.pos = s.pos
          /\ t.reported = s.reported
        BY <1>2, <1>4, AfterReportOK
    <2> HIDE DEF q, t
    <2>5. i \in DOMAIN ts /\ s = ts[i]
        BY DEF ts, s
    <2>6. /\ us \in Seq(Task) /\ DOMAIN us = DOMAIN ts
          /\ us[i] = t /\ \A j \in DOMAIN ts \ {i} : us[j] = ts[j]
        BY <1>1, <2>3, <2>5, OneTask
    <2>7. us = [ts EXCEPT ![i] = t]
        OBVIOUS
    <2> HIDE DEF us
    <2>8. \A j \in DOMAIN us : us[j].pc \notin Held
        BY <1>4, <2>3, <2>6 DEF Held
    <2>9. RequestOK(q, us, size)
        <3>1. Len(ts) \in Nat /\ 0 \in 0..Len(ts) /\ \A j \in DOMAIN ts : j # 0
            BY <1>1, TasksAre
        <3>2. \A j \in DOMAIN ts : us[j].pc \in Held <=> q.lock = j
            BY <2>2, <2>6, <2>8, <3>1
        <3>3. q.op # "download" /\ q.lock \in 0..Len(ts)
            BY <1>4, <2>2, <3>1
        <3> QED
            BY <1>1, <1>4, <2>2, <2>3, <2>5, <2>7, <3>2, <3>3,
               OneTaskKeepsRequest, ZenonT(60)
    <2>10. TotalOK(q, us)
        <3>1. \A j \in DOMAIN ts : us[j].reported = ts[j].reported
            BY <2>3, <2>5, <2>6
        <3>2. Reported(us) = Reported(ts)
            BY <1>1, <2>6, <3>1, ReportedSame
        <3> QED
            BY <1>5, <2>2, <2>8, <3>2 DEF TotalOK, Held
    <2>11. RequestInv(q, us, size)
        <3>1. FileOK(q, us, size)
            BY <1>4, <2>2 DEF FileOK
        <3> QED
            BY <2>9, <2>10, <3>1 DEF RequestInv
    <2>12. AloneOK(dir, q, us)
        BY <1>1, <1>8 DEF DirOK, AloneOK
    <2>13. ts = task[r] /\ d = req[r]
        BY DEF ts, d
    <2> QED
        BY <1>3, <1>4, <1>6, <2>1, <2>2, <2>3, <2>5, <2>7, <2>11, <2>12,
           <2>13, TaskStepKeeps
<1> QED
    BY <1>7, <1>8

LEMMA KeepsFlush ==
    ASSUME IInv, NEW r \in Requests, NEW i \in DOMAIN task[r], Flush(r, i)
    PROVE  IInv'
<1> DEFINE ts == task[r]
           s == ts[i]
           d == req[r]
           t == [s EXCEPT !.fd = "none", !.pc = "replace"]
           us == [ts EXCEPT ![i] = t]
           e == dir'
<1>1. /\ RequestOK(d, ts, size) /\ TotalOK(d, ts)
      /\ d \in Request /\ req \in [Requests -> Request]
      /\ ts \in Seq(Task) /\ task \in [Requests -> Seq(Task)]
      /\ faults \in 0..MaxFaults /\ DirOK(dir, req, task)
      /\ Alone(r, req) => AloneOK(dir, d, ts)
    BY InvGives
<1>2. s \in Task /\ s.pc = "flush"
    BY <1>1, TasksAre DEF Flush
<1>3. /\ UNCHANGED <<size, listed>> /\ faults' \in 0..MaxFaults
      /\ task' = [task EXCEPT ![r] = us] /\ req' = [req EXCEPT ![r] = d]
    BY <1>1 DEF Flush
<1>4. /\ d.op = "upload" /\ UploadOK(s) /\ s.pc \notin Ended
      /\ \A j \in DOMAIN ts : ts[j].pc \in Held => j = i
      /\ d.lock = i
    BY <1>1, <1>2, Holder DEF Held
<1>5. /\ s.sum = d.total /\ d.total <= Reported(ts) /\ s.sum \in Nat
    <2>1. s.sum = d.total /\ d.total <= Reported(ts)
        BY <1>1, <1>2, <1>4 DEF TotalOK
    <2> HIDE DEF s, d
    <2> QED
        BY <1>1, <1>2, <2>1, TaskFields, RequestFields
<1>6. s.pos \in Nat /\ s.pos <= s.pos
    <2> HIDE DEF s
    <2> QED
        BY <1>2, TaskFields
<1>7. \A x \in {s.sum, GARBLED} : x \in Text /\ TextOK(x, task)
    <2>1. Reported(ts) <= Sent(ts)
        <3>1. \A j \in DOMAIN ts : ts[j].reported <= ts[j].pos
            BY <1>1, <1>4 DEF RequestOK, UploadOK
        <3> QED
            BY <1>1, <3>1, ReportedWasSent
    <2>2. Sent(ts) \in Nat /\ Reported(ts) \in Nat
        BY <1>1, SumsAreNat
    <2>3. s.sum <= Sent(task[r])
        BY <1>5, <2>1, <2>2
    <2> QED
        BY <1>5, <2>3 DEF TextOK, Text
<1>8. /\ e \in Directory /\ e.there = dir.there /\ e.upload = dir.upload
      /\ TextOK(e.progress, task) /\ TextOK(e.tmp, task)
      /\ s.fd = "tmp" /\ dir.tmp = EMPTY =>
            e.progress = dir.progress /\ e.tmp = s.sum
    <2> DEFINE over(c) == IF c = EMPTY THEN {s.sum} ELSE {s.sum, GARBLED}
    <2>1. /\ dir \in Directory
          /\ TextOK(dir.progress, task) /\ TextOK(dir.tmp, task)
        BY <1>1 DEF DirOK
    <2>2. CASE s.fd = "tmp"
        <3>1. PICK x \in over(dir.tmp) : dir' = [dir EXCEPT !.tmp = x]
            BY <2>2 DEF Flush
        <3>2. x \in Text /\ TextOK(x, task) /\ (dir.tmp = EMPTY => x = s.sum)
            BY <1>7, <3>1
        <3>3. /\ e \in Directory /\ e.there = dir.there /\ e.upload = dir.upload
              /\ e.progress = dir.progress /\ e.tmp = x
            BY <2>1, <3>1, <3>2 DEF Directory
        <3> HIDE DEF e
        <3> QED
            BY <2>1, <3>2, <3>3
    <2>3. CASE s.fd = "progress"
        <3>1. PICK x \in over(dir.progress) :
                 dir' = [dir EXCEPT !.progress = x]
            BY <2>3 DEF Flush
        <3>2. x \in Text /\ TextOK(x, task)
            BY <1>7, <3>1
        <3>3. /\ e \in Directory /\ e.there = dir.there /\ e.upload = dir.upload
              /\ e.progress = x /\ e.tmp = dir.tmp
            BY <2>1, <3>1, <3>2 DEF Directory
        <3> HIDE DEF e
        <3> QED
            BY <2>1, <2>3, <3>2, <3>3
    <2>4. CASE s.fd \notin {"tmp", "progress"}
        <3>1. e = dir
            BY <2>4 DEF Flush
        <3> HIDE DEF e
        <3> QED
            BY <2>1, <2>4, <3>1
    <2> QED
        BY <2>2, <2>3, <2>4
<1> HIDE DEF s, d, ts
<1>9. /\ t \in Task /\ t.pc = "replace" /\ t.fd = "none" /\ t.sum = s.sum
      /\ t.reported = s.reported /\ t.offset = s.offset /\ t.size = s.size
      /\ t.pos = s.pos /\ t.object = s.object
    BY <1>2 DEF Task, Running
<1> HIDE DEF t
<1>10. i \in DOMAIN ts /\ s = ts[i]
    BY DEF ts, s
<1>11. /\ us \in Seq(Task) /\ DOMAIN us = DOMAIN ts
       /\ us[i] = t /\ \A j \in DOMAIN ts \ {i} : us[j] = ts[j]
    BY <1>1, <1>9, <1>10, OneTask
<1>12. us = [ts EXCEPT ![i] = t]
    OBVIOUS
<1> HIDE DEF us
<1>13. UploadOK(t)
    BY <1>2, <1>4, <1>9 DEF UploadOK
<1>14. RequestOK(d, us, size)
    <2>1. \A j \in DOMAIN ts : us[j].pc \in Held <=> d.lock = j
        BY <1>4, <1>9, <1>11 DEF Held
    <2>2. d.op # "download" /\ d.lock \in 0..Len(ts)
        BY <1>1, <1>4 DEF RequestOK
    <2> QED
        BY <1>1, <1>4, <1>9, <1>10, <1>12, <1>13, <2>1, <2>2,
           OneTaskKeepsRequest
<1>15. TotalOK(d, us)
    BY <1>1, <1>2, <1>9, <1>10, <1>12, OneTaskKeepsTotal
<1>16. RequestInv(d, us, size)
    <2>1. FileOK(d, us, size)
        BY <1>4 DEF FileOK
    <2> QED
        BY <1>14, <1>15, <2>1 DEF RequestInv
<1> HIDE DEF e
<1>17. Alone(r, req) => AloneOK(e, d, us)
    <2>1. \A j \in DOMAIN us : us[j].pc \in {"flush", "replace"} => j = i
        BY <1>4, <1>11 DEF Held
    <2>2. ASSUME AloneOK(dir, d, ts), dir.upload
          PROVE  /\ dir.progress \in Nat \cup {ABSENT}
                 /\ dir.progress \in Nat => dir.progress <= d.total
                 /\ s.fd = "tmp" /\ dir.tmp = EMPTY
        BY <1>2, <1>10, <2>2 DEF AloneOK
    <2>3. us[i].pc = "replace" /\ i \in DOMAIN us
        BY <1>9, <1>10, <1>11
    <2> QED
        BY <1>1, <1>5, <1>8, <2>1, <2>2, <2>3 DEF AloneOK
<1>18. dir' = e
    BY DEF e
<1>19. ts = task[r] /\ d = req[r]
    BY DEF ts, d
<1>20. \/ e = dir
       \/ /\ e \in Directory /\ e.there = dir.there /\ e.upload = dir.upload
          /\ TextOK(e.progress, task) /\ TextOK(e.tmp, task)
          /\ d.op = "upload"
    BY <1>4, <1>8
<1>21. task[r][i].pc \notin Ended /\ task[r][i].pos <= t.pos
    BY <1>4, <1>6, <1>9, <1>10, <1>19
<1> QED
    BY <1>1, <1>3, <1>9, <1>12, <1>16, <1>17, <1>18, <1>19, <1>20, <1>21,
       TaskStepKeeps

LEMMA KeepsReplace ==
    ASSUME IInv, NEW r \in Requests, NEW i \in DOMAIN task[r], Replace(r, i)
    PROVE  IInv'
<1> DEFINE ts == task[r]
           s == ts[i]
           d == req[r]
           t == [s EXCEPT !.pc = AfterReport(s)]
           us == [ts EXCEPT ![i] = t]
           q == [d EXCEPT !.lock = 0]
           next == [task EXCEPT ![r] = us]
           moved == [tmp |-> "progress", progress |-> "gone"]
<1>1. /\ RequestOK(d, ts, size) /\ TotalOK(d, ts)
      /\ d \in Request /\ req \in [Requests -> Request]
      /\ ts \in Seq(Task) /\ task \in [Requests -> Seq(Task)]
      /\ \A v \in Requests : RequestInv(req[v], task[v], size)
      /\ faults \in 0..MaxFaults /\ DirOK(dir, req, task)
      /\ ListedOK(listed, size)
      /\ Alone(r, req) => AloneOK(dir, d, ts)
    BY InvGives
<1>2. s \in Task /\ s.pc = "replace"
    BY <1>1, TasksAre DEF Replace
<1>3. /\ UNCHANGED <<size, listed>> /\ faults' \in 0..MaxFaults
      /\ req' = [req EXCEPT ![r] = q]
    BY <1>1 DEF Replace
<1>4. /\ IF dir.tmp = ABSENT THEN task' = next /\ dir' = dir
         ELSE /\ dir' = [dir EXCEPT !.progress = dir.tmp, !.tmp = ABSENT]
              /\ task' = Redirected(next, moved)
    BY <1>1 DEF Replace
<1>5. /\ d.op = "upload" /\ UploadOK(s) /\ s.pc \notin Ended
      /\ \A j \in DOMAIN ts : ts[j].pc \in Held => j = i
      /\ d.lock = i
    BY <1>1, <1>2, Holder DEF Held
<1>6. s.pos \in Nat /\ s.pos <= s.pos /\ d.total \in Nat
    <2> HIDE DEF s, d
    <2> QED
        BY <1>1, <1>2, TaskFields, RequestFields
<1> HIDE DEF s, d, ts
<1>7. /\ q \in Request /\ q.lock = 0 /\ q.op = d.op /\ q.pc = d.pc
      /\ q.fd = d.fd /\ q.total = d.total
    BY <1>1 DEF Request
<1>8. /\ t \in Task /\ UploadOK(t) /\ t.pc \in {"done", "send"}
      /\ t.offset = s.offset /\ t.size = s.size /\ t.pos = s.pos
      /\ t.reported = s.reported
    BY <1>2, <1>5, AfterReportOK
<1> HIDE DEF q, t
<1>9. i \in DOMAIN ts /\ s = ts[i]
    BY DEF ts, s
<1>10. /\ us \in Seq(Task) /\ DOMAIN us = DOMAIN ts
       /\ us[i] = t /\ \A j \in DOMAIN ts \ {i} : us[j] = ts[j]
    BY <1>1, <1>8, <1>9, OneTask
<1>11. us = [ts EXCEPT ![i] = t]
    OBVIOUS
<1> HIDE DEF us
<1>12. \A j \in DOMAIN us : us[j].pc \notin Held
    BY <1>5, <1>8, <1>10 DEF Held
<1>13. RequestInv(q, us, size)
    <2>1. Len(ts) \in Nat /\ 0 \in 0..Len(ts) /\ \A j \in DOMAIN ts : j # 0
        BY <1>1, TasksAre
    <2>2. \A j \in DOMAIN ts : us[j].pc \in Held <=> q.lock = j
        BY <1>7, <1>10, <1>12, <2>1
    <2>3. q.op # "download" /\ q.lock \in 0..Len(ts)
        BY <1>5, <1>7, <2>1
    <2>4. RequestOK(q, us, size)
        BY <1>1, <1>5, <1>7, <1>8, <1>9, <1>11, <2>2, <2>3,
           OneTaskKeepsRequest, ZenonT(60)
    <2>5. TotalOK(q, us)
        <3>1. t.pc # "open" /\ t.pc # "flush" /\ ts[i].pc # "open"
            BY <1>2, <1>8, <1>9
        <3> QED
            BY <1>1, <1>7, <1>8, <1>9, <1>11, <3>1, OneTaskKeepsTotal
    <2>6. FileOK(q, us, size)
        BY <2>3 DEF FileOK
    <2> QED
        BY <2>4, <2>5, <2>6 DEF RequestInv
<1>14. ts = task[r] /\ d = req[r]
    BY DEF ts, d
<1>15. CASE dir.tmp = ABSENT
    <2>1. task' = [task EXCEPT ![r] = us] /\ dir' = dir
        BY <1>4, <1>15
    <2>2. Alone(r, req) => AloneOK(dir, q, us)
        <3>1. ASSUME AloneOK(dir, d, ts), dir.upload
              PROVE  FALSE
            <4>1. dir.tmp = d.total
                BY <1>2, <1>9, <3>1 DEF AloneOK
            <4> QED
                BY <1>6, <1>15, <4>1, NothingAssumption
        <3> QED
            BY <1>1, <3>1 DEF AloneOK
    <2>3. task[r][i].pc \notin Ended /\ task[r][i].pos <= t.pos
        BY <1>5, <1>6, <1>8, <1>9, <1>14
    <2> QED
        BY <1>3, <1>7, <1>8, <1>11, <1>13, <1>14, <2>1, <2>2, <2>3,
           TaskStepKeeps
<1>16. CASE dir.tmp # ABSENT
    <2> DEFINE e == dir'
               more == task'
               p == req'
    <2>1. e = [dir EXCEPT !.progress = dir.tmp, !.tmp = ABSENT]
          /\ more = Redirected(next, moved)
        BY <1>4, <1>16
    <2>2. /\ dir \in Directory
          /\ TextOK(dir.progress, task) /\ TextOK(dir.tmp, task)
        BY <1>1 DEF DirOK
    <2>3. /\ e \in Directory /\ e.there = dir.there /\ e.upload = dir.upload
          /\ e.progress = dir.tmp /\ e.tmp = ABSENT
        BY <2>1, <2>2 DEF Directory, Text
    <2>4. /\ next \in [Requests -> Seq(Task)] /\ next[r] = us
          /\ \A v \in Requests \ {r} : next[v] = task[v]
        BY <1>1, <1>10
    <2>5. /\ p \in [Requests -> Request] /\ p[r] = q
          /\ \A v \in Requests \ {r} : p[v] = req[v]
        BY <1>1, <1>3, <1>7
    <2> HIDE DEF next, e, p
    <2>6. \A v \in Requests : Follow(next[v], more[v])
        <3>1. /\ DOMAIN moved \in SUBSET {"tmp", "progress"}
              /\ \A x \in DOMAIN moved : moved[x] \in {"progress", "gone"}
            OBVIOUS
        <3> HIDE DEF moved
        <3> QED
            BY <2>1, <2>4, <3>1, RedirectedFollow
    <2>7. more \in [Requests -> Seq(Task)]
        <3>1. more = [v \in Requests |-> more[v]]
            BY <2>1 DEF Redirected
        <3>2. \A v \in Requests : more[v] \in Seq(Task)
            BY <2>6 DEF Follow
        <3> HIDE DEF more
        <3> QED
            BY <3>1, <3>2
    <2> HIDE DEF more
    <2>8. \A v \in Requests : RequestInv(p[v], next[v], size)
        BY <1>1, <1>13, <2>4, <2>5
    <2>9. \A v \in Requests : RequestInv(p[v], more[v], size)
        BY <2>4, <2>6, <2>8, FollowKeeps
    <2>10. \A v \in Requests : Further(task[v], more[v])
        <3>1. ASSUME NEW v \in Requests
              PROVE  Further(task[v], next[v])
            <4>1. CASE v = r
                <5>1. \A j \in DOMAIN ts : us[j].pos = ts[j].pos
                    BY <1>8, <1>9, <1>10
                <5>2. \A j \in DOMAIN ts : ts[j].pos <= ts[j].pos
                    BY <1>1, FurtherItself DEF Further
                <5> QED
                    BY <1>10, <1>14, <2>4, <4>1, <5>1, <5>2 DEF Further
            <4>2. CASE v # r
                BY <1>1, <2>4, <4>2, FurtherItself
            <4> QED
                BY <4>1, <4>2
        <3>2. \A v \in Requests : task[v] \in Seq(Task) /\ next[v] \in Seq(Task)
            BY <1>1, <2>4
        <3> QED
            BY <2>6, <3>1, <3>2, FollowAfter
    <2>11. TextOK(e.progress, more) /\ TextOK(e.tmp, more)
        <3>1. TextOK(e.progress, more)
            BY <1>1, <2>2, <2>3, <2>7, <2>10, TextStays DEF AllFurther
        <3> QED
            BY <2>3, <3>1 DEF TextOK
    <2>12. \A v \in Requests : p[v].op = req[v].op /\ p[v].pc = req[v].pc
        BY <1>7, <1>14, <2>5
    <2>13. req[r].op = "upload" /\ req[r].pc = "tasks"
        BY <1>1, <1>5, <1>9, <1>14, Busy
    <2>14. \E v \in Requests : req[v].op = "upload" /\ req[v].pc = "tasks"
        BY <2>13
    <2>15. DirOK(e, p, more)
        <3>1. DirOK(dir, req, task) /\ task \in [Requests -> Seq(Task)]
            BY <1>1
        <3>2. AllFurther(task, more) /\ SamePlaces(req, p)
            BY <2>10, <2>12 DEF AllFurther, SamePlaces
        <3>3. Rewritten(dir, e, more) /\ Uploading(req)
            BY <2>3, <2>11, <2>14 DEF Rewritten, Uploading
        <3> QED
            BY ONLY <2>7, <3>1, <3>2, <3>3, DirStays
    <2>16. Alone(r, p) => AloneOK(e, p[r], more[r])
        <3>1. Alone(r, p) => Alone(r, req)
            BY <2>12 DEF Alone
        <3>2. \A j \in DOMAIN more[r] : more[r][j].pc \notin Held
            BY <1>12, <2>4, <2>6, ZenonT(60) DEF Follow, Renamed
        <3>3. ASSUME AloneOK(dir, d, ts), dir.upload
              PROVE  dir.tmp = d.total
            BY <1>2, <1>9, <3>3 DEF AloneOK
        <3>4. ASSUME AloneOK(dir, d, ts)
              PROVE  AloneOK(e, p[r], more[r])
            <4>1. ASSUME e.upload
                  PROVE  /\ e.progress \in Nat /\ e.progress <= p[r].total
                         /\ e.tmp = ABSENT
                BY <1>6, <1>7, <2>3, <2>5, <3>3, <3>4, <4>1
            <4> QED
                BY <3>2, <4>1 DEF AloneOK, Held
        <3> QED
            BY <1>1, <3>1, <3>4
    <2>17. e = dir' /\ more = task' /\ p = req'
        BY DEF e, more, p
    <2>18. p[r].op # "idle"
        BY <2>12, <2>13
    <2>19. ListedOK(listed', size)
        BY <1>1, <1>3
    <2> QED
        BY <1>3, <2>5, <2>7, <2>9, <2>15, <2>16, <2>17, <2>18, <2>19, StepKeeps
<1> QED
    BY <1>15, <1>16

-----------------------------------------------------------------------------
(* Requests that begin.                                                    *)

LEMMA NothingSent ==
    <<>> \in Seq(Task) /\ DOMAIN <<>> = {} /\ Sent(<<>>) = 0
<1>1. <<>> \in Seq(Task)
    BY EmptySeq
<1>2. DOMAIN <<>> = {}
    OBVIOUS
<1>3. SumOver([i \in DOMAIN <<>> |-> <<>>[i].pos], {}) = 0
    BY SumEmpty
<1> QED
    BY <1>1, <1>2, <1>3 DEF Sent

\* Request r begins as q, with the tasks us.
LEMMA BeginKeeps ==
    ASSUME NEW r \in Requests, NEW us \in Seq(Task), NEW q \in Request,
           IInv, req[r].op = "idle", q.op \in {"upload", "download"},
           q.op = "upload" => dir.upload, q.pc = "tasks", q.total = 0,
           RequestInv(q, us, size), \A i \in DOMAIN us : us[i].pc = "queued",
           UNCHANGED <<size, dir, listed, faults>>,
           req' = [req EXCEPT ![r] = q], task' = [task EXCEPT ![r] = us]
    PROVE  IInv'
<1> DEFINE p == req'
           more == task'
<1>1. /\ req \in [Requests -> Request] /\ task \in [Requests -> Seq(Task)]
      /\ \A v \in Requests : RequestInv(req[v], task[v], size)
      /\ RequestOK(req[r], task[r], size)
      /\ faults \in 0..MaxFaults /\ ListedOK(listed, size)
      /\ DirOK(dir, req, task)
      /\ Alone(r, req) => AloneOK(dir, req[r], task[r])
    BY InvGives
<1>2. req[r] = NoRequest /\ task[r] = <<>>
    BY <1>1 DEF RequestOK
<1>3. /\ p \in [Requests -> Request] /\ p[r] = q
      /\ \A v \in Requests \ {r} : p[v] = req[v]
    BY <1>1
<1>4. /\ more \in [Requests -> Seq(Task)] /\ more[r] = us
      /\ \A v \in Requests \ {r} : more[v] = task[v]
    BY <1>1
<1>5. p = req' /\ more = task'
    OBVIOUS
<1> HIDE DEF p, more
<1>6. \A v \in Requests : RequestInv(p[v], more[v], size)
    BY <1>1, <1>3, <1>4
<1>7. \A v \in Requests : Sent(task[v]) <= Sent(more[v])
    <2>1. Sent(us) \in Nat /\ \A v \in Requests : Sent(task[v]) \in Nat
        BY <1>1, SumsAreNat
    <2>2. Sent(task[r]) <= Sent(more[r])
        BY <1>2, <1>4, <2>1, NothingSent
    <2>3. \A v \in Requests : Sent(task[v]) <= Sent(task[v])
        BY <2>1
    <2> QED
        BY <1>4, <2>2, <2>3
<1>8. DirOK(dir, p, more)
    <2>1. TextOK(dir.progress, more) /\ TextOK(dir.tmp, more)
        BY <1>1, <1>4, <1>7, TextReached DEF DirOK
    <2>2. req[r].op # "upload"
        OBVIOUS
    <2>3. \A v \in Requests :
             p[v].op = "upload"
             /\ p[v].pc \in {"rm_progress", "rm_tmp", "rm_dir", "ok"}
                 => ~dir.upload
        BY <1>1, <1>3, ZenonT(60) DEF DirOK
    <2>4. \A v \in Requests : req[v].op = "upload" => p[v] = req[v]
        BY <1>3, <2>2
    <2>5. /\ dir.progress # ABSENT => \E v \in Requests :
                /\ p[v].op = "upload"
                /\ p[v].pc \in {"tasks", "rm_upload", "rm_progress", "error"}
          /\ dir.tmp # ABSENT => \E v \in Requests :
                /\ p[v].op = "upload"
                /\ p[v].pc \in {"tasks", "rm_upload", "rm_progress", "rm_tmp",
                                "error"}
        <3>1. /\ dir.progress # ABSENT => \E v \in Requests :
                    /\ req[v].op = "upload"
                    /\ req[v].pc \in {"tasks", "rm_upload", "rm_progress",
                                      "error"}
              /\ dir.tmp # ABSENT => \E v \in Requests :
                    /\ req[v].op = "upload"
                    /\ req[v].pc \in {"tasks", "rm_upload", "rm_progress",
                                      "rm_tmp", "error"}
            BY <1>1 DEF DirOK
        <3> QED
            BY <2>4, <3>1
    <2>6. dir.there /\ (\E v \in Requests : p[v].op = "upload") =>
             \E v \in Requests : p[v].op = "upload" /\ p[v].pc # "ok"
        <3>1. CASE q.op = "upload"
            BY <1>3, <3>1
        <3>2. CASE q.op # "upload"
            <4>1. dir.there /\ (\E v \in Requests : req[v].op = "upload") =>
                     \E v \in Requests : req[v].op = "upload" /\ req[v].pc # "ok"
                BY <1>1 DEF DirOK
            <4>2. \A v \in Requests : p[v].op = "upload" => req[v].op = "upload"
                BY <1>3, <3>2
            <4> QED
                BY <2>4, <4>1, <4>2
        <3> QED
            BY <3>1, <3>2
    <2>7. dir \in Directory /\ (dir.upload => dir.there)
        BY <1>1 DEF DirOK
    <2> QED
        BY <2>1, <2>3, <2>5, <2>6, <2>7 DEF DirOK
<1>9. Alone(r, p) => AloneOK(dir, p[r], more[r])
    <2>1. Alone(r, p) => Alone(r, req)
        BY <1>3 DEF Alone
    <2>2. req[r].total = 0 /\ DOMAIN task[r] = {}
        BY <1>2 DEF NoRequest
    <2> QED
        BY <1>1, <1>3, <1>4, <2>1, <2>2 DEF AloneOK
<1>10. p[r].op # "idle"
    BY <1>3
<1>11. ListedOK(listed', size) /\ faults' \in 0..MaxFaults /\ dir' = dir
    BY <1>1
<1> QED
    BY <1>3, <1>4, <1>5, <1>6, <1>8, <1>9, <1>10, <1>11, StepKeeps

LEMMA NewTaskOK ==
    ASSUME NEW part, part.offset \in Nat, part.size \in Nat, NEW t,
           t = NewTask(part)
    PROVE  /\ t \in Task /\ UploadOK(t) /\ t.pc = "queued"
           /\ t.offset = part.offset /\ t.size = part.size /\ t.pos = 0
           /\ t.reported = 0 /\ t.sum = 0 /\ t.fd = "none" /\ t.object = <<>>
<1>1. /\ t.pc = "queued" /\ t.offset = part.offset /\ t.size = part.size
      /\ t.pos = 0 /\ t.object = <<>> /\ t.reported = 0 /\ t.sum = 0
      /\ t.fd = "none"
    BY DEF NewTask
<1>2. <<>> \in Seq(Nat)
    BY EmptySeq
<1>3. t \in Task
    BY <1>2 DEF NewTask, Task
<1>4. Bytes(t.offset, 0) = <<>>
    <2> DEFINE a == t.offset
    <2>1. a \in Nat
        BY <1>1
    <2> HIDE DEF a
    <2>2. Bytes(a, 0) \in Seq(Nat) /\ Len(Bytes(a, 0)) = 0
        BY <2>1, BytesType
    <2>3. Bytes(a, 0) = <<>>
        BY <1>2, <2>2, SeqEqual
    <2> QED
        BY <2>3 DEF a
<1>5. UploadOK(t)
    BY <1>1, <1>4 DEF UploadOK
<1> QED
    BY <1>1, <1>3, <1>5

LEMMA KeepsStartUpload ==
    ASSUME IInv, NEW r \in Requests, StartUpload(r)
    PROVE  IInv'
<1>1. PICK plan \in PlansOf[size] :
         task' = [task EXCEPT ![r] = [i \in 1..Len(plan) |-> NewTask(plan[i])]]
    BY DEF StartUpload
<1> DEFINE us == [i \in 1..Len(plan) |-> NewTask(plan[i])]
           q == [NoRequest EXCEPT !.op = "upload", !.pc = "tasks",
                                  !.fd = "open"]
<1>2. /\ task' = [task EXCEPT ![r] = us] /\ req' = [req EXCEPT ![r] = q]
      /\ UNCHANGED <<size, dir, listed, faults>>
      /\ req[r].op = "idle" /\ dir.upload
    BY <1>1 DEF StartUpload
<1>3. size \in DOMAIN PlansOf
    BY InvGives
<1>4. plan \in Seq(Part) /\ Len(plan) \in Nat /\ DOMAIN plan = 1..Len(plan)
      /\ \A i \in 1..Len(plan) : plan[i] \in Part
    BY <1>3, PlansAssumption, LenProperties
<1>5. \A i \in 1..Len(plan) :
         /\ us[i] \in Task /\ UploadOK(us[i]) /\ us[i].pc = "queued"
         /\ us[i].offset = plan[i].offset /\ us[i].size = plan[i].size
         /\ us[i].reported = 0 /\ us[i].pos = 0
    <2> SUFFICES ASSUME NEW i \in 1..Len(plan)
                 PROVE  /\ us[i] \in Task /\ UploadOK(us[i])
                        /\ us[i].pc = "queued"
                        /\ us[i].offset = plan[i].offset
                        /\ us[i].size = plan[i].size
                        /\ us[i].reported = 0 /\ us[i].pos = 0
        OBVIOUS
    <2>1. us[i] = NewTask(plan[i])
        OBVIOUS
    <2>2. plan[i].offset \in Nat /\ plan[i].size \in Nat
        BY <1>4 DEF Part
    <2> HIDE DEF us
    <2> QED
        BY <2>1, <2>2, NewTaskOK
<1>6. us \in Seq(Task) /\ DOMAIN us = 1..Len(plan) /\ Len(us) = Len(plan)
    <2>1. us \in [1..Len(plan) -> Task]
        BY <1>5
    <2>2. us \in Seq(Task)
        BY <1>4, <2>1, SeqDef
    <2>3. DOMAIN us = 1..Len(plan)
        OBVIOUS
    <2> HIDE DEF us
    <2>4. Len(us) = Len(plan)
        BY <1>4, <2>2, <2>3, LenProperties
    <2> QED
        BY <2>2, <2>3, <2>4
<1>7. /\ q.op = "upload" /\ q.pc = "tasks" /\ q.fd = "open" /\ q.lock = 0
      /\ q.total = 0 /\ q.file = <<>> /\ q \in Request
    BY DEF NoRequest, Request, Files
<1> HIDE DEF us, q
<1>8. Planned(us, size)
    BY <1>4, <1>5, <1>6 DEF Planned, Fits
<1>9. RequestOK(q, us, size)
    <2>1. \A i \in DOMAIN us : UploadOK(us[i]) /\ us[i].pc = "queued"
        BY <1>5, <1>6
    <2>2. 0 \in 0..Len(us) /\ \A i \in DOMAIN us : i # 0
        BY <1>4, <1>6
    <2>3. \A i \in DOMAIN us : us[i].pc \in Held <=> q.lock = i
        BY <1>7, <2>1, <2>2 DEF Held
    <2> QED
        BY <1>6, <1>7, <1>8, <2>1, <2>2, <2>3 DEF RequestOK
<1>10. Reported(us) = 0
    <2> DEFINE S == DOMAIN us
               f == [i \in S |-> us[i].reported]
    <2>1. IsFiniteSet(S) /\ {} \in SUBSET S
        BY <1>6, TasksAre
    <2>2. /\ \A i \in S : f[i] \in Int
          /\ \A i \in S \ {} : f[i] = 0
        BY <1>5, <1>6
    <2>3. SumOver(f, S) = SumOver(f, {})
        <3> HIDE DEF f, S
        <3> QED
            BY <2>1, <2>2, SumOfRest
    <2> QED
        BY <2>3, SumEmpty DEF Reported
<1>11. RequestInv(q, us, size)
    <2>1. \A i \in DOMAIN us : us[i].pc # "open" /\ us[i].pc # "flush"
        BY <1>5, <1>6
    <2>2. TotalOK(q, us)
        BY <1>7, <1>10, <2>1 DEF TotalOK
    <2>3. FileOK(q, us, size)
        BY <1>7 DEF FileOK
    <2> QED
        BY <1>9, <2>2, <2>3 DEF RequestInv
<1>12. \A i \in DOMAIN us : us[i].pc = "queued"
    BY <1>5, <1>6
<1> QED
    BY <1>2, <1>6, <1>7, <1>11, <1>12, BeginKeeps

LEMMA KeepsStartDownload ==
    ASSUME IInv, NEW r \in Requests, StartDownload(r)
    PROVE  IInv'
<1> DEFINE f == [p \in 0..(size-1) |-> ABSENT]
           q == [NoRequest EXCEPT !.op = "download", !.pc = "tasks",
                                  !.fd = "open", !.file = f]
<1>1. /\ task' = [task EXCEPT ![r] = listed] /\ req' = [req EXCEPT ![r] = q]
      /\ UNCHANGED <<size, dir, listed, faults>>
      /\ req[r].op = "idle" /\ listed # <<>>
    BY DEF StartDownload
<1>2. ListedOK(listed, size) /\ size \in DOMAIN PlansOf
    BY InvGives
<1>3. /\ Planned(listed, size) /\ listed \in Seq(Task)
      /\ \A i \in DOMAIN listed : /\ DownloadOK(listed[i])
                                  /\ listed[i].pc = "queued"
                                  /\ listed[i].pos = 0
    BY <1>1, <1>2 DEF ListedOK
<1>4. size \in Nat /\ Len(listed) \in Nat /\ DOMAIN listed = 1..Len(listed)
    BY <1>2, <1>3, PartsFollow, TasksAre
<1>5. f \in [0..(size - 1) -> Nat \cup {ABSENT}]
    OBVIOUS
<1>6. f \in Files
    <2> HIDE DEF f
    <2> QED
        BY <1>4, <1>5 DEF Files
<1> HIDE DEF f
<1>7. /\ q.op = "download" /\ q.pc = "tasks" /\ q.fd = "open" /\ q.lock = 0
      /\ q.total = 0 /\ q.file = f /\ q \in Request
    BY <1>6 DEF NoRequest, Request
<1> HIDE DEF q
<1>8. RequestOK(q, listed, size)
    <2>1. 0 \in 0..Len(listed) /\ \A i \in DOMAIN listed : i # 0
        BY <1>4
    <2>2. \A i \in DOMAIN listed : listed[i].pc \in Held <=> q.lock = i
        BY <1>3, <1>7, <2>1 DEF Held
    <2> QED
        BY <1>3, <1>7, <2>1, <2>2 DEF RequestOK
<1>9. FileOK(q, listed, size)
    <2>1. ASSUME NEW i \in DOMAIN listed, NEW p \in 0..(size - 1)
          PROVE  ~(listed[i].offset <= p
                   /\ p < listed[i].offset + listed[i].pos)
        <3>1. listed[i].pos = 0 /\ listed[i].offset \in Nat
            BY <1>3, TasksAre, TaskFields
        <3> QED
            BY <1>4, <3>1
    <2> QED
        BY <1>5, <1>7, <2>1 DEF FileOK
<1>10. RequestInv(q, listed, size)
    BY <1>7, <1>8, <1>9 DEF RequestInv, TotalOK
<1> QED
    BY <1>1, <1>3, <1>7, <1>10, BeginKeeps

-----------------------------------------------------------------------------
(* Requests that go on.                                                    *)

LEMMA KeepsCancelRest ==
    ASSUME IInv, NEW r \in Requests, CancelRest(r)
    PROVE  IInv'
<1> DEFINE ts == task[r]
           q == req[r]
           us == [i \in DOMAIN ts |-> IF ts[i].pc = "queued"
                                      THEN [ts[i] EXCEPT !.pc = "cancelled"]
                                      ELSE ts[i]]
           more == task'
           p == req'
<1>1. /\ req \in [Requests -> Request] /\ task \in [Requests -> Seq(Task)]
      /\ q \in Request /\ ts \in Seq(Task)
      /\ \A v \in Requests : RequestInv(req[v], task[v], size)
      /\ RequestInv(q, ts, size)
      /\ RequestOK(q, ts, size) /\ TotalOK(q, ts) /\ FileOK(q, ts, size)
      /\ faults \in 0..MaxFaults /\ ListedOK(listed, size)
      /\ DirOK(dir, req, task)
      /\ Alone(r, req) => AloneOK(dir, q, ts)
    BY InvGives
<1>2. /\ task' = [task EXCEPT ![r] = us] /\ q.pc = "tasks"
      /\ UNCHANGED <<size, dir, req, listed, faults>>
    BY <1>1 DEF CancelRest
<1>3. \A i \in DOMAIN ts :
         /\ us[i] \in Task /\ us[i].offset = ts[i].offset
         /\ us[i].size = ts[i].size /\ us[i].pos = ts[i].pos
         /\ us[i].object = ts[i].object /\ us[i].reported = ts[i].reported
         /\ us[i].sum = ts[i].sum /\ us[i].fd = ts[i].fd
         /\ IF ts[i].pc = "queued" THEN us[i].pc = "cancelled"
            ELSE us[i].pc = ts[i].pc
    <2> SUFFICES ASSUME NEW i \in DOMAIN ts
                 PROVE  /\ us[i] \in Task /\ us[i].offset = ts[i].offset
                        /\ us[i].size = ts[i].size /\ us[i].pos = ts[i].pos
                        /\ us[i].object = ts[i].object
                        /\ us[i].reported = ts[i].reported
                        /\ us[i].sum = ts[i].sum /\ us[i].fd = ts[i].fd
                        /\ IF ts[i].pc = "queued" THEN us[i].pc = "cancelled"
                           ELSE us[i].pc = ts[i].pc
        OBVIOUS
    <2>1. ts[i] \in Task
        BY <1>1, TasksAre
    <2>2. us[i] = IF ts[i].pc = "queued"
                  THEN [ts[i] EXCEPT !.pc = "cancelled"] ELSE ts[i]
        OBVIOUS
    <2> HIDE DEF us
    <2> DEFINE s == ts[i]
    <2> HIDE DEF s
    <2>3. s \in Task /\ us[i] = IF s.pc = "queued"
                                THEN [s EXCEPT !.pc = "cancelled"] ELSE s
        BY <2>1, <2>2 DEF s
    <2>4. CASE s.pc = "queued"
        <3>1. us[i] = [s EXCEPT !.pc = "cancelled"]
            BY <2>3, <2>4
        <3>2. s = ts[i]
            BY DEF s
        <3> QED
            BY <2>3, <2>4, <3>1, <3>2 DEF Task, Ended
    <2>5. CASE s.pc # "queued"
        BY <2>3, <2>5 DEF s
    <2> QED
        BY <2>4, <2>5
<1>4. us \in Seq(Task) /\ DOMAIN us = DOMAIN ts /\ Len(us) = Len(ts)
    <2>1. DOMAIN ts = 1..Len(ts) /\ Len(ts) \in Nat
        BY <1>1, TasksAre
    <2>2. us \in [1..Len(ts) -> Task] /\ DOMAIN us = DOMAIN ts
        BY <1>3, <2>1
    <2> HIDE DEF us
    <2>3. us \in Seq(Task)
        BY <2>1, <2>2, SeqDef
    <2>4. Len(us) = Len(ts)
        BY <2>1, <2>2, <2>3, TasksAre
    <2> QED
        BY <2>2, <2>3, <2>4
<1> HIDE DEF us, ts, q
<1>5. RequestOK(q, us, size)
    <2>1. Planned(us, size)
        <3>1. Planned(ts, size) /\ q.op # "idle"
            BY <1>1, <1>2, RequestFields DEF RequestOK, NoRequest
        <3> QED
            BY <1>3, <1>4, <3>1 DEF Planned, Fits
    <2>2. q.op = "upload" => \A i \in DOMAIN us : UploadOK(us[i])
        BY <1>1, <1>3, <1>4 DEF RequestOK, UploadOK
    <2>3. q.op = "download" => \A i \in DOMAIN us : DownloadOK(us[i])
        BY <1>1, <1>3, <1>4, ZenonT(60) DEF RequestOK, DownloadOK, Ended
    <2>4. \A i \in DOMAIN us : us[i].pc \in Held <=> q.lock = i
        BY <1>1, <1>3, <1>4, SMTT(30) DEF RequestOK, Held
    <2>5. q.op # "idle"
        BY <1>1, <1>2 DEF RequestOK, NoRequest
    <2>6. q.fd = "closed" => \A i \in DOMAIN us : us[i].pc \in Ended
        BY <1>1, <1>3, <1>4 DEF RequestOK, Ended
    <2> QED
        BY <1>1, <1>2, <1>4, <2>1, <2>2, <2>3, <2>4, <2>5, <2>6 DEF RequestOK
<1>6. TotalOK(q, us)
    <2>1. Reported(us) = Reported(ts)
        BY <1>1, <1>3, <1>4, ReportedSame
    <2>2. \A i \in DOMAIN ts : /\ us[i].pc = "open" <=> ts[i].pc = "open"
                               /\ us[i].pc = "flush" <=> ts[i].pc = "flush"
        BY <1>3
    <2> QED
        BY <1>1, <1>3, <1>4, <2>1, <2>2 DEF TotalOK
<1>7. FileOK(q, us, size)
    BY <1>1, <1>3, <1>4 DEF FileOK
<1>8. Alone(r, req) => AloneOK(dir, q, us)
    <2>1. \A i \in DOMAIN ts :
             /\ us[i].pc = "replace" <=> ts[i].pc = "replace"
             /\ us[i].pc = "flush" <=> ts[i].pc = "flush"
        BY <1>3
    <2> QED
        BY <1>1, <1>3, <1>4, <2>1 DEF AloneOK
<1>9. /\ more \in [Requests -> Seq(Task)] /\ more[r] = us
      /\ \A v \in Requests \ {r} : more[v] = task[v]
    BY <1>1, <1>2, <1>4
<1>10. p = req
    BY <1>2
<1>11. p = req' /\ more = task' /\ q = req[r] /\ ts = task[r]
    BY DEF q, ts
<1> HIDE DEF p, more
<1>12. AllFurther(task, more)
    <2>1. Further(ts, us)
        <3>1. \A i \in DOMAIN ts : ts[i].pos <= ts[i].pos
            BY <1>1, FurtherItself DEF Further
        <3> QED
            BY <1>3, <1>4, <3>1 DEF Further
    <2> QED
        BY <1>1, <1>9, <1>11, <2>1, FurtherItself DEF AllFurther
<1>13. DirOK(dir, p, more)
    <2>1. SamePlaces(req, p)
        BY <1>10 DEF SamePlaces
    <2> QED
        BY <1>1, <1>9, <1>12, <2>1, DirStays
<1>14. \A v \in Requests : RequestInv(p[v], more[v], size)
    BY <1>1, <1>5, <1>6, <1>7, <1>9, <1>10, <1>11 DEF RequestInv
<1>15. p[r].op # "idle"
    BY <1>1, <1>2, <1>10, <1>11 DEF RequestOK, NoRequest
<1>16. /\ Alone(r, p) => AloneOK(dir, p[r], more[r])
       /\ dir' = dir /\ size' = size
       /\ ListedOK(listed', size) /\ faults' \in 0..MaxFaults
    BY <1>1, <1>2, <1>8, <1>9, <1>10, <1>11
<1> QED
    BY <1>1, <1>9, <1>10, <1>11, <1>13, <1>14, <1>15, <1>16, StepKeeps

LEMMA KeepsClose ==
    ASSUME IInv, NEW r \in Requests, Close(r)
    PROVE  IInv'
<1> DEFINE ts == task[r]
           d == req[r]
           c == IF ~Succeeded(r) THEN "error"
                ELSE IF d.op = "download" THEN "ok" ELSE "rm_upload"
           q == [d EXCEPT !.fd = "closed", !.pc = c]
           p == req'
<1>1. /\ req \in [Requests -> Request] /\ task \in [Requests -> Seq(Task)]
      /\ d \in Request /\ ts \in Seq(Task)
      /\ \A v \in Requests : RequestInv(req[v], task[v], size)
      /\ RequestOK(d, ts, size) /\ TotalOK(d, ts) /\ FileOK(d, ts, size)
      /\ faults \in 0..MaxFaults /\ ListedOK(listed, size)
      /\ DirOK(dir, req, task)
      /\ Alone(r, req) => AloneOK(dir, d, ts)
    BY InvGives
<1>2. /\ req' = [req EXCEPT ![r] = q] /\ d.pc = "tasks"
      /\ \A i \in DOMAIN ts : ts[i].pc \in Ended
      /\ UNCHANGED <<size, dir, task, listed, faults>>
    BY <1>1 DEF Close, PoolDone
<1>3. c = "error" \/ \A i \in DOMAIN ts : ts[i].pc = "done"
    BY DEF Succeeded
<1>4. /\ c \in {"error", "ok", "rm_upload"}
      /\ c = "ok" => d.op = "download"
      /\ d.op = "download" => c # "rm_upload"
    OBVIOUS
<1> HIDE DEF c, ts, d
<1>5. /\ q \in Request /\ q.pc = c /\ q.fd = "closed" /\ q.op = d.op
      /\ q.lock = d.lock /\ q.total = d.total /\ q.file = d.file
    BY <1>1, <1>4 DEF Request
<1> HIDE DEF q
<1>6. d.op # "idle"
    BY <1>1, <1>2 DEF RequestOK, NoRequest
<1>7. RequestOK(q, ts, size)
    BY <1>1, <1>2, <1>3, <1>4, <1>5, <1>6 DEF RequestOK
<1>8. RequestInv(q, ts, size)
    <2>1. TotalOK(q, ts)
        BY <1>1, <1>5 DEF TotalOK
    <2>2. FileOK(q, ts, size)
        BY <1>1, <1>5 DEF FileOK
    <2> QED
        BY <1>7, <2>1, <2>2 DEF RequestInv
<1>9. ts = task[r] /\ d = req[r]
    BY DEF ts, d
<1>10. /\ p \in [Requests -> Request] /\ p[r] = q
       /\ \A v \in Requests \ {r} : p[v] = req[v]
    BY <1>1, <1>2, <1>5
<1>11. p = req'
    OBVIOUS
<1> HIDE DEF p
<1>12. DirOK(dir, p, task)
    <2>1. \A v \in Requests :
             /\ p[v].op = req[v].op
             /\ p[v].pc = req[v].pc
                \/ (v = r /\ req[r].pc = "tasks" /\ p[r].pc = c)
        BY <1>2, <1>5, <1>9, <1>10
    <2>2. \A v \in Requests :
             p[v].op = "upload"
             /\ p[v].pc \in {"rm_progress", "rm_tmp", "rm_dir", "ok"}
                 => ~dir.upload
        <3>1. \A v \in Requests :
                 req[v].op = "upload"
                 /\ req[v].pc \in {"rm_progress", "rm_tmp", "rm_dir", "ok"}
                     => ~dir.upload
            BY <1>1 DEF DirOK
        <3>2. p[r].op = "upload" =>
                 p[r].pc \notin {"rm_progress", "rm_tmp", "rm_dir", "ok"}
            BY <1>4, <1>5, <1>10
        <3> QED
            BY <1>10, <3>1, <3>2
    <2>3. \A v \in Requests :
             req[v].op = "upload" =>
                /\ p[v].op = "upload"
                /\ req[v].pc = "tasks" => p[v].pc \in {"tasks", "error", "rm_upload"}
                /\ req[v].pc # "tasks" => p[v].pc = req[v].pc
        BY <1>2, <1>4, <1>5, <1>9, <1>10
    <2>4. /\ dir.progress # ABSENT => \E v \in Requests :
                /\ p[v].op = "upload"
                /\ p[v].pc \in {"tasks", "rm_upload", "rm_progress", "error"}
          /\ dir.tmp # ABSENT => \E v \in Requests :
                /\ p[v].op = "upload"
                /\ p[v].pc \in {"tasks", "rm_upload", "rm_progress", "rm_tmp",
                                "error"}
        <3>1. /\ dir.progress # ABSENT => \E v \in Requests :
                    /\ req[v].op = "upload"
                    /\ req[v].pc \in {"tasks", "rm_upload", "rm_progress",
                                      "error"}
              /\ dir.tmp # ABSENT => \E v \in Requests :
                    /\ req[v].op = "upload"
                    /\ req[v].pc \in {"tasks", "rm_upload", "rm_progress",
                                      "rm_tmp", "error"}
            BY <1>1 DEF DirOK
        <3> QED
            BY <2>3, <3>1
    <2>5. dir.there /\ (\E v \in Requests : p[v].op = "upload") =>
             \E v \in Requests : p[v].op = "upload" /\ p[v].pc # "ok"
        <3>1. dir.there /\ (\E v \in Requests : req[v].op = "upload") =>
                 \E v \in Requests : req[v].op = "upload" /\ req[v].pc # "ok"
            BY <1>1 DEF DirOK
        <3>2. \A v \in Requests : req[v].op = "upload" /\ req[v].pc # "ok" =>
                                     p[v].op = "upload" /\ p[v].pc # "ok"
            BY <2>3
        <3> QED
            BY <2>1, <3>1, <3>2
    <2>6. /\ dir \in Directory /\ (dir.upload => dir.there)
          /\ TextOK(dir.progress, task) /\ TextOK(dir.tmp, task)
        BY <1>1 DEF DirOK
    <2> QED
        BY <2>2, <2>4, <2>5, <2>6 DEF DirOK
<1>13. Alone(r, p) => AloneOK(dir, p[r], task[r])
    <2>1. Alone(r, p) => Alone(r, req)
        BY <1>5, <1>9, <1>10 DEF Alone
    <2> QED
        BY <1>1, <1>5, <1>9, <1>10, <2>1 DEF AloneOK
<1>14. \A v \in Requests : RequestInv(p[v], task[v], size)
    BY <1>1, <1>8, <1>9, <1>10
<1>15. /\ ListedOK(listed', size) /\ faults' \in 0..MaxFaults
       /\ dir' = dir /\ size' = size /\ task' = task
    BY <1>1, <1>2
<1>16. p[r].op # "idle"
    BY <1>5, <1>6, <1>10
<1> QED
    BY <1>1, <1>10, <1>11, <1>12, <1>13, <1>14, <1>15, <1>16, StepKeeps

\* A request that cleans the session up is the upload's, whose tasks are done.
LEMMA Cleaning ==
    ASSUME NEW q, NEW ts, NEW n, RequestOK(q, ts, n),
           q.pc \in {"rm_upload", "rm_progress", "rm_tmp", "rm_dir"}
    PROVE  /\ q.op = "upload" /\ q \in Request /\ ts \in Seq(Task)
           /\ Planned(ts, n)
           /\ \A i \in DOMAIN ts : UploadOK(ts[i]) /\ ts[i].pc = "done"
<1>1. q.op # "idle" /\ q.op # "download"
    BY DEF RequestOK, NoRequest
<1>2. q \in Request
    BY DEF RequestOK
<1>3. q.op = "upload"
    BY <1>1, <1>2, RequestFields
<1> QED
    BY <1>3 DEF RequestOK

\* Request r goes on to c, having removed something: of what may still be in
\* the directory, the writer is r or another request.
LEMMA CleanKeeps ==
    ASSUME NEW r \in Requests, NEW e, NEW more, NEW c,
           IInv, req[r].pc \in {"rm_upload", "rm_progress", "rm_tmp", "rm_dir"},
           c \in {"rm_progress", "rm_tmp", "rm_dir", "ok"},
           req' = [req EXCEPT ![r].pc = c], task' = more, dir' = e,
           \A v \in Requests : Follow(task[v], more[v]),
           more \in [Requests -> Seq(Task)],
           UNCHANGED <<size, faults>>, ListedOK(listed', size),
           e \in Directory, ~e.upload,
           e.progress \in {ABSENT, dir.progress}, e.tmp \in {ABSENT, dir.tmp},
           \/ c = "rm_progress" \/ e.progress = ABSENT
           \/ req[r].pc \in {"rm_tmp", "rm_dir"},
           \/ c \in {"rm_progress", "rm_tmp"} \/ e.tmp = ABSENT
           \/ req[r].pc = "rm_dir",
           \/ ~e.there \/ c # "ok" \/ e.progress # ABSENT \/ e.tmp # ABSENT
    PROVE  IInv'
<1> DEFINE p == req'
           d == req[r]
           q == [d EXCEPT !.pc = c]
           Writing(z, a) == \E v \in Requests : z[v].op = "upload"
                                                /\ z[v].pc \in a
           C == {"tasks", "rm_upload", "rm_progress", "error"}
           D == C \cup {"rm_tmp"}
<1>1. /\ req \in [Requests -> Request] /\ task \in [Requests -> Seq(Task)]
      /\ \A v \in Requests : RequestInv(req[v], task[v], size)
      /\ RequestOK(d, task[r], size) /\ TotalOK(d, task[r])
      /\ faults \in 0..MaxFaults /\ DirOK(dir, req, task)
    BY InvGives
<1>2. /\ d.op = "upload" /\ d \in Request
      /\ \A i \in DOMAIN task[r] : task[r][i].pc = "done"
    BY <1>1, Cleaning
<1>3. /\ p \in [Requests -> Request] /\ p[r] = q
      /\ \A v \in Requests \ {r} : p[v] = req[v]
      /\ q \in Request /\ q.pc = c /\ q.op = d.op /\ q.fd = d.fd
      /\ q.lock = d.lock /\ q.total = d.total /\ q.file = d.file
    BY <1>1, <1>2 DEF Request
<1>4. p = req' /\ d = req[r]
    OBVIOUS
<1> HIDE DEF p, q, d
<1>5. RequestInv(q, task[r], size)
    <2>1. RequestOK(q, task[r], size)
        BY <1>1, <1>2, <1>3, <1>4 DEF RequestOK
    <2>2. TotalOK(q, task[r])
        BY <1>1, <1>3 DEF TotalOK
    <2>3. FileOK(q, task[r], size)
        BY <1>2, <1>3 DEF FileOK
    <2> QED
        BY <2>1, <2>2, <2>3 DEF RequestInv
<1>6. \A v \in Requests : RequestInv(p[v], task[v], size)
    BY <1>1, <1>3, <1>5
<1>7. \A v \in Requests : task[v] \in Seq(Task)
    BY <1>1
<1>8. (\A v \in Requests : RequestInv(p[v], more[v], size))
      /\ AllFurther(task, more)
    BY <1>6, <1>7, FollowKeeps DEF AllFurther
<1>9. TextOK(e.progress, more) /\ TextOK(e.tmp, more)
    <2>1. \A x \in {ABSENT, dir.progress, dir.tmp} : TextOK(x, task)
        BY <1>1 DEF DirOK, TextOK
    <2>2. TextOK(e.progress, task) /\ TextOK(e.tmp, task)
        BY <2>1
    <2> QED
        BY <1>1, <1>8, <2>2, TextStays
<1>10. /\ dir.progress # ABSENT => Writing(req, C)
       /\ dir.tmp # ABSENT => Writing(req, D)
    BY <1>1 DEF DirOK
<1>11. e.progress # ABSENT => Writing(p, C)
    <2> SUFFICES ASSUME e.progress # ABSENT
                 PROVE  Writing(p, C)
        OBVIOUS
    <2>1. CASE c = "rm_progress"
        BY <1>2, <1>3, <2>1
    <2>2. CASE req[r].pc \in {"rm_tmp", "rm_dir"}
        <3>1. PICK v \in Requests : req[v].op = "upload" /\ req[v].pc \in C
            BY <1>10
        <3>2. v # r
            BY <2>2, <3>1
        <3> QED
            BY <1>3, <3>1, <3>2
    <2> QED
        BY <2>1, <2>2
<1>12. e.tmp # ABSENT => Writing(p, D)
    <2> SUFFICES ASSUME e.tmp # ABSENT
                 PROVE  Writing(p, D)
        OBVIOUS
    <2>1. CASE c \in {"rm_progress", "rm_tmp"}
        BY <1>2, <1>3, <2>1
    <2>2. CASE req[r].pc = "rm_dir"
        <3>1. PICK v \in Requests : req[v].op = "upload" /\ req[v].pc \in D
            BY <1>10
        <3>2. v # r
            BY <2>2, <3>1
        <3> QED
            BY <1>3, <3>1, <3>2
    <2> QED
        BY <2>1, <2>2
<1>13. e.there => \E v \in Requests : p[v].op = "upload" /\ p[v].pc # "ok"
    <2> SUFFICES ASSUME e.there
                 PROVE  \E v \in Requests : p[v].op = "upload" /\ p[v].pc # "ok"
        OBVIOUS
    <2>1. CASE c # "ok"
        BY <1>2, <1>3, <2>1
    <2>2. CASE e.progress # ABSENT \/ e.tmp # ABSENT
        BY <1>11, <1>12, <2>2
    <2> QED
        BY <2>1, <2>2
<1>14. DirOK(e, p, more)
    <2>1. /\ e.progress # ABSENT => \E v \in Requests :
                /\ p[v].op = "upload"
                /\ p[v].pc \in {"tasks", "rm_upload", "rm_progress", "error"}
          /\ e.tmp # ABSENT => \E v \in Requests :
                /\ p[v].op = "upload"
                /\ p[v].pc \in {"tasks", "rm_upload", "rm_progress", "rm_tmp",
                                "error"}
        BY <1>11, <1>12
    <2> QED
        BY <1>9, <1>13, <2>1 DEF DirOK
<1>15. AloneOK(e, p[r], more[r])
    BY DEF AloneOK
<1>16. p[r].op # "idle"
    BY <1>2, <1>3
<1>17. faults' \in 0..MaxFaults
    BY <1>1
<1> QED
    BY <1>3, <1>4, <1>8, <1>14, <1>15, <1>16, <1>17, StepKeeps, ZenonT(60)

LEMMA KeepsRemoveUpload ==
    ASSUME IInv, NEW r \in Requests, RemoveUpload(r)
    PROVE  IInv'
<1> DEFINE e == [dir EXCEPT !.upload = FALSE]
<1>1. /\ req[r].pc = "rm_upload" /\ req' = [req EXCEPT ![r].pc = "rm_progress"]
      /\ dir' = e /\ task' = task /\ UNCHANGED <<size, listed, faults>>
    BY DEF RemoveUpload
<1>2. /\ dir \in Directory /\ ListedOK(listed, size)
      /\ task \in [Requests -> Seq(Task)]
    BY InvGives DEF DirOK
<1>3. /\ e \in Directory /\ ~e.upload
      /\ e.progress = dir.progress /\ e.tmp = dir.tmp
    BY <1>2 DEF Directory
<1> HIDE DEF e
<1>4. \A v \in Requests : Follow(task[v], task[v])
    BY <1>2, FollowItself
<1>5. ListedOK(listed', size)
    BY <1>1, <1>2
<1> QED
    BY <1>1, <1>2, <1>3, <1>4, <1>5, CleanKeeps

LEMMA KeepsRemoveProgress ==
    ASSUME IInv, NEW r \in Requests, RemoveProgress(r)
    PROVE  IInv'
<1> DEFINE e == [dir EXCEPT !.progress = ABSENT]
           moved == [progress |-> "gone"]
           more == Redirected(task, moved)
<1>1. /\ req[r].pc = "rm_progress" /\ req' = [req EXCEPT ![r].pc = "rm_tmp"]
      /\ dir' = e /\ task' = more /\ UNCHANGED <<size, listed, faults>>
    BY DEF RemoveProgress
<1>2. /\ DirOK(dir, req, task) /\ ListedOK(listed, size)
      /\ task \in [Requests -> Seq(Task)]
      /\ RequestOK(req[r], task[r], size)
    BY InvGives
<1>3. dir \in Directory /\ ~dir.upload
    BY <1>1, <1>2, Cleaning DEF DirOK
<1>4. /\ e \in Directory /\ ~e.upload
      /\ e.progress = ABSENT /\ e.tmp = dir.tmp
    BY <1>3 DEF Directory, Text
<1> HIDE DEF e
<1>5. \A v \in Requests : Follow(task[v], more[v])
    <2>1. /\ DOMAIN moved \in SUBSET {"tmp", "progress"}
          /\ \A x \in DOMAIN moved : moved[x] \in {"progress", "gone"}
        OBVIOUS
    <2> HIDE DEF moved
    <2> QED
        BY <1>2, <2>1, RedirectedFollow
<1>6. more \in [Requests -> Seq(Task)]
    <2>1. more = [v \in Requests |-> more[v]]
        BY DEF Redirected
    <2>2. \A v \in Requests : more[v] \in Seq(Task)
        BY <1>5 DEF Follow
    <2> HIDE DEF more
    <2> QED
        BY <2>1, <2>2
<1>7. ListedOK(listed', size)
    BY <1>1, <1>2
<1> HIDE DEF more
<1> QED
    BY <1>1, <1>4, <1>5, <1>6, <1>7, CleanKeeps

LEMMA KeepsRemoveTmp ==
    ASSUME IInv, NEW r \in Requests, RemoveTmp(r)
    PROVE  IInv'
<1> DEFINE e == [dir EXCEPT !.tmp = ABSENT]
           moved == [tmp |-> "gone"]
           more == Redirected(task, moved)
<1>1. /\ req[r].pc = "rm_tmp" /\ req' = [req EXCEPT ![r].pc = "rm_dir"]
      /\ dir' = e /\ task' = more /\ UNCHANGED <<size, listed, faults>>
    BY DEF RemoveTmp
<1>2. /\ DirOK(dir, req, task) /\ ListedOK(listed, size)
      /\ task \in [Requests -> Seq(Task)]
      /\ RequestOK(req[r], task[r], size)
    BY InvGives
<1>3. dir \in Directory /\ ~dir.upload
    BY <1>1, <1>2, Cleaning DEF DirOK
<1>4. /\ e \in Directory /\ ~e.upload
      /\ e.progress = dir.progress /\ e.tmp = ABSENT
    BY <1>3 DEF Directory, Text
<1> HIDE DEF e
<1>5. \A v \in Requests : Follow(task[v], more[v])
    <2>1. /\ DOMAIN moved \in SUBSET {"tmp", "progress"}
          /\ \A x \in DOMAIN moved : moved[x] \in {"progress", "gone"}
        OBVIOUS
    <2> HIDE DEF moved
    <2> QED
        BY <1>2, <2>1, RedirectedFollow
<1>6. more \in [Requests -> Seq(Task)]
    <2>1. more = [v \in Requests |-> more[v]]
        BY DEF Redirected
    <2>2. \A v \in Requests : more[v] \in Seq(Task)
        BY <1>5 DEF Follow
    <2> HIDE DEF more
    <2> QED
        BY <2>1, <2>2
<1>7. ListedOK(listed', size)
    BY <1>1, <1>2
<1> HIDE DEF more
<1> QED
    BY <1>1, <1>4, <1>5, <1>6, <1>7, CleanKeeps

LEMMA KeepsRemoveDir ==
    ASSUME IInv, NEW r \in Requests, RemoveDir(r)
    PROVE  IInv'
<1> DEFINE e == [dir EXCEPT !.there = dir.upload \/ dir.progress # ABSENT
                                                 \/ dir.tmp # ABSENT]
           ts == task[r]
           recs == [i \in DOMAIN ts |->
                       [NewTask(ts[i]) EXCEPT !.object = ts[i].object]]
<1>1. /\ req[r].pc = "rm_dir" /\ req' = [req EXCEPT ![r].pc = "ok"]
      /\ dir' = e /\ task' = task /\ listed' = recs
      /\ UNCHANGED <<size, faults>>
    BY DEF RemoveDir
<1>2. /\ DirOK(dir, req, task) /\ task \in [Requests -> Seq(Task)]
      /\ RequestOK(req[r], ts, size)
    BY InvGives
<1>3. /\ Planned(ts, size) /\ ts \in Seq(Task) /\ req[r].op = "upload"
      /\ \A i \in DOMAIN ts : UploadOK(ts[i]) /\ ts[i].pc = "done"
    BY <1>1, <1>2, Cleaning
<1>4. dir \in Directory /\ ~dir.upload
    BY <1>1, <1>2, <1>3 DEF DirOK
<1>5. /\ e \in Directory /\ ~e.upload
      /\ e.progress = dir.progress /\ e.tmp = dir.tmp
      /\ ~e.there \/ e.progress # ABSENT \/ e.tmp # ABSENT
    BY <1>4 DEF Directory
<1> HIDE DEF e, ts
<1>6. \A i \in DOMAIN ts :
         /\ recs[i] \in Task /\ DownloadOK(recs[i])
         /\ recs[i].pc = "queued" /\ recs[i].pos = 0
         /\ recs[i].offset = ts[i].offset /\ recs[i].size = ts[i].size
    <2> SUFFICES ASSUME NEW i \in DOMAIN ts
                 PROVE  /\ recs[i] \in Task /\ DownloadOK(recs[i])
                        /\ recs[i].pc = "queued" /\ recs[i].pos = 0
                        /\ recs[i].offset = ts[i].offset
                        /\ recs[i].size = ts[i].size
        OBVIOUS
    <2> DEFINE s == ts[i]
               t == NewTask(s)
               u == recs[i]
    <2>1. u = [t EXCEPT !.object = s.object]
        OBVIOUS
    <2>2. s \in Task /\ UploadOK(s) /\ s.pc = "done"
        BY <1>3, TasksAre
    <2> HIDE DEF s, u
    <2>3. /\ s.offset \in Nat /\ s.size \in Nat /\ s.object \in Seq(Nat)
          /\ s.object = Bytes(s.offset, s.size)
        BY <2>2, TaskFields DEF UploadOK
    <2>4. /\ t \in Task /\ t.pc = "queued" /\ t.offset = s.offset
          /\ t.size = s.size /\ t.pos = 0 /\ t.reported = 0 /\ t.fd = "none"
        BY <2>3, NewTaskOK
    <2> HIDE DEF t
    <2>5. /\ u \in Task /\ u.pc = "queued" /\ u.offset = s.offset
          /\ u.size = s.size /\ u.pos = 0 /\ u.reported = 0 /\ u.fd = "none"
          /\ u.object = s.object
        BY <2>1, <2>3, <2>4 DEF Task
    <2>6. DownloadOK(u)
        BY <2>3, <2>5 DEF DownloadOK
    <2>7. s = ts[i] /\ u = recs[i]
        BY DEF s, u
    <2> HIDE DEF recs
    <2> QED
        BY <2>5, <2>6, <2>7
<1>7. recs \in Seq(Task) /\ DOMAIN recs = DOMAIN ts
    <2>1. DOMAIN ts = 1..Len(ts) /\ Len(ts) \in Nat
        BY <1>3, TasksAre
    <2>2. recs \in [1..Len(ts) -> Task] /\ DOMAIN recs = DOMAIN ts
        BY <1>6, <2>1
    <2> HIDE DEF recs
    <2> QED
        BY <2>1, <2>2, SeqDef
<1> HIDE DEF recs
<1>8. Planned(recs, size)
    BY <1>3, <1>6, <1>7 DEF Planned, Fits
<1>9. ListedOK(listed', size)
    BY <1>1, <1>6, <1>7, <1>8 DEF ListedOK
<1>10. \A v \in Requests : Follow(task[v], task[v])
    BY <1>2, FollowItself
<1> QED
    BY <1>1, <1>2, <1>5, <1>9, <1>10, CleanKeeps

-----------------------------------------------------------------------------
(* The invariant.                                                          *)

LEMMA InitOK ==
    ASSUME Init
    PROVE  IInv
<1> DEFINE q == NoRequest
           e == [there |-> TRUE, upload |-> TRUE, progress |-> ABSENT,
                 tmp |-> ABSENT]
<1>1. /\ size \in DOMAIN PlansOf /\ dir = e
      /\ req = [r \in Requests |-> q] /\ task = [r \in Requests |-> <<>>]
      /\ listed = <<>> /\ faults = 0
    BY DEF Init
<1>2. /\ q \in Request /\ q.op = "idle" /\ q.pc = "idle" /\ q.lock = 0
      /\ q.fd = "none" /\ q.total = 0
    BY DEF NoRequest, Request, Files
<1>3. <<>> \in Seq(Task) /\ DOMAIN <<>> = {} /\ Len(<<>>) = 0
    BY NothingSent
<1>4. RequestInv(q, <<>>, size)
    <2>1. RequestOK(q, <<>>, size)
        BY <1>2, <1>3 DEF RequestOK
    <2> QED
        BY <1>2, <2>1 DEF RequestInv, TotalOK, FileOK
<1>5. /\ e \in Directory /\ e.there /\ e.upload /\ e.progress = ABSENT
      /\ e.tmp = ABSENT
    BY DEF Directory, Text
<1> HIDE DEF q, e
<1>6. \A r \in Requests : req[r] = q /\ task[r] = <<>>
    BY <1>1
<1>7. DirOK(dir, req, task)
    BY <1>1, <1>2, <1>5, <1>6 DEF DirOK, TextOK
<1>8. ABSENT \notin Nat
    BY NothingAssumption
<1>9. AloneOK(dir, q, <<>>)
    BY <1>1, <1>3, <1>5, <1>8 DEF AloneOK
<1>10. req \in [Requests -> Request] /\ task \in [Requests -> Seq(Task)]
    BY <1>1, <1>2, <1>3
<1>11. faults \in 0..MaxFaults
    BY <1>1, BoundsAssumption
<1>12. ListedOK(listed, size)
    BY <1>1 DEF ListedOK
<1> QED
    BY <1>1, <1>4, <1>6, <1>7, <1>9, <1>10, <1>11, <1>12 DEF IInv

LEMMA Stutters ==
    ASSUME IInv, UNCHANGED vars
    PROVE  IInv'
<1>1. /\ size' = size /\ dir' = dir /\ req' = req /\ task' = task
      /\ listed' = listed /\ faults' = faults
    BY DEF vars
<1> QED
    BY <1>1 DEF IInv

LEMMA NextKeeps ==
    ASSUME IInv, [Next]_vars
    PROVE  IInv'
<1>1. CASE UNCHANGED vars
    BY <1>1, Stutters
<1>2. ASSUME NEW r \in Requests, StartUpload(r)
      PROVE  IInv'
    BY <1>2, KeepsStartUpload
<1>3. ASSUME NEW r \in Requests, StartDownload(r)
      PROVE  IInv'
    BY <1>3, KeepsStartDownload
<1>4. ASSUME NEW r \in Requests, RequestStep(r)
      PROVE  IInv'
    BY <1>4, KeepsCancelRest, KeepsClose, KeepsRemoveUpload,
       KeepsRemoveProgress, KeepsRemoveTmp, KeepsRemoveDir DEF RequestStep
<1>5. ASSUME NEW r \in Requests, NEW i \in DOMAIN task[r], TaskStep(r, i)
      PROVE  IInv'
    BY <1>5, KeepsTake, KeepsSendChunk, KeepsSendWhole, KeepsFetch, KeepsLock,
       KeepsOpen, KeepsFlush, KeepsReplace DEF TaskStep
<1>6. ASSUME NEW r \in Requests, NEW i \in DOMAIN task[r], TaskFails(r, i)
      PROVE  IInv'
    BY <1>6, KeepsTaskFails
<1> QED
    BY <1>1, <1>2, <1>3, <1>4, <1>5, <1>6 DEF Next

\* IInv holds in every reachable state.
THEOREM Invariance == Spec => []IInv
<1>1. Init => IInv
    BY InitOK
<1>2. IInv /\ [Next]_vars => IInv'
    BY NextKeeps
<1> QED
    BY <1>1, <1>2, PTL DEF Spec

-----------------------------------------------------------------------------
(* What follows.                                                           *)

\* No total exceeds the file, and no task its part: in particular no report
\* is counted twice, however the reports of the threads interleave
\* (write_finalize_progress under progress_lock).
THEOREM TransferTypeOK == Spec => []TypeOK
<1>1. IInv => TypeOK
    <2> SUFFICES ASSUME IInv
                 PROVE  TypeOK
        OBVIOUS
    <2>1. /\ size \in DOMAIN PlansOf /\ faults \in 0..MaxFaults
          /\ dir.there \in BOOLEAN /\ dir.upload \in BOOLEAN
          /\ dir.progress \in Text /\ dir.tmp \in Text
        BY DEF IInv, DirOK, Directory
    <2>2. ASSUME NEW r \in Requests
          PROVE  /\ req[r].op \in {"idle", "upload", "download"}
                 /\ req[r].lock \in 0..Len(task[r])
                 /\ req[r].total \in 0..size
                 /\ \A i \in DOMAIN task[r] :
                       /\ task[r][i].pc \in {"queued"} \cup Running \cup Ended
                       /\ task[r][i].pos \in 0..task[r][i].size
                       /\ task[r][i].fd \in {"none", "tmp", "progress", "gone"}
        <3> DEFINE q == req[r]
                   ts == task[r]
        <3>1. /\ RequestOK(q, ts, size) /\ TotalOK(q, ts)
              /\ q \in Request /\ ts \in Seq(Task)
            BY InvGives
        <3> HIDE DEF q, ts
        <3>2. /\ q.op \in {"idle", "upload", "download"} /\ q.total \in Nat
              /\ q.lock \in 0..Len(ts)
            BY <3>1, RequestFields DEF RequestOK
        <3>3. ts # <<>> => Planned(ts, size)
            BY <3>1 DEF RequestOK
        <3>4. ASSUME NEW i \in DOMAIN ts
              PROVE  /\ ts[i].pc \in {"queued"} \cup Running \cup Ended
                     /\ ts[i].pos \in 0..ts[i].size
                     /\ ts[i].fd \in {"none", "tmp", "progress", "gone"}
            <4>1. ts[i] \in Task
                BY <3>1, TasksAre
            <4>2. ts # <<>>
                OBVIOUS
            <4>3. UploadOK(ts[i]) \/ DownloadOK(ts[i])
                BY <3>1, <3>2, <4>2 DEF RequestOK
            <4>4. ts[i].pos <= ts[i].size
                BY <4>3 DEF UploadOK, DownloadOK
            <4> QED
                BY <4>1, <4>4, TaskFields
        <3>5. q.total \in 0..size
            <4>1. CASE q.op = "upload"
                <5>1. Planned(ts, size) /\ \A i \in DOMAIN ts : UploadOK(ts[i])
                    BY <3>1, <4>1 DEF RequestOK
                <5>2. \A i \in DOMAIN ts : /\ ts[i].reported <= ts[i].pos
                                           /\ ts[i].pos <= ts[i].size
                    BY <5>1 DEF UploadOK
                <5>3. Reported(ts) <= Sent(ts) /\ Sent(ts) <= size
                    BY <2>1, <3>1, <5>1, <5>2, ReportedWasSent, SentAtMost
                <5>4. Reported(ts) \in Nat /\ Sent(ts) \in Nat /\ size \in Nat
                    BY <2>1, <3>1, <5>1, SumsAreNat, PartsFollow
                <5>5. q.total <= Reported(ts)
                    BY <3>1, <4>1 DEF TotalOK
                <5> QED
                    BY <3>2, <5>3, <5>4, <5>5
            <4>2. CASE q.op # "upload"
                <5>1. q.total = 0
                    BY <3>1, <3>2, <4>2 DEF RequestOK, NoRequest
                <5>2. size \in Nat
                    BY <2>1, PlansAssumption
                <5> QED
                    BY <5>1, <5>2
            <4> QED
                BY <4>1, <4>2
        <3> QED
            BY <3>2, <3>4, <3>5 DEF q, ts
    <2> QED
        BY <2>1, <2>2 DEF TypeOK
<1> QED
    BY <1>1, Invariance, PTL

\* What record_file puts into the vault names objects that hold exactly the
\* bytes of their parts: _FdRangeReader starts again where Google says it has
\* got, so nothing is left out or sent twice.
THEOREM ObjectsIntact == Spec => []PartsIntact
<1>1. IInv => PartsIntact
    <2> SUFFICES ASSUME IInv, NEW n \in DOMAIN listed
                 PROVE  listed[n].object =
                            [k \in 1..listed[n].size |-> listed[n].offset + k - 1]
        BY DEF PartsIntact
    <2>1. ListedOK(listed, size)
        BY DEF IInv
    <2>2. listed # <<>>
        OBVIOUS
    <2>3. DownloadOK(listed[n])
        BY <2>1, <2>2 DEF ListedOK
    <2> QED
        BY <2>3 DEF DownloadOK, Bytes
<1> QED
    BY <1>1, Invariance, PTL

\* The answer of a download is the file, byte by byte: the parts leave no gap,
\* and each writer starts at the offset of its part.
THEOREM DownloadsWhole == Spec => []DownloadWhole
<1>1. IInv => DownloadWhole
    <2> SUFFICES ASSUME IInv, NEW r \in Requests,
                        req[r].op = "download", req[r].pc = "ok"
                 PROVE  req[r].file = [p \in 0..(size-1) |-> p]
        BY DEF DownloadWhole
    <2> DEFINE q == req[r]
               ts == task[r]
    <2>1. /\ RequestOK(q, ts, size) /\ FileOK(q, ts, size)
          /\ ts \in Seq(Task) /\ size \in DOMAIN PlansOf
        BY InvGives
    <2>2. q.op = "download" /\ q.pc = "ok"
        OBVIOUS
    <2> HIDE DEF q, ts
    <2>3. /\ Planned(ts, size)
          /\ \A i \in DOMAIN ts : DownloadOK(ts[i]) /\ ts[i].pc = "done"
        BY <2>1, <2>2 DEF RequestOK
    <2>4. \A i \in DOMAIN ts : ts[i].pos = ts[i].size
        BY <2>3 DEF DownloadOK
    <2>5. q.file \in [0..(size - 1) -> Nat \cup {ABSENT}]
        BY <2>1, <2>2 DEF FileOK
    <2>6. ASSUME NEW p \in 0..(size - 1)
          PROVE  q.file[p] = p
        <3>1. PICK i \in DOMAIN ts :
                 ts[i].offset <= p /\ p < ts[i].offset + ts[i].size
            BY <2>1, <2>3, PartsCover
        <3>2. p < ts[i].offset + ts[i].pos
            BY <2>4, <3>1
        <3> QED
            BY <2>1, <2>2, <3>1, <3>2 DEF FileOK
    <2>7. q.file = [p \in 0..(size - 1) |-> p]
        BY <2>5, <2>6
    <2> QED
        BY <2>7 DEF q
<1> QED
    BY <1>1, Invariance, PTL

\* An upload that is through has counted every byte, and each once.
THEOREM ReportsAddUp == Spec => []ProgressAddsUp
<1>1. IInv => ProgressAddsUp
    <2> SUFFICES ASSUME IInv, NEW r \in Requests, req[r].op = "upload",
                        req[r].pc # "tasks", Succeeded(r)
                 PROVE  req[r].total = size
        BY DEF ProgressAddsUp
    <2> DEFINE q == req[r]
               ts == task[r]
    <2>1. /\ RequestOK(q, ts, size) /\ TotalOK(q, ts)
          /\ ts \in Seq(Task) /\ size \in DOMAIN PlansOf
        BY InvGives
    <2>2. q.op = "upload" /\ \A i \in DOMAIN ts : ts[i].pc = "done"
        BY DEF Succeeded
    <2> HIDE DEF q, ts
    <2>3. Planned(ts, size) /\ \A i \in DOMAIN ts : UploadOK(ts[i])
        BY <2>1, <2>2 DEF RequestOK
    <2>4. \A i \in DOMAIN ts : /\ ts[i].reported = ts[i].pos
                               /\ ts[i].pos = ts[i].size
        BY <2>2, <2>3 DEF UploadOK
    <2>5. Reported(ts) = Sent(ts)
        BY <2>4, ReportedIsSent
    <2>6. \A i \in DOMAIN ts : ts[i].pos <= ts[i].size
        BY <2>1, <2>4, TasksAre, TaskFields
    <2>7. Sent(ts) = size
        BY <2>1, <2>3, <2>4, <2>6, SentAtMost
    <2>8. q.total = Reported(ts)
        BY <2>1, <2>2 DEF TotalOK
    <2>9. q.total = size
        BY <2>5, <2>7, <2>8
    <2> QED
        BY <2>9 DEF q
<1> QED
    BY <1>1, Invariance, PTL

\* A task's position is what Stored adds up.
LEMMA StoredIsSent ==
    ASSUME NEW r \in Requests
    PROVE  Stored(r) = Sent(task[r])
<1> DEFINE f == [i \in DOMAIN task[r] |-> task[r][i].pos]
<1>1. DOMAIN f = DOMAIN task[r]
    OBVIOUS
<1>2. FoldFunction(+, 0, f) = SumOver(f, DOMAIN f)
    BY DEF FoldFunction, FoldFunctionOnSet, SumOver
<1> QED
    BY <1>1, <1>2 DEF Stored, Sent

\* /upload/status never tells of more than one of the requests has put on
\* drives, whichever request wrote the file, and although a text may land in a
\* file that has been renamed or removed meanwhile.
THEOREM StatusTrue == Spec => []StatusIsTrue
<1>1. IInv => StatusIsTrue
    <2> SUFFICES ASSUME IInv
                 PROVE  StatusIsTrue
        OBVIOUS
    <2>1. TextOK(dir.progress, task)
        BY DEF IInv, DirOK
    <2>2. CASE dir.progress \in {ABSENT, EMPTY, GARBLED}
        <3>1. PICK r \in Requests : TRUE
            BY RequestsAssumption
        <3>2. task[r] \in Seq(Task)
            BY InvGives
        <3>3. Sent(task[r]) \in Nat
            BY <3>2, SumsAreNat
        <3>4. Shown(dir.progress) = 0
            BY <2>2 DEF Shown
        <3>5. Shown(dir.progress) <= Stored(r)
            BY <3>3, <3>4, StoredIsSent
        <3> QED
            BY <3>5 DEF StatusIsTrue
    <2>3. CASE dir.progress \notin {ABSENT, EMPTY, GARBLED}
        <3>1. PICK r \in Requests : dir.progress <= Sent(task[r])
            BY <2>1, <2>3 DEF TextOK
        <3>2. Shown(dir.progress) = dir.progress
            BY <2>3 DEF Shown
        <3>3. Shown(dir.progress) <= Stored(r)
            BY <3>1, <3>2, StoredIsSent
        <3> QED
            BY <3>3 DEF StatusIsTrue
    <2> QED
        BY <2>2, <2>3
<1> QED
    BY <1>1, Invariance, PTL

\* When every request is answered and none failed, cleanup_session has removed
\* the directory: whoever can still write in it has yet to clean it up.
THEOREM NothingIsLeft == Spec => []NothingLeft
<1>1. IInv => NothingLeft
    <2> SUFFICES ASSUME IInv, \A r \in Requests : req[r].pc \in {"idle", "ok"},
                        NEW w \in Requests, req[w].op = "upload", dir.there
                 PROVE  FALSE
        BY DEF NothingLeft
    <2>1. PICK r \in Requests : req[r].op = "upload" /\ req[r].pc # "ok"
        BY DEF IInv, DirOK
    <2>2. RequestOK(req[r], task[r], size)
        BY InvGives
    <2>3. req[r].pc # "idle"
        BY <2>1, <2>2 DEF RequestOK
    <2> QED
        BY <2>1, <2>3
<1> QED
    BY <1>1, Invariance, PTL

\* The requests that have begun.
Begun(q) == {r \in Requests : q[r].op # "idle"}

LEMMA OneIsAlone ==
    ASSUME NEW q, NEW r \in Requests, Cardinality(Begun(q)) <= 1,
           q[r].op # "idle"
    PROVE  Alone(r, q)
<1> SUFFICES ASSUME NEW v \in Requests, q[v].op # "idle", v # r
             PROVE  FALSE
    BY DEF Alone
<1>1. IsFiniteSet(Begun(q))
    BY RequestsAssumption, FS_Subset DEF Begun
<1>2. {r, v} \subseteq Begun(q)
    BY DEF Begun
<1>3. IsFiniteSet({r, v}) /\ Cardinality({r, v}) = 2
    <2>1. IsFiniteSet({r}) /\ Cardinality({r}) = 1
        BY FS_Singleton
    <2>2. {r, v} = {r} \cup {v} /\ v \notin {r}
        OBVIOUS
    <2>3. IsFiniteSet({r} \cup {v}) /\ Cardinality({r} \cup {v}) = 1 + 1
        BY <2>1, <2>2, FS_AddElement
    <2> QED
        BY <2>2, <2>3
<1>4. Cardinality({r, v}) <= Cardinality(Begun(q))
    BY <1>1, <1>2, FS_Subset
<1>5. Cardinality(Begun(q)) \in Nat
    BY <1>1, FS_CardinalityType
<1> QED
    BY <1>3, <1>4, <1>5

LEMMA ShownType ==
    ASSUME NEW x \in Text
    PROVE  Shown(x) \in Nat
BY NothingAssumption DEF Shown, Text

\* A report of the only request there is goes to the temporary file, which no
\* other request renames under it.
LEMMA FlushShowsNoLess ==
    ASSUME IInv, NEW r \in Requests, NEW i \in DOMAIN task[r], Flush(r, i),
           Cardinality(Begun(req)) <= 1, dir'.upload
    PROVE  dir'.progress = dir.progress
<1>1. RequestOK(req[r], task[r], size) /\ DirOK(dir, req, task)
      /\ (Alone(r, req) => AloneOK(dir, req[r], task[r]))
    BY InvGives
<1>2. dir \in Directory /\ task[r][i].pc = "flush"
    BY <1>1 DEF DirOK, Flush
<1>3. dir'.upload = dir.upload
    BY <1>2 DEF Flush, Directory
<1>4. req[r].op # "idle"
    BY <1>1, <1>2, Busy DEF Ended
<1>5. AloneOK(dir, req[r], task[r])
    BY <1>1, <1>4, OneIsAlone
<1>6. task[r][i].fd = "tmp"
    BY <1>2, <1>3, <1>5 DEF AloneOK
<1> QED
    BY <1>2, <1>6 DEF Flush, Directory

\* What it renames is its total, which is no less than what was shown.
LEMMA ReplaceShowsNoLess ==
    ASSUME IInv, NEW r \in Requests, NEW i \in DOMAIN task[r], Replace(r, i),
           Cardinality(Begun(req)) <= 1, dir'.upload
    PROVE  Shown(dir'.progress) >= Shown(dir.progress)
<1>1. /\ RequestOK(req[r], task[r], size) /\ DirOK(dir, req, task)
      /\ req[r] \in Request
      /\ Alone(r, req) => AloneOK(dir, req[r], task[r])
    BY InvGives
<1>2. dir \in Directory /\ task[r][i].pc = "replace"
    BY <1>1 DEF DirOK, Replace
<1>3. /\ dir'.upload = dir.upload
      /\ dir'.progress = dir.progress \/ dir'.progress = dir.tmp
    BY <1>2 DEF Replace, Directory
<1>4. req[r].op # "idle"
    BY <1>1, <1>2, Busy DEF Ended
<1>5. AloneOK(dir, req[r], task[r])
    BY <1>1, <1>4, OneIsAlone
<1>6. /\ dir.progress \in Nat \cup {ABSENT} /\ dir.tmp = req[r].total
      /\ dir.progress \in Nat => dir.progress <= req[r].total
    BY <1>2, <1>3, <1>5 DEF AloneOK
<1>7. req[r].total \in Nat
    BY <1>1, RequestFields
<1>8. Shown(dir.tmp) = req[r].total
    BY <1>6, <1>7, NothingAssumption DEF Shown
<1>9. Shown(dir.progress) \in Nat /\ Shown(dir.progress) <= req[r].total
    <2>1. CASE dir.progress = ABSENT
        BY <1>7, <2>1 DEF Shown
    <2>2. CASE dir.progress \in Nat
        BY <1>6, <2>2, NothingAssumption DEF Shown
    <2> QED
        BY <1>6, <2>1, <2>2
<1> QED
    BY <1>3, <1>7, <1>8, <1>9

\* Nothing but a report and the end of an upload touches progress.json.
LEMMA OthersShowTheSame ==
    ASSUME dir \in Directory, [Next]_vars, dir'.progress # dir.progress
    PROVE  \E r \in Requests :
              \/ RemoveProgress(r)
              \/ \E i \in DOMAIN task[r] : Flush(r, i) \/ Replace(r, i)
<1>1. Next
    BY DEF vars
<1>2. PICK r \in Requests :
         \/ StartUpload(r) \/ StartDownload(r) \/ RequestStep(r)
         \/ \E i \in DOMAIN task[r] : TaskStep(r, i) \/ TaskFails(r, i)
    BY <1>1 DEF Next
<1>3. ~StartUpload(r) /\ ~StartDownload(r)
    BY DEF StartUpload, StartDownload
<1>4. CASE RequestStep(r)
    <2>1. ~CancelRest(r) /\ ~Close(r)
        BY DEF CancelRest, Close
    <2>2. ~RemoveUpload(r) /\ ~RemoveTmp(r) /\ ~RemoveDir(r)
        BY DEF RemoveUpload, RemoveTmp, RemoveDir, Directory
    <2> QED
        BY <1>4, <2>1, <2>2 DEF RequestStep
<1>5. ASSUME NEW i \in DOMAIN task[r], TaskStep(r, i) \/ TaskFails(r, i)
      PROVE  Flush(r, i) \/ Replace(r, i)
    <2>1. ~Take(r, i) /\ ~SendChunk(r, i) /\ ~SendWhole(r, i) /\ ~Fetch(r, i)
        BY DEF Take, SendChunk, SendWhole, Fetch
    <2>2. ~Lock(r, i) /\ ~TaskFails(r, i)
        BY DEF Lock, TaskFails
    <2>3. ~Open(r, i)
        BY DEF Open, Directory
    <2> QED
        BY <1>5, <2>1, <2>2, <2>3 DEF TaskStep
<1> QED
    BY <1>2, <1>3, <1>4, <1>5

\* What the browser is shown never goes back as long as one request works on
\* the session alone, until cleanup_session removes the upload: the reports of
\* its threads are written in the order of the totals they tell.
THEOREM StatusNeverFalls == Spec => StatusNeverBack
<1>1. IInv /\ [Next]_vars =>
         [Cardinality(Begun(req)) <= 1 /\ dir'.upload
          => Shown(dir'.progress) >= Shown(dir.progress)]_vars
    <2> SUFFICES ASSUME IInv, [Next]_vars, Cardinality(Begun(req)) <= 1,
                        dir'.upload
                 PROVE  Shown(dir'.progress) >= Shown(dir.progress)
        OBVIOUS
    <2>1. DirOK(dir, req, task) /\ dir \in Directory
        BY DEF IInv, DirOK
    <2>2. CASE dir'.progress = dir.progress
        <3>1. Shown(dir.progress) \in Nat
            BY <2>1, ShownType DEF Directory
        <3> QED
            BY <2>2, <3>1
    <2>3. CASE dir'.progress # dir.progress
        <3>1. PICK r \in Requests :
                 \/ RemoveProgress(r)
                 \/ \E i \in DOMAIN task[r] : Flush(r, i) \/ Replace(r, i)
            BY <2>1, <2>3, OthersShowTheSame
        <3>2. ~RemoveProgress(r)
            <4>1. SUFFICES ASSUME RemoveProgress(r)
                           PROVE  FALSE
                OBVIOUS
            <4>2. req[r].pc = "rm_progress" /\ RequestOK(req[r], task[r], size)
                BY <4>1, InvGives DEF RemoveProgress
            <4>3. ~dir.upload
                BY <2>1, <4>2, Cleaning DEF DirOK
            <4> QED
                BY <2>1, <4>1, <4>3 DEF RemoveProgress, Directory
        <3>3. ASSUME NEW i \in DOMAIN task[r], Flush(r, i)
              PROVE  FALSE
            BY <2>3, <3>3, FlushShowsNoLess
        <3>4. ASSUME NEW i \in DOMAIN task[r], Replace(r, i)
              PROVE  Shown(dir'.progress) >= Shown(dir.progress)
            BY <3>4, ReplaceShowsNoLess
        <3> QED
            BY <3>1, <3>2, <3>3, <3>4
    <2> QED
        BY <2>2, <2>3
<1> QED
    BY <1>1, Invariance, PTL DEF Spec, StatusNeverBack, Begun
=============================================================================
