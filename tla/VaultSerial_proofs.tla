-------------------------- MODULE VaultSerial_proofs --------------------------
(***************************************************************************)
(* What the vault promises when requests do not overlap (Serial), for any  *)
(* keys, folders and drives and whatever calls fail or processes die: the  *)
(* answers hold, a listed file has its objects, and VaultStore implements  *)
(* Pool.                                                                   *)
(*                                                                         *)
(* All of it rests on one fact: the copy a request works on is the vault   *)
(* as it still is when it is saved.  So there is one vault file, what is   *)
(* saved is Current with one change, and what a request has found out      *)
(* about its keys stays true.                                              *)
(***************************************************************************)
EXTENDS VaultStore_proofs

InTurn == \A r, s \in Active : r = s

Deletes(q) == q.op \in {"delete", "batch", "rmfolder"}

\* What the others do not change while it is one request's turn.
Now == [vault |-> Current, files |-> Len(appdata), live |-> live,
        acked |-> acked, doomed |-> doomed]

\* Request q has the vault as it is, and the slot it will write is that one's.
UpToDate(q, now) ==
    /\ Loaded(q) => q.base = now.vault
    /\ q.pc = "write" => q.slot = now.files

\* What q is about.
KeysOK(q) ==
    /\ q.op = "idle" <=> q.pc = "idle"
    /\ q.op \in {"mkfolder", "connect", "login"} => q.keys = {}
    /\ q.op = "rmfolder" /\ (q.pc = "load" \/ Loaded(q)) =>
          q.keys = Inside[q.folder]
    /\ q.pc = "erase" => Deletes(q)

\* The objects q has made are there, and there are some when it saves.
UploadsOK(q, now) ==
    q.op = "complete" =>
        /\ q.chunks \subseteq now.live
        /\ q.pc = "upload" => q.todo # {} \/ q.chunks # {} \/ q.failed # "no"
        /\ q.pc \in {"save", "write"} => q.chunks # {}

\* q only erases what is listed under keys it has set out to delete.
ErasesOK(q, now) ==
    q.pc = "erase" =>
        /\ q.todo \subseteq UNION {now.vault.files[k] : k \in q.keys}
        /\ \A k \in q.keys : now.vault.files[k] # {} => k \in now.doomed

\* Nothing is promised about the keys of q until it is answered, and the answer
\* it carries is true.
AnswerOK(q, now) ==
    /\ q.op # "idle" => \A k \in q.keys : now.acked[k] = "unknown"
    /\ q.pc = "reply" /\ q.status = "ok" =>
          \A k \in q.keys : now.vault.files[k] # {} <=> q.op = "complete"

Follows(q, now) ==
    /\ UpToDate(q, now) /\ KeysOK(q)
    /\ UploadsOK(q, now) /\ ErasesOK(q, now) /\ AnswerOK(q, now)

AnswersStand ==
    \A k \in Keys : /\ acked[k] = "listed" => Current.files[k] # {}
                    /\ acked[k] = "gone" => Current.files[k] = {}

ObjectsStand == \A k \in Keys \ doomed : Current.files[k] \subseteq live

SInv ==
    /\ InTurn
    /\ Len(appdata) <= 1
    /\ \A r \in Requests : Follows(reqs[r], Now)
    /\ AnswersStand
    /\ ObjectsStand

-----------------------------------------------------------------------------
(* The vault as it is, and the request whose turn it is.                   *)

LEMMA RegisteredIs ==
    ASSUME NEW v, NEW M, Sound(v, M)
    PROVE  Registered(v) = v
<1>1. v.accounts \cup {Primary} = v.accounts /\ v \in Content
    BY DEF Sound
<1> QED
    BY <1>1 DEF Registered, Content

LEMMA CurrentSound ==
    ASSUME IInv
    PROVE  /\ Sound(Current, made)
           /\ appdata = <<>> => Current = Registered(EmptyVault)
           /\ \A n \in 1..Len(appdata) : appdata[n] = Registered(appdata[n])
           /\ appdata # <<>> => Current = appdata[1] /\ 1 \in 1..Len(appdata)
<1>1. \A n \in 1..Len(appdata) : Sound(appdata[n], made)
    BY DEF IInv, VaultsOK
<1>2. \A n \in 1..Len(appdata) : Registered(appdata[n]) = appdata[n]
    BY <1>1, RegisteredIs
<1>3. appdata # <<>> => 1 \in 1..Len(appdata)
    BY DEF IInv, VaultsOK
<1> QED
    BY <1>1, <1>2, <1>3, EmptySound DEF Current

LEMMA IdleFollows ==
    ASSUME NEW q, q.op = "idle", q.pc = "idle", NEW now
    PROVE  Follows(q, now)
BY DEF Follows, UpToDate, KeysOK, UploadsOK, ErasesOK, AnswerOK, Loaded, Deletes

\* A request that is under way is the only one.
LEMMA OnesTurn ==
    ASSUME SInv, NEW r \in Requests, reqs[r].pc # "idle"
    PROVE  /\ reqs[r].op # "idle" /\ Active \subseteq {r}
           /\ Follows(reqs[r], Now)
BY DEF SInv, InTurn, Active, Follows, KeysOK

\* r goes on to q; if it is right, all is, since nobody else is under way.
LEMMA TurnKeeps ==
    ASSUME IInv, SInv, NEW r \in Requests, Active \subseteq {r}, NEW q,
           reqs' = [reqs EXCEPT ![r] = q], Follows(q, Now'),
           Len(appdata') <= 1, AnswersStand', ObjectsStand'
    PROVE  SInv'
<1>1. reqs \in [Requests -> Request]
    BY DEF IInv, RequestsOK
<1>2. reqs'[r] = q
    BY <1>1
<1>3. ASSUME NEW s \in Requests, s # r
      PROVE  reqs'[s] = reqs[s] /\ reqs[s].op = "idle" /\ reqs[s].pc = "idle"
    BY <1>1, <1>3 DEF Active, SInv, Follows, KeysOK
<1>4. \A s \in Requests : Follows(reqs'[s], Now')
    BY <1>2, <1>3, IdleFollows
<1>5. InTurn'
    BY <1>3 DEF InTurn, Active
<1> QED
    BY <1>4, <1>5 DEF SInv

\* The same, where nobody sees a difference but r.
LEMMA QuietTurn ==
    ASSUME IInv, SInv, NEW r \in Requests, reqs[r].pc # "idle", NEW q,
           reqs' = [reqs EXCEPT ![r] = q], Follows(q, Now),
           UNCHANGED <<appdata, live, acked, doomed>>
    PROVE  SInv'
<1>1. Len(appdata') <= 1 /\ AnswersStand' /\ ObjectsStand' /\ Now' = Now
    BY DEF SInv, AnswersStand, ObjectsStand, Current, Now
<1>2. Active \subseteq {r}
    BY OnesTurn
<1> QED
    BY <1>1, <1>2, TurnKeeps

\* r answers with the vault as it will be.
LEMMA AnswerFollows ==
    ASSUME IInv, SInv, NEW r \in Requests, reqs[r].pc # "idle",
           NEW status \in {"ok", "refused", "error"},
           reqs' = Answered(r, status), UNCHANGED acked,
           status = "ok" => \A k \in reqs[r].keys :
               Current'.files[k] # {} <=> reqs[r].op = "complete",
           Len(appdata') <= 1, AnswersStand', ObjectsStand'
    PROVE  SInv'
<1> DEFINE q == [Idle EXCEPT !.op = reqs[r].op, !.keys = reqs[r].keys,
                             !.pc = "reply", !.status = status]
<1>1. /\ q.op = reqs[r].op /\ q.keys = reqs[r].keys /\ q.pc = "reply"
      /\ q.chunks = {} /\ q.status = status
    BY DEF Idle
<1>2. reqs' = [reqs EXCEPT ![r] = q]
    BY DEF Answered
<1> HIDE DEF q
<1>3. /\ Follows(reqs[r], Now) /\ reqs[r].op # "idle"
      /\ Active \subseteq {r}
    BY OnesTurn
<1>4. /\ Now'.acked = acked /\ Now.acked = acked
      /\ Now'.vault = Current'
    BY DEF Now
<1>5. Follows(q, Now')
    BY <1>1, <1>3, <1>4
    DEF Follows, UpToDate, KeysOK, UploadsOK, ErasesOK, AnswerOK, Loaded,
        Deletes
<1> QED
    BY <1>2, <1>3, <1>5, TurnKeeps

\* A request under way that takes a step of its own, and nothing else changes.
LEMMA FurtherTurn ==
    ASSUME IInv, SInv, NEW r \in Requests, NEW q,
           Continues(q, reqs[r]), Loaded(reqs[r]),
           reqs' = [reqs EXCEPT ![r] = q],
           q.pc \in {"upload", "erase", "save"},
           q.pc = "upload" => q.todo # {} \/ q.chunks # {} \/ q.failed # "no",
           q.pc = "erase" => Deletes(q) /\ ErasesOK(q, Now),
           q.pc = "save" /\ q.op = "complete" => q.chunks # {},
           UNCHANGED <<appdata, live, acked, doomed>>
    PROVE  SInv'
<1>1. reqs[r].pc # "idle"
    BY DEF Loaded
<1>2. Follows(reqs[r], Now) /\ reqs[r].op # "idle"
    BY <1>1, OnesTurn
<1>3. Follows(q, Now)
    BY <1>2 DEF Follows, UpToDate, KeysOK, UploadsOK, ErasesOK, AnswerOK,
                Loaded, Continues
<1> QED
    BY <1>1, <1>3, QuietTurn

\* r answers, and nothing else changes.
LEMMA QuietAnswer ==
    ASSUME IInv, SInv, NEW r \in Requests, reqs[r].pc # "idle",
           NEW status \in {"ok", "refused", "error"},
           reqs' = Answered(r, status),
           status = "ok" => reqs[r].keys = {},
           UNCHANGED <<appdata, live, acked, doomed>>
    PROVE  SInv'
<1>1. Len(appdata') <= 1 /\ AnswersStand' /\ ObjectsStand'
    BY DEF SInv, AnswersStand, ObjectsStand, Current
<1> QED
    BY <1>1, AnswerFollows

-----------------------------------------------------------------------------
(* Requests arrive and load the vault.                                     *)

LEMMA InitSerial == Init => SInv
<1> SUFFICES ASSUME Init PROVE SInv
    OBVIOUS
<1>1. Follows(Idle, Now)
    BY IdleFollows DEF Idle
<1>2. InTurn
    BY DEF Init, InTurn, Active, Idle
<1>3. AnswersStand /\ ObjectsStand
    BY DEF Init, AnswersStand, ObjectsStand, Current, Registered, EmptyVault
<1> QED
    BY <1>1, <1>2, <1>3 DEF Init, SInv

LEMMA BeginTurn ==
    ASSUME IInv, SInv, Serial, NEW r \in Requests, NEW op \in OpNames,
           NEW K \in SUBSET Keys, NEW f, NEW d, Begin(r, op, K, f, d),
           op \in {"mkfolder", "connect", "login"} => K = {},
           op = "rmfolder" => K = Inside[f]
    PROVE  SInv'
<1> DEFINE q == [Idle EXCEPT !.op = op, !.pc = "load", !.keys = K,
                             !.folder = f, !.drive = d]
<1>1. /\ q.op = op /\ q.pc = "load" /\ q.keys = K /\ q.folder = f
      /\ q.chunks = {}
    BY DEF Idle
<1>2. /\ reqs' = [reqs EXCEPT ![r] = q] /\ Active = {}
      /\ acked' = [k \in Keys |-> IF k \in K THEN "unknown" ELSE acked[k]]
      /\ UNCHANGED <<appdata, live, doomed>>
    BY DEF Begin
<1> HIDE DEF q
<1>3. Now'.acked = acked'
    BY DEF Now
<1>4. Follows(q, Now')
    BY <1>1, <1>2, <1>3
    DEF Follows, UpToDate, KeysOK, UploadsOK, ErasesOK, AnswerOK, Loaded,
        Deletes, OpNames
<1>5. Len(appdata') <= 1 /\ AnswersStand' /\ ObjectsStand'
    BY <1>2 DEF SInv, AnswersStand, ObjectsStand, Current
<1> QED
    BY <1>2, <1>4, <1>5, TurnKeeps

LEMMA ArriveTurn ==
    ASSUME IInv, SInv, Serial, NEW r \in Requests, Arrive(r)
    PROVE  SInv'
<1> USE InsideAssumption DEF OpNames
<1>1. CASE \E k \in Keys : Begin(r, "complete", {k}, NONE, NONE)
    BY <1>1, BeginTurn
<1>2. CASE \E k \in Keys : Begin(r, "delete", {k}, NONE, NONE)
    BY <1>2, BeginTurn
<1>3. CASE \E K \in SUBSET Keys : Begin(r, "batch", K, NONE, NONE)
    BY <1>3, BeginTurn
<1>4. CASE \E f \in Folders : Begin(r, "mkfolder", {}, f, NONE)
    BY <1>4, BeginTurn
<1>5. CASE \E f \in Folders : Begin(r, "rmfolder", Inside[f], f, NONE)
    BY <1>5, BeginTurn
<1>6. CASE \E d \in Drives \ {Primary} : Begin(r, "connect", {}, NONE, d)
    BY <1>6, BeginTurn
<1>7. CASE Begin(r, "login", {}, NONE, NONE)
    BY <1>7, BeginTurn
<1> QED
    BY <1>1, <1>2, <1>3, <1>4, <1>5, <1>6, <1>7 DEF Arrive

LEMMA CrashTurn ==
    ASSUME IInv, SInv, Crash
    PROVE  SInv'
<1>1. /\ reqs' = [r \in Requests |-> Idle]
      /\ UNCHANGED <<appdata, live, acked, doomed>>
    BY DEF Crash
<1>2. Follows(Idle, Now') /\ Idle.op = "idle"
    BY IdleFollows DEF Idle
<1>3. AnswersStand' /\ ObjectsStand' /\ Len(appdata') <= 1
    BY <1>1 DEF SInv, AnswersStand, ObjectsStand, Current
<1>4. InTurn'
    BY <1>1, <1>2 DEF InTurn, Active
<1>5. \A r \in Requests : Follows(reqs'[r], Now')
    BY <1>1, <1>2
<1> QED
    BY <1>3, <1>4, <1>5 DEF SInv

LEMMA LoadTurn ==
    ASSUME IInv, SInv, NEW r \in Requests, Load(r)
    PROVE  SInv'
<1> DEFINE q == [reqs[r] EXCEPT !.base = Current, !.pc = "loaded"]
<1>1. /\ reqs[r] \in Request /\ reqs[r].pc = "load" /\ reqs[r].chunks = {}
      /\ reqs \in [Requests -> Request] /\ Len(appdata) \in Nat
    BY DEF IInv, RequestsOK, RequestOK, Load, VaultsOK
<1>2. reqs' = [reqs EXCEPT ![r] = q]
    <2>1. CASE appdata = <<>> /\ reqs' = [reqs EXCEPT
                   ![r].base = Registered(EmptyVault), ![r].pc = "loaded"]
        BY <1>1, <2>1, CurrentSound
    <2>2. ASSUME NEW n \in 1..Len(appdata),
                 reqs' = [reqs EXCEPT ![r].base = Registered(appdata[n]),
                                      ![r].pc = "loaded"]
          PROVE  reqs' = [reqs EXCEPT ![r] = q]
        <3>1. n = 1 /\ appdata # <<>>
            BY <1>1 DEF SInv
        <3>2. Registered(appdata[n]) = Current
            BY <3>1 DEF Current
        <3> QED
            BY <1>1, <2>2, <3>2
    <2> QED
        BY <2>1, <2>2 DEF Load
<1>3. /\ q.op = reqs[r].op /\ q.pc = "loaded" /\ q.base = Current
      /\ q.keys = reqs[r].keys /\ q.folder = reqs[r].folder
      /\ q.chunks = {}
    BY <1>1 DEF Request
<1> HIDE DEF q
<1>4. Follows(reqs[r], Now) /\ reqs[r].op # "idle"
    BY <1>1, OnesTurn
<1>5. Now.vault = Current
    BY DEF Now
<1>6. Follows(q, Now)
    BY <1>1, <1>3, <1>4, <1>5
    DEF Follows, UpToDate, KeysOK, UploadsOK, ErasesOK, AnswerOK, Loaded
<1> QED
    BY <1>1, <1>2, <1>6, QuietTurn DEF Load

-----------------------------------------------------------------------------
(* A request works on its copy.                                            *)

LEMMA PlanUploadTurn ==
    ASSUME IInv, SInv, NEW r \in Requests, PlanUpload(r)
    PROVE  SInv'
<1>1. /\ reqs[r] \in Request /\ reqs \in [Requests -> Request]
      /\ reqs[r].pc = "loaded" /\ Loaded(reqs[r]) /\ reqs[r].base \in Content
      /\ reqs[r].op = "complete"
    BY DEF IInv, RequestsOK, RequestOK, PlanUpload, Loaded, Sound
<1>2. UNCHANGED <<appdata, live, acked, doomed>>
    BY DEF PlanUpload
<1>3. ASSUME NEW D \in SUBSET reqs[r].base.accounts, D # {},
             reqs' = [reqs EXCEPT ![r].todo = D, ![r].pc = "upload"]
      PROVE  SInv'
    <2> DEFINE q == [reqs[r] EXCEPT !.todo = D, !.pc = "upload"]
    <2>1. D \subseteq Drives /\ reqs' = [reqs EXCEPT ![r] = q]
        BY <1>1, <1>3 DEF Content
    <2>2. Continues(q, reqs[r]) /\ q.pc = "upload" /\ q.todo = D
        BY <1>1, <2>1 DEF Continues, Request
    <2> HIDE DEF q
    <2> QED
        BY <1>1, <1>2, <1>3, <2>1, <2>2, FurtherTurn
<1>4. CASE reqs' = Answered(r, "refused")
    BY <1>1, <1>2, <1>4, QuietAnswer
<1> QED
    BY <1>3, <1>4 DEF PlanUpload

\* A task of an upload is over: more objects may exist, r has fewer tasks left.
LEMMA UploadsTurn ==
    ASSUME IInv, SInv, NEW r \in Requests, NEW q,
           reqs[r].pc = "upload", reqs' = [reqs EXCEPT ![r] = q],
           q.op = reqs[r].op, q.pc = reqs[r].pc, q.keys = reqs[r].keys,
           q.folder = reqs[r].folder, q.base = reqs[r].base,
           q.chunks \subseteq reqs[r].chunks \cup live', live \subseteq live',
           q.chunks # {} \/ q.failed # "no",
           UNCHANGED <<appdata, acked, doomed>>
    PROVE  SInv'
<1>1. reqs[r].op = "complete"
    BY DEF IInv, RequestsOK, RequestOK
<1>2. Follows(reqs[r], Now) /\ Active \subseteq {r}
    BY OnesTurn
<1>3. /\ Now'.live = live' /\ Now'.vault = Now.vault /\ Now'.acked = Now.acked
      /\ Now.live = live /\ Now'.files = Now.files
    BY DEF Now, Current
<1>4. Follows(q, Now')
    BY <1>1, <1>2, <1>3
    DEF Follows, UpToDate, KeysOK, UploadsOK, ErasesOK, AnswerOK, Loaded
<1>5. Len(appdata') <= 1 /\ AnswersStand' /\ ObjectsStand'
    BY DEF SInv, AnswersStand, ObjectsStand, Current
<1> QED
    BY <1>2, <1>4, <1>5, TurnKeeps

LEMMA UploadPartTurn ==
    ASSUME IInv, SInv, NEW r \in Requests, UploadPart(r)
    PROVE  SInv'
<1>1. PICK d \in reqs[r].todo, k \in reqs[r].keys :
          /\ live' = live \cup {[account |-> d, id |-> nextId]}
          /\ reqs' = [reqs EXCEPT ![r].todo = @ \ {d},
                 ![r].chunks = @ \cup {[account |-> d, id |-> nextId]}]
    BY DEF UploadPart
<1> DEFINE c == [account |-> d, id |-> nextId]
           q == [reqs[r] EXCEPT !.todo = @ \ {d}, !.chunks = @ \cup {c}]
<1>2. /\ reqs[r] \in Request /\ reqs \in [Requests -> Request]
      /\ reqs[r].pc = "upload"
    BY DEF IInv, RequestsOK, UploadPart
<1>3. /\ q.op = reqs[r].op /\ q.pc = reqs[r].pc /\ q.keys = reqs[r].keys
      /\ q.folder = reqs[r].folder /\ q.base = reqs[r].base
      /\ q.chunks = reqs[r].chunks \cup {c}
    BY <1>2 DEF Request
<1>4. reqs' = [reqs EXCEPT ![r] = q]
    BY <1>1, <1>2
<1>5. live' = live \cup {c} /\ UNCHANGED <<appdata, acked, doomed>>
    BY <1>1 DEF UploadPart
<1> HIDE DEF q, c
<1> QED
    BY <1>2, <1>3, <1>4, <1>5, UploadsTurn

LEMMA UploadPartFailsTurn ==
    ASSUME IInv, SInv, NEW r \in Requests, UploadPartFails(r)
    PROVE  SInv'
<1>1. PICK d \in reqs[r].todo :
          /\ live \subseteq live'
          /\ reqs' = [reqs EXCEPT ![r].todo = @ \ {d}, ![r].failed = "fault"]
    BY DEF UploadPartFails
<1> DEFINE q == [reqs[r] EXCEPT !.todo = @ \ {d}, !.failed = "fault"]
<1>2. /\ reqs[r] \in Request /\ reqs \in [Requests -> Request]
      /\ reqs[r].pc = "upload"
    BY DEF IInv, RequestsOK, UploadPartFails
<1>3. /\ q.op = reqs[r].op /\ q.pc = reqs[r].pc /\ q.keys = reqs[r].keys
      /\ q.folder = reqs[r].folder /\ q.base = reqs[r].base
      /\ q.chunks = reqs[r].chunks /\ q.failed = "fault"
    BY <1>2 DEF Request
<1>4. reqs' = [reqs EXCEPT ![r] = q]
    BY <1>1, <1>2
<1>5. UNCHANGED <<appdata, acked, doomed>>
    BY DEF UploadPartFails
<1> HIDE DEF q
<1> QED
    BY <1>1, <1>2, <1>3, <1>4, <1>5, UploadsTurn

\* r has found nothing, or nothing more, to do before it saves.
LEMMA SavesTurn ==
    ASSUME IInv, SInv, NEW r \in Requests, Loaded(reqs[r]),
           reqs' = [reqs EXCEPT ![r].pc = "save"],
           reqs[r].op = "complete" => reqs[r].chunks # {},
           UNCHANGED <<appdata, live, acked, doomed>>
    PROVE  SInv'
<1> DEFINE q == [reqs[r] EXCEPT !.pc = "save"]
<1>1. reqs[r] \in Request /\ reqs' = [reqs EXCEPT ![r] = q]
    BY DEF IInv, RequestsOK
<1>2. Continues(q, reqs[r]) /\ q.pc = "save"
    BY <1>1 DEF Continues, Request
<1> HIDE DEF q
<1>3. q.op = reqs[r].op /\ q.chunks = reqs[r].chunks
    BY <1>2 DEF Continues
<1> QED
    BY <1>1, <1>2, <1>3, FurtherTurn

LEMMA UploadDoneTurn ==
    ASSUME IInv, SInv, NEW r \in Requests, UploadDone(r)
    PROVE  SInv'
<1>1. /\ reqs[r].pc = "upload" /\ TasksDone(reqs[r]) /\ Loaded(reqs[r])
      /\ reqs[r].op = "complete"
      /\ UNCHANGED <<appdata, live, acked, doomed>>
    BY DEF UploadDone, Loaded, IInv, RequestsOK, RequestOK
<1>2. CASE reqs' = Answered(r, "error")
    BY <1>1, <1>2, QuietAnswer
<1>3. CASE reqs[r].failed = "no" /\ reqs' = [reqs EXCEPT ![r].pc = "save"]
    <2>1. Follows(reqs[r], Now)
        BY <1>1, OnesTurn
    <2>2. reqs[r].chunks # {}
        BY <1>1, <1>3, <2>1 DEF Follows, UploadsOK, TasksDone
    <2> QED
        BY <1>1, <1>3, <2>2, SavesTurn
<1> QED
    BY <1>2, <1>3 DEF UploadDone

LEMMA CheckConnectTurn ==
    ASSUME IInv, SInv, NEW r \in Requests, CheckConnect(r)
    PROVE  SInv'
<1>1. /\ reqs[r].pc = "loaded" /\ Loaded(reqs[r]) /\ reqs[r].op = "connect"
      /\ UNCHANGED <<appdata, live, acked, doomed>>
    BY DEF CheckConnect, Loaded
<1>2. reqs[r].keys = {}
    BY <1>1, OnesTurn DEF Follows, KeysOK
<1>3. \/ reqs' = Answered(r, "refused") \/ reqs' = Answered(r, "ok")
      \/ reqs' = [reqs EXCEPT ![r].pc = "save"]
    BY DEF CheckConnect
<1> QED
    BY <1>1, <1>2, <1>3, QuietAnswer, SavesTurn

LEMMA SaveDirectlyTurn ==
    ASSUME IInv, SInv, NEW r \in Requests, SaveDirectly(r)
    PROVE  SInv'
BY SavesTurn DEF SaveDirectly, Loaded

LEMMA PlanDeleteTurn ==
    ASSUME IInv, SInv, NEW r \in Requests, PlanDelete(r)
    PROVE  SInv'
<1> DEFINE found == UNION {reqs[r].base.files[k] : k \in reqs[r].keys}
           q == [reqs[r] EXCEPT !.todo = found, !.pc = "erase"]
           hit == {k \in reqs[r].keys : reqs[r].base.files[k] # {}}
<1>1. /\ reqs[r].pc = "loaded" /\ Loaded(reqs[r]) /\ Deletes(reqs[r])
      /\ reqs[r] \in Request /\ reqs \in [Requests -> Request]
      /\ reqs[r].keys \subseteq Keys /\ reqs[r].base \in Content
    BY DEF IInv, RequestsOK, PlanDelete, Loaded, Deletes, Request
<1>2. UNCHANGED <<appdata, live, acked>> /\ doomed' = doomed \cup hit
    BY DEF PlanDelete
<1>3. Follows(reqs[r], Now) /\ Active \subseteq {r} /\ Now.vault = Current
    BY <1>1, OnesTurn DEF Now
<1>4. AnswersStand' /\ ObjectsStand' /\ Len(appdata') <= 1
    BY <1>2 DEF SInv, AnswersStand, ObjectsStand, Current
<1>5. CASE reqs' = Answered(r, "refused")
    BY <1>1, <1>2, <1>4, <1>5, AnswerFollows
<1>6. CASE reqs' = [reqs EXCEPT ![r].todo = found, ![r].pc = "erase"]
    <2>1. reqs' = [reqs EXCEPT ![r] = q] /\ found \subseteq Chunk
        BY <1>1, <1>6 DEF Content
    <2>2. Continues(q, reqs[r]) /\ q.pc = "erase" /\ q.todo = found
        BY <1>1, <2>1 DEF Continues, Request
    <2>3. /\ Now'.vault = Current /\ Now'.acked = Now.acked
          /\ Now'.live = Now.live /\ Now'.doomed = doomed \cup hit
        BY <1>2 DEF Now, Current
    <2>4. reqs[r].base = Current
        BY <1>1, <1>3 DEF Follows, UpToDate
    <2> HIDE DEF q
    <2>5. Follows(q, Now')
        BY <1>1, <1>3, <2>2, <2>3, <2>4
        DEF Follows, UpToDate, KeysOK, UploadsOK, ErasesOK, AnswerOK, Loaded,
            Continues, Deletes
    <2> QED
        BY <1>3, <1>4, <2>1, <2>5, TurnKeeps
<1> QED
    BY <1>5, <1>6 DEF PlanDelete

\* A task of a delete is over, however it went: the only object that may be
\* gone is listed under a key r has set out to delete, and nowhere else.
LEMMA ErasesTurn ==
    ASSUME IInv, SInv, NEW r \in Requests, reqs[r].pc = "erase",
           NEW c \in reqs[r].todo, NEW how \in {"no", "fault", "missing"},
           reqs' = [reqs EXCEPT ![r].todo = @ \ {c}, ![r].failed = how],
           live \ {c} \subseteq live', UNCHANGED <<appdata, acked, doomed>>
    PROVE  SInv'
<1> DEFINE q == [reqs[r] EXCEPT !.todo = @ \ {c}, !.failed = how]
<1>1. /\ reqs[r] \in Request /\ reqs' = [reqs EXCEPT ![r] = q]
      /\ reqs[r].keys \subseteq Keys
    BY DEF IInv, RequestsOK, Request
<1>2. Continues(q, reqs[r]) /\ q.pc = "erase" /\ q.todo = reqs[r].todo \ {c}
    BY <1>1 DEF Continues, Request
<1> HIDE DEF q
<1>3. /\ Follows(reqs[r], Now) /\ Active \subseteq {r}
      /\ Now.vault = Current /\ Now.doomed = doomed
    BY OnesTurn DEF Now
<1>4. /\ Now'.vault = Now.vault /\ Now'.acked = Now.acked
      /\ Now'.doomed = Now.doomed
    BY DEF Now, Current
<1>5. Deletes(reqs[r])
    BY <1>3 DEF Follows, KeysOK
<1>6. Follows(q, Now')
    BY <1>2, <1>3, <1>4, <1>5
    DEF Follows, UpToDate, KeysOK, UploadsOK, ErasesOK, AnswerOK, Loaded,
        Continues, Deletes
<1>7. PICK k \in reqs[r].keys : c \in Current.files[k] /\ k \in doomed
    BY <1>3 DEF Follows, ErasesOK
<1>8. \A j \in Keys \ doomed : c \notin Current.files[j]
    <2> SUFFICES ASSUME NEW j \in Keys, j \notin doomed, c \in Current.files[j]
                 PROVE  FALSE
        OBVIOUS
    <2>1. <<c, j>> \in made /\ <<c, k>> \in made
        BY <1>1, <1>7, CurrentSound DEF Sound
    <2> QED
        BY <1>7, <2>1 DEF IInv, MadeOnce
<1>9. AnswersStand' /\ ObjectsStand' /\ Len(appdata') <= 1
    BY <1>8 DEF SInv, AnswersStand, ObjectsStand, Current
<1> QED
    BY <1>1, <1>3, <1>6, <1>9, TurnKeeps

LEMMA ErasePartTurn ==
    ASSUME IInv, SInv, NEW r \in Requests, ErasePart(r)
    PROVE  SInv'
<1>1. reqs[r] \in Request /\ reqs[r].pc = "erase"
    BY DEF IInv, RequestsOK, ErasePart
<1>2. PICK c \in reqs[r].todo :
          /\ live' = live \ {c}
          /\ reqs' = [reqs EXCEPT ![r].todo = @ \ {c},
                                  ![r].failed =
                                      IF c \in live THEN @ ELSE "missing"]
    BY DEF ErasePart
<1> DEFINE how == IF c \in live THEN reqs[r].failed ELSE "missing"
<1>3. how \in {"no", "fault", "missing"}
    BY <1>1 DEF Request
<1>4. reqs' = [reqs EXCEPT ![r].todo = @ \ {c}, ![r].failed = how]
    BY <1>1, <1>2 DEF IInv, RequestsOK, Request
<1>5. live \ {c} \subseteq live' /\ UNCHANGED <<appdata, acked, doomed>>
    BY <1>2 DEF ErasePart
<1> HIDE DEF how
<1> QED
    BY <1>1, <1>2, <1>3, <1>4, <1>5, ErasesTurn

LEMMA ErasePartFailsTurn ==
    ASSUME IInv, SInv, NEW r \in Requests, ErasePartFails(r)
    PROVE  SInv'
<1>1. PICK c \in reqs[r].todo :
          /\ live' \in {live, live \ {c}}
          /\ reqs' = [reqs EXCEPT ![r].todo = @ \ {c}, ![r].failed = "fault"]
    BY DEF ErasePartFails
<1>2. /\ live \ {c} \subseteq live' /\ reqs[r].pc = "erase"
      /\ UNCHANGED <<appdata, acked, doomed>>
    BY <1>1 DEF ErasePartFails
<1> QED
    BY <1>1, <1>2, ErasesTurn

LEMMA EraseDoneTurn ==
    ASSUME IInv, SInv, NEW r \in Requests, EraseDone(r)
    PROVE  SInv'
<1>1. /\ reqs[r].pc = "erase" /\ Loaded(reqs[r])
      /\ UNCHANGED <<appdata, live, acked, doomed>>
    BY DEF EraseDone, Loaded
<1>2. reqs[r].op # "complete"
    BY <1>1, OnesTurn DEF Follows, KeysOK, Deletes
<1>3. CASE reqs' = Answered(r, "error")
    BY <1>1, <1>3, QuietAnswer
<1>4. CASE reqs' = [reqs EXCEPT ![r].pc = "save"]
    BY <1>1, <1>2, <1>4, SavesTurn
<1> QED
    BY <1>3, <1>4 DEF EraseDone

-----------------------------------------------------------------------------
(* A request saves its copy and answers.                                   *)

LEMMA FindVaultTurn ==
    ASSUME IInv, SInv, NEW r \in Requests, FindVault(r)
    PROVE  SInv'
<1>1. PICK n \in 0..Len(appdata) :
          /\ n = 0 <=> appdata = <<>>
          /\ reqs' = [reqs EXCEPT ![r].slot = n, ![r].pc = "write"]
    BY DEF FindVault
<1> DEFINE q == [reqs[r] EXCEPT !.slot = n, !.pc = "write"]
<1>2. /\ reqs[r] \in Request /\ reqs' = [reqs EXCEPT ![r] = q]
      /\ reqs[r].pc = "save" /\ Len(appdata) \in Nat
      /\ UNCHANGED <<appdata, live, acked, doomed>>
    <2>1. reqs[r] \in Request /\ reqs' = [reqs EXCEPT ![r] = q]
        BY <1>1 DEF IInv, RequestsOK
    <2>2. reqs[r].pc = "save" /\ UNCHANGED <<appdata, live, acked, doomed>>
        BY DEF FindVault
    <2>3. Len(appdata) \in Nat
        BY DEF IInv, VaultsOK
    <2> HIDE DEF q
    <2> QED
        BY <2>1, <2>2, <2>3
<1>3. n = Len(appdata) /\ n \in Nat
    BY <1>1, <1>2 DEF SInv, IInv, VaultsOK
<1>4. /\ q.op = reqs[r].op /\ q.keys = reqs[r].keys
      /\ q.folder = reqs[r].folder /\ q.base = reqs[r].base
      /\ q.chunks = reqs[r].chunks /\ q.slot = n /\ q.pc = "write"
    BY <1>2, <1>3 DEF Request
<1> HIDE DEF q
<1>5. Follows(reqs[r], Now) /\ Now.files = Len(appdata)
    BY <1>2, OnesTurn DEF Now
<1>6. Follows(q, Now)
    BY <1>2, <1>3, <1>4, <1>5
    DEF Follows, UpToDate, KeysOK, UploadsOK, ErasesOK, AnswerOK, Loaded
<1> QED
    BY <1>2, <1>6, QuietTurn

\* What a save does to the entries: those of the request's keys are replaced.
LEMMA ChangedFiles ==
    ASSUME NEW q, q \in Request, q.op # "idle", KeysOK(q), q.pc = "write",
           NEW k \in Keys
    PROVE  Changed(q).files[k] =
               IF k \notin q.keys THEN q.base.files[k]
               ELSE IF q.op = "complete" THEN q.chunks ELSE {}
<1> DEFINE v == q.base
<1>1. /\ v \in Content /\ q.op \in OpNames /\ q.keys \subseteq Keys
      /\ q.op = "rmfolder" => q.keys = Inside[q.folder]
      /\ q.op \in {"mkfolder", "connect", "login"} => q.keys = {}
    BY DEF Request, KeysOK, Loaded
<1>2. \A K, C : RecordFile(v, K, C).files[k] = IF k \in K THEN C ELSE v.files[k]
    BY <1>1 DEF RecordFile, Content
<1>3. \A K, F : [RecordFile(v, K, {}) EXCEPT !.folders = F].files =
                    RecordFile(v, K, {}).files
    BY <1>1 DEF RecordFile, Content
<1>4. CASE q.op = "complete"
    BY <1>2, <1>4 DEF Changed
<1>5. CASE q.op \in {"delete", "batch"}
    BY <1>2, <1>5 DEF Changed, RemoveFiles
<1>6. CASE q.op = "rmfolder"
    <2>1. Changed(q).files = RecordFile(v, q.keys, {}).files
        BY <1>1, <1>3, <1>6 DEF Changed, DeleteFolder, RemoveFiles
    <2> QED
        BY <1>2, <1>6, <2>1
<1>7. CASE q.op = "mkfolder"
    BY <1>1, <1>7 DEF Changed, CreateFolder, Content
<1>8. CASE q.op = "connect"
    BY <1>1, <1>8 DEF Changed, AddAccount, Content
<1>9. CASE q.op = "login"
    BY <1>1, <1>9 DEF Changed
<1> QED
    BY <1>1, <1>4, <1>5, <1>6, <1>7, <1>8, <1>9 DEF OpNames

\* What is saved is what the user has from then on.
LEMMA SavedIsCurrent ==
    ASSUME IInv, SInv, NEW r \in Requests, reqs[r].pc = "write",
           appdata' = Written(r)
    PROVE  /\ Len(appdata') = 1
           /\ Current' = Changed(reqs[r]) /\ reqs[r].base = Current
<1> DEFINE v == Changed(reqs[r])
           n == reqs[r].slot
<1>1. Follows(reqs[r], Now) /\ Now.files = Len(appdata) /\ Now.vault = Current
    BY OnesTurn DEF Now
<1>2. n = Len(appdata) /\ reqs[r].base = Current
    BY <1>1 DEF Follows, UpToDate, Loaded
<1>3. /\ Sound(v, made) /\ v \in Content /\ appdata \in Seq(Content)
      /\ Len(appdata) \in {0, 1}
    <2>1. RequestOK(reqs[r], made, Len(appdata)) /\ Len(appdata) \in Nat
        BY DEF IInv, RequestsOK, VaultsOK
    <2>2. Sound(v, made)
        BY <2>1, ChangedSound
    <2>3. Len(appdata) <= 1 /\ appdata \in Seq(Content)
        BY DEF SInv, IInv, VaultsOK
    <2> HIDE DEF v, n
    <2>4. Len(appdata) \in Nat /\ Len(appdata) <= 1
        BY DEF SInv, IInv, VaultsOK
    <2>5. \A m \in Nat : m <= 1 => m \in {0, 1}
        OBVIOUS
    <2>6. Len(appdata) \in {0, 1}
        BY <2>4, <2>5
    <2> QED
        BY <2>2, <2>3, <2>6 DEF Sound
<1>4. appdata' = IF n = 0 THEN Append(appdata, v) ELSE [appdata EXCEPT ![n] = v]
    BY DEF Written
<1>5. Registered(v) = v
    BY <1>3, RegisteredIs
<1> HIDE DEF v, n
<1>6. Len(appdata') = 1 /\ appdata' # <<>> /\ appdata'[1] = v
    BY <1>2, <1>3, <1>4
<1>7. Current' = Registered(appdata'[1])
    BY <1>6 DEF Current
<1> QED
    BY <1>2, <1>5, <1>6, <1>7 DEF v

\* The write reaches Drive, whether or not its answer reaches the server.
LEMMA WrittenTurn ==
    ASSUME IInv, SInv, NEW r \in Requests, reqs[r].pc = "write",
           NEW status \in {"ok", "refused", "error"},
           appdata' = Written(r), reqs' = Answered(r, status),
           doomed' = Mended(r), UNCHANGED <<live, acked>>
    PROVE  SInv'
<1> DEFINE q == reqs[r]
<1>1. /\ Len(appdata') = 1 /\ Current' = Changed(q) /\ q.base = Current
    BY SavedIsCurrent
<1>2. /\ Follows(q, Now) /\ q.op # "idle" /\ q \in Request
      /\ q.keys \subseteq Keys
    BY OnesTurn DEF IInv, RequestsOK, Request
<1>3. \A k \in Keys : Current'.files[k] =
          IF k \notin q.keys THEN Current.files[k]
          ELSE IF q.op = "complete" THEN q.chunks ELSE {}
    <2>1. KeysOK(q)
        BY <1>2 DEF Follows
    <2> HIDE DEF q
    <2>2. q.pc = "write"
        BY DEF q
    <2> QED
        BY <1>1, <1>2, <2>1, <2>2, ChangedFiles
<1>4. /\ q.op = "complete" => q.chunks # {} /\ q.chunks \subseteq live
      /\ \A k \in q.keys : acked[k] = "unknown"
    BY <1>2 DEF Follows, UploadsOK, AnswerOK, Now
<1>5. AnswersStand'
    BY <1>3, <1>4 DEF AnswersStand, SInv
<1>6. ObjectsStand'
    BY <1>3, <1>4 DEF ObjectsStand, SInv, Mended
<1>7. \A k \in q.keys : Current'.files[k] # {} <=> q.op = "complete"
    BY <1>2, <1>3, <1>4
<1> QED
    BY <1>1, <1>5, <1>6, <1>7, AnswerFollows

LEMMA WriteVaultTurn ==
    ASSUME IInv, SInv, NEW r \in Requests, WriteVault(r)
    PROVE  SInv'
BY WrittenTurn DEF WriteVault

LEMMA VaultCallFailsTurn ==
    ASSUME IInv, SInv, NEW r \in Requests, VaultCallFails(r)
    PROVE  SInv'
<1>1. /\ reqs' = Answered(r, "error") /\ UNCHANGED <<live, acked>>
      /\ reqs[r].pc # "idle"
    BY DEF VaultCallFails
<1>2. CASE UNCHANGED <<appdata, doomed>>
    BY <1>1, <1>2, QuietAnswer
<1>3. CASE /\ reqs[r].pc = "write" /\ appdata' = Written(r)
           /\ doomed' = Mended(r)
    BY <1>1, <1>3, WrittenTurn
<1> QED
    BY <1>2, <1>3 DEF VaultCallFails

\* The user is told what is the case.
LEMMA ReplyTurn ==
    ASSUME IInv, SInv, NEW r \in Requests, Reply(r)
    PROVE  SInv'
<1> DEFINE q == reqs[r]
           told == IF q.op = "complete" THEN "listed" ELSE "gone"
<1>1. /\ q.pc = "reply" /\ reqs' = [reqs EXCEPT ![r] = Idle]
      /\ UNCHANGED <<appdata, live, doomed>>
    BY DEF Reply
<1>2. \A k \in Keys : acked'[k] =
          IF k \in q.keys /\ q.status = "ok"
             /\ (\A s \in Active \ {r} : k \notin reqs[s].keys)
          THEN told ELSE acked[k]
    BY DEF Reply
<1>3. Follows(q, Now) /\ Active \subseteq {r} /\ Now.vault = Current
    BY <1>1, OnesTurn DEF Now
<1>4. q.status = "ok" => \A k \in q.keys : Current.files[k] # {} <=> told = "listed"
    BY <1>1, <1>3 DEF Follows, AnswerOK
<1>5. told \in {"listed", "gone"}
    OBVIOUS
<1>6. Follows(Idle, Now')
    BY IdleFollows DEF Idle
<1> HIDE DEF told
<1>7. AnswersStand'
    BY <1>1, <1>2, <1>4, <1>5 DEF AnswersStand, SInv, Current
<1>8. ObjectsStand' /\ Len(appdata') <= 1
    BY <1>1 DEF SInv, ObjectsStand, Current
<1> HIDE DEF q
<1> QED
    BY <1>1, <1>3, <1>6, <1>7, <1>8, TurnKeeps

-----------------------------------------------------------------------------
(* The invariant, and what follows from it.                                *)

LEMMA StageTurn ==
    ASSUME SInv, NEW k \in Keys, Stage(k)
    PROVE  SInv'
BY DEF Stage, SInv, InTurn, Active, AnswersStand, ObjectsStand, Current, Now

LEMMA StepTurn ==
    ASSUME IInv, SInv, NEW r \in Requests, Step(r) \/ StepFails(r)
    PROVE  SInv'
<1>1. CASE Step(r)
    BY <1>1, LoadTurn, PlanUploadTurn, UploadPartTurn, UploadDoneTurn,
       PlanDeleteTurn, ErasePartTurn, EraseDoneTurn, CheckConnectTurn,
       SaveDirectlyTurn, FindVaultTurn, WriteVaultTurn, ReplyTurn DEF Step
<1>2. CASE StepFails(r)
    BY <1>2, UploadPartFailsTurn, ErasePartFailsTurn, VaultCallFailsTurn
    DEF StepFails
<1> QED
    BY <1>1, <1>2

LEMMA SerialNext ==
    ASSUME Serial, IInv, SInv, [Next]_vars
    PROVE  SInv'
<1>1. ASSUME NEW k \in Keys, Stage(k) PROVE SInv'
    BY <1>1, StageTurn
<1>2. ASSUME NEW r \in Requests, Arrive(r) PROVE SInv'
    BY <1>2, ArriveTurn
<1>3. ASSUME NEW r \in Requests, Step(r) \/ StepFails(r) PROVE SInv'
    BY <1>3, StepTurn
<1>4. CASE Crash
    BY <1>4, CrashTurn
<1>5. CASE UNCHANGED vars
    BY <1>5 DEF vars, SInv, InTurn, Active, AnswersStand, ObjectsStand,
               Current, Now
<1> QED
    BY <1>1, <1>2, <1>3, <1>4, <1>5 DEF Next

\* When requests do not overlap, the one under way has the vault as it is: there
\* is one vault file, and what it has found out about its keys stays true.
THEOREM SerialInvariance ==
    ASSUME Serial
    PROVE  Spec => []SInv
<1>1. IInv /\ SInv /\ [Next]_vars => SInv'
    BY SerialNext
<1> QED
    BY <1>1, InitSerial, Invariance, PTL DEF Spec

\* The answers of upload_complete, delete_file, batch_delete_files and
\* delete_folder hold, whatever fails in between: what was answered with "ok" is
\* listed, or is not, until a request for it is begun.
THEOREM SerialAnswersHold ==
    ASSUME Serial
    PROVE  Spec => []AnswersHold
<1>1. IInv /\ SInv => AnswersHold
    <2> SUFFICES ASSUME IInv, SInv, NEW n \in 1..Len(appdata)
                 PROVE  appdata[n] = Current
        BY DEF AnswersHold, SInv, AnswersStand
    <2>1. Len(appdata) \in Nat /\ Len(appdata) <= 1
        BY DEF IInv, VaultsOK, SInv
    <2>2. n = 1 /\ appdata # <<>>
        BY <2>1
    <2> QED
        BY <2>2, CurrentSound
<1> QED
    BY <1>1, SerialInvariance, Invariance, PTL

\* Failed uploads, crashes and requests for other files never cost a listed file
\* an object: only a delete of that file that stopped half way does.
THEOREM SerialListedIsStored ==
    ASSUME Serial
    PROVE  Spec => []ListedIsStored
<1>1. IInv /\ SInv => ListedIsStored
    <2> SUFFICES ASSUME IInv, SInv, NEW n \in 1..Len(appdata)
                 PROVE  appdata[n] = Current
        BY DEF ListedIsStored, SInv, ObjectsStand
    <2>1. Len(appdata) \in Nat /\ Len(appdata) <= 1
        BY DEF IInv, VaultsOK, SInv
    <2>2. n = 1 /\ appdata # <<>>
        BY <2>1
    <2> QED
        BY <2>2, CurrentSound
<1> QED
    BY <1>1, SerialInvariance, Invariance, PTL

-----------------------------------------------------------------------------
(* Each request that saves makes one change to the index of Pool, and no   *)
(* other step makes any.                                                   *)

LEMMA InitPool == Init => P!Init
<1> SUFFICES ASSUME Init PROVE P!Init
    OBVIOUS
<1>1. Current = Registered(EmptyVault)
    BY DEF Init, Current
<1>2. Registered(EmptyVault) = P!EmptyIndex
    BY DEF Registered, EmptyVault, P!EmptyIndex
<1> QED
    BY <1>1, <1>2 DEF P!Init

\* Pool and VaultStore count the accounts alike.
LEMMA SameCardinality == \A S : P!Cardinality(S) = Cardinality(S)
BY DEF P!Cardinality, Cardinality

LEMMA PutPool ==
    ASSUME IInv, SInv, NEW r \in Requests, reqs[r].pc = "write",
           reqs[r].op = "complete", Current' = Changed(reqs[r]),
           reqs[r].base = Current
    PROVE  P!Next
<1> DEFINE q == reqs[r]
<1>1. RequestOK(q, made, Len(appdata)) /\ Follows(q, Now)
    BY OnesTurn DEF IInv, RequestsOK
<1>2. q.chunks # {} /\ q.chunks \subseteq Chunk
    BY <1>1 DEF Follows, UploadsOK, RequestOK, Request
<1>3. PICK k \in Keys : q.keys = {k}
    BY <1>1 DEF RequestOK
<1>4. \A c \in q.chunks : c.account \in Current.accounts /\ <<c, k>> \in made
    BY <1>1, <1>3 DEF RequestOK
<1>5. Current \in Content /\ \A j \in Keys : \A c \in Current.files[j] :
          <<c, j>> \in made
    BY CurrentSound DEF Sound
<1>6. \A j \in Keys \ {k} : Current.files[j] \cap q.chunks = {}
    <2> SUFFICES ASSUME NEW j \in Keys, j # k, NEW c \in Current.files[j],
                        c \in q.chunks
                 PROVE  FALSE
        OBVIOUS
    <2>1. <<c, j>> \in made /\ <<c, k>> \in made
        BY <1>4, <1>5
    <2> QED
        BY <2>1 DEF IInv, MadeOnce
<1>7. Current' = [Current EXCEPT !.files[k] = q.chunks]
    <2>1. Current' = RecordFile(Current, {k}, q.chunks)
        BY <1>3 DEF Changed
    <2>2. [j \in Keys |-> IF j \in {k} THEN q.chunks ELSE Current.files[j]] =
              [Current.files EXCEPT ![k] = q.chunks]
        BY <1>5 DEF Content
    <2> QED
        BY <1>5, <2>1, <2>2 DEF RecordFile, Content
<1>8. Current'.files[k] = q.chunks
    BY <1>5, <1>7 DEF Content
<1> HIDE DEF q
<1>9. P!Put(k)
    BY <1>2, <1>4, <1>6, <1>7, <1>8 DEF P!Put
<1> QED
    BY <1>9 DEF P!Next

LEMMA RemovePool ==
    ASSUME NEW K, NEW F, NEW v, v \in Content, v = Current,
           Current' = [RemoveFiles(v, K) EXCEPT !.folders = @ \ F]
    PROVE  P!Remove(K, F)
BY DEF P!Remove, RemoveFiles, RecordFile, Content

\* Each route's save is the operation of Pool it stands for; a login saves the
\* index as it is.
LEMMA SavePool ==
    ASSUME IInv, SInv, NEW r \in Requests, reqs[r].pc = "write",
           appdata' = Written(r)
    PROVE  P!Next \/ UNCHANGED Current
<1> DEFINE q == reqs[r]
<1>1. Current' = Changed(q) /\ q.base = Current
    BY SavedIsCurrent
<1>2. /\ RequestOK(q, made, Len(appdata)) /\ KeysOK(q)
      /\ q.op \in OpNames /\ q.keys \subseteq Keys
    BY OnesTurn DEF IInv, RequestsOK, RequestOK, Request, Follows
<1>3. Current \in Content
    BY CurrentSound DEF Sound
<1>4. CASE q.op = "complete"
    BY <1>1, <1>4, PutPool
<1>5. CASE q.op \in {"delete", "batch"}
    <2>1. Current' = [RemoveFiles(Current, q.keys) EXCEPT !.folders = @ \ {}]
        BY <1>1, <1>3, <1>5 DEF Changed, RemoveFiles, RecordFile, Content
    <2>2. P!Remove(q.keys, {})
        BY <1>3, <2>1, RemovePool
    <2> QED
        BY <1>2, <2>2 DEF P!Next
<1>6. CASE q.op = "rmfolder"
    <2>1. q.folder \in Folders
        BY <1>2, <1>6 DEF RequestOK
    <2>2. Current' = [RemoveFiles(Current, Inside[q.folder])
                          EXCEPT !.folders = @ \ Below[q.folder]]
        BY <1>1, <1>6 DEF Changed, DeleteFolder
    <2>3. P!DeleteFolder(q.folder)
        BY <1>3, <2>2, RemovePool DEF P!DeleteFolder
    <2> QED
        BY <2>1, <2>3 DEF P!Next
<1>7. CASE q.op = "mkfolder"
    <2>1. q.folder \in Folders
        BY <1>2, <1>7 DEF RequestOK
    <2>2. P!CreateFolder(q.folder)
        BY <1>1, <1>7 DEF Changed, CreateFolder, P!CreateFolder
    <2> QED
        BY <2>1, <2>2 DEF P!Next
<1>8. CASE q.op = "connect"
    <2>1. q.drive \in Drives /\ Cardinality(q.base.accounts) < MaxDrives
        BY <1>2, <1>8 DEF RequestOK
    <2>2. Current' = AddAccount(Current, q.drive)
        BY <1>1, <1>8 DEF Changed
    <2>3. P!Connect(q.drive)
        BY <1>1, <2>1, <2>2, SameCardinality DEF AddAccount, P!Connect
    <2> QED
        BY <2>1, <2>3 DEF P!Next
<1>9. CASE q.op = "login"
    BY <1>1, <1>9 DEF Changed
<1> QED
    BY <1>2, <1>4, <1>5, <1>6, <1>7, <1>8, <1>9 DEF OpNames

LEMMA StepPool ==
    ASSUME IInv, SInv, [Next]_vars
    PROVE  [P!Next]_Current
<1>1. CASE UNCHANGED appdata
    BY <1>1 DEF Current
<1>2. CASE \E r \in Requests : reqs[r].pc = "write" /\ appdata' = Written(r)
    BY <1>2, SavePool
<1>3. UNCHANGED appdata \/ \E r \in Requests :
          reqs[r].pc = "write" /\ appdata' = Written(r)
    <2>1. ASSUME NEW r \in Requests, Arrive(r) PROVE UNCHANGED appdata
        BY <2>1 DEF Arrive, Begin
    <2>2. ASSUME NEW r \in Requests, Step(r)
          PROVE  \/ UNCHANGED appdata
                 \/ reqs[r].pc = "write" /\ appdata' = Written(r)
        BY <2>2 DEF Step, Load, PlanUpload, UploadPart, UploadDone,
            PlanDelete, ErasePart, EraseDone, CheckConnect, SaveDirectly,
            FindVault, WriteVault, Reply
    <2>3. ASSUME NEW r \in Requests, StepFails(r)
          PROVE  \/ UNCHANGED appdata
                 \/ reqs[r].pc = "write" /\ appdata' = Written(r)
        BY <2>3 DEF StepFails, UploadPartFails, ErasePartFails, VaultCallFails
    <2> QED
        BY <2>1, <2>2, <2>3 DEF Next, Stage, Crash, vars
<1> QED
    BY <1>1, <1>2, <1>3

\* Requests that do not overlap implement the one-operation-at-a-time index:
\* whatever fails or dies, each saves exactly its own change, at the one point
\* where write_vault_raw replaces the vault file, or nothing.
THEOREM SerialImplementsPool ==
    ASSUME Serial
    PROVE  Spec => ImplementsPool
<1>1. IInv /\ SInv /\ [Next]_vars => [P!Next]_Current
    BY StepPool
<1> QED
    BY <1>1, InitPool, SerialInvariance, Invariance, PTL
    DEF Spec, ImplementsPool, P!Spec
=============================================================================
