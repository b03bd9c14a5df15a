-------------------------- MODULE VaultStore_proofs --------------------------
(***************************************************************************)
(* For any number of overlapping requests, keys, folders and drives, and   *)
(* whatever calls fail: every vault that is ever saved is consistent in    *)
(* itself, and no object belongs to two of its entries.                    *)
(*                                                                         *)
(* A request saves the vault it loaded, however old, with its own change.  *)
(* What makes this safe is that consistency of a copy is never lost while  *)
(* the copy is held: it only speaks of the copy and of the objects ever    *)
(* made, of which there are only more.  The change keeps it because a      *)
(* request's chunks are on drives of its own copy and were made for its    *)
(* own key, and because the limit was tested on the very copy it saves.    *)
(***************************************************************************)
EXTENDS VaultStore, FiniteSetTheorems, TLAPS

\* v is consistent, given the objects M made so far.
Sound(v, M) ==
    /\ v \in Content
    /\ Primary \in v.accounts
    /\ Cardinality(v.accounts) <= MaxDrives
    /\ \A k \in Keys : \A c \in v.files[k] :
          c.account \in v.accounts /\ <<c, k>> \in M

\* A request that has loaded the vault and not answered yet.
Loaded(q) == q.pc \in {"loaded", "upload", "erase", "save", "write"}

\* What is true of a request, given the objects made and the n vault files.
RequestOK(q, M, n) ==
    /\ q \in Request
    /\ Loaded(q) => Sound(q.base, M)
    /\ q.op = "complete" => \E k \in Keys : q.keys = {k}
    /\ q.op \in {"mkfolder", "rmfolder"} /\ q.pc # "reply" =>
          q.folder \in Folders
    /\ q.op = "connect" /\ q.pc # "reply" => q.drive \in Drives
    /\ q.pc = "load" => q.chunks = {}
    /\ q.pc = "upload" => q.op = "complete" /\ q.todo \subseteq q.base.accounts
    /\ q.pc = "erase" => q.op # "connect" /\ q.todo \subseteq Chunk
    /\ \A c \in q.chunks :
          c.account \in q.base.accounts /\ \A k \in q.keys : <<c, k>> \in M
    /\ q.op = "connect" /\ q.pc \in {"save", "write"} =>
          Cardinality(q.base.accounts) < MaxDrives
    /\ q.slot <= n

\* Everything but the requests and the vault files has its type.
OthersOK ==
    /\ live \subseteq Chunk
    /\ nextId \in Nat /\ begun \in Nat /\ faults \in Nat
    /\ staged \subseteq Keys /\ doomed \subseteq Keys
    /\ made \subseteq Chunk \X Keys
    /\ acked \in [Keys -> {"unknown", "listed", "gone"}]

VaultsOK ==
    /\ appdata \in Seq(Content)
    /\ \A n \in 1..Len(appdata) : Sound(appdata[n], made)

RequestsOK ==
    /\ reqs \in [Requests -> Request]
    /\ \A r \in Requests : RequestOK(reqs[r], made, Len(appdata))

\* An object is made once, for one key.
MadeOnce ==
    /\ \A m \in made : m[1].id < nextId
    /\ \A m1, m2 \in made : m1[1] = m2[1] => m1[2] = m2[2]

IInv == OthersOK /\ VaultsOK /\ RequestsOK /\ MadeOnce

-----------------------------------------------------------------------------
\* More objects and more vault files change nothing for a request.
LEMMA Lasts ==
    ASSUME NEW q, NEW M, NEW M2, NEW n \in Nat, NEW n2 \in Nat,
           M \subseteq M2, n <= n2, RequestOK(q, M, n)
    PROVE  RequestOK(q, M2, n2)
BY DEF RequestOK, Sound, Request

\* One request moves on to q, the others stay where they are.
LEMMA OneMoves ==
    ASSUME RequestsOK, VaultsOK, NEW r \in Requests, NEW q,
           reqs' = [reqs EXCEPT ![r] = q],
           made \subseteq made', Len(appdata') \in Nat,
           Len(appdata) <= Len(appdata'),
           RequestOK(q, made', Len(appdata'))
    PROVE  RequestsOK'
<1>1. Len(appdata) \in Nat
    BY DEF VaultsOK
<1>2. q \in Request
    BY DEF RequestOK
<1>3. reqs' \in [Requests -> Request]
    BY <1>2 DEF RequestsOK
<1>4. ASSUME NEW s \in Requests
      PROVE  RequestOK(reqs'[s], made', Len(appdata'))
    <2>1. CASE s = r
        BY <2>1 DEF RequestsOK
    <2>2. CASE s # r
        <3>1. reqs'[s] = reqs[s]
            BY <2>2 DEF RequestsOK
        <3>2. RequestOK(reqs[s], made, Len(appdata))
            BY DEF RequestsOK
        <3> QED
            BY <1>1, <3>1, <3>2, Lasts
    <2> QED
        BY <2>1, <2>2
<1> QED
    BY <1>3, <1>4 DEF RequestsOK

\* A step of one request that touches nothing the vaults rest on.
LEMMA OnlyMoves ==
    ASSUME IInv, NEW r \in Requests, NEW q,
           reqs' = [reqs EXCEPT ![r] = q],
           UNCHANGED <<appdata, nextId, made>>,
           OthersOK',
           RequestOK(q, made, Len(appdata))
    PROVE  IInv'
<1>1. Len(appdata) \in Nat
    BY DEF IInv, VaultsOK
<1>2. RequestOK(q, made', Len(appdata'))
    OBVIOUS
<1>3. made \subseteq made' /\ Len(appdata') \in Nat
      /\ Len(appdata) <= Len(appdata')
    BY <1>1
<1>4. RequestsOK /\ VaultsOK
    BY DEF IInv
<1>5. RequestsOK'
    BY <1>2, <1>3, <1>4, OneMoves
<1> QED
    BY <1>5 DEF IInv, VaultsOK, MadeOnce

\* A request that waits to be told what to do.
LEMMA IdleOK ==
    ASSUME NEW M, NEW n \in Nat
    PROVE  RequestOK(Idle, M, n)
BY DEF RequestOK, Idle, Request, Loaded, EmptyVault, Content

LEMMA AnsweredOK ==
    ASSUME IInv, NEW r \in Requests,
           NEW status \in {"ok", "refused", "error"}
    PROVE  \E q : /\ Answered(r, status) = [reqs EXCEPT ![r] = q]
                 /\ RequestOK(q, made, Len(appdata))
<1> DEFINE q == [Idle EXCEPT !.op = reqs[r].op, !.keys = reqs[r].keys,
                             !.pc = "reply", !.status = status]
<1>1. RequestOK(reqs[r], made, Len(appdata)) /\ Len(appdata) \in Nat
    BY DEF IInv, RequestsOK, VaultsOK
<1>2. RequestOK(q, made, Len(appdata))
    <2>1. /\ q.op = reqs[r].op /\ q.keys = reqs[r].keys /\ q.pc = "reply"
          /\ q.chunks = {} /\ q.slot = 0
        BY DEF Idle
    <2>2. Idle \in Request
        BY IdleOK DEF RequestOK
    <2>3. q \in Request
        BY <1>1, <2>2, ZenonT(60) DEF RequestOK, Request, Idle
    <2> HIDE DEF q
    <2> QED
        BY <1>1, <2>1, <2>3 DEF RequestOK, Loaded
<1>3. Answered(r, status) = [reqs EXCEPT ![r] = q]
    BY DEF Answered
<1> QED
    BY <1>2, <1>3

LEMMA EmptySound == Sound(Registered(EmptyVault), made)
<1>1. {} \cup {Primary} = {Primary} /\ Cardinality({Primary}) = 1
    BY FS_Singleton
<1> QED
    BY <1>1, PrimaryAssumption, MaxDrivesAssumption
    DEF Sound, Registered, EmptyVault, Content

LEMMA InitInv == Init => IInv
<1> SUFFICES ASSUME Init PROVE IInv
    OBVIOUS
<1>1. \A r \in Requests : RequestOK(Idle, made, 0)
    BY IdleOK
<1>2. Idle \in Request
    BY IdleOK DEF RequestOK
<1> QED
    BY <1>1, <1>2 DEF Init, IInv, OthersOK, VaultsOK, RequestsOK, MadeOnce

-----------------------------------------------------------------------------
(* Requests arrive and load the vault.                                     *)

LEMMA BeginKeeps ==
    ASSUME IInv, NEW r \in Requests, NEW op \in OpNames, NEW K \in SUBSET Keys,
           NEW f \in Folders \cup {NONE}, NEW d \in Drives \cup {NONE},
           op = "complete" => \E k \in Keys : K = {k},
           op \in {"mkfolder", "rmfolder"} => f \in Folders,
           op = "connect" => d \in Drives,
           Begin(r, op, K, f, d)
    PROVE  IInv'
<1> DEFINE q == [Idle EXCEPT !.op = op, !.pc = "load", !.keys = K,
                             !.folder = f, !.drive = d]
<1>1. Idle \in Request
    BY IdleOK DEF RequestOK
<1>2. q \in Request
    BY <1>1 DEF Request, Idle
<1>3. /\ q.op = op /\ q.pc = "load" /\ q.keys = K /\ q.folder = f
      /\ q.drive = d /\ q.chunks = {} /\ q.slot = 0
    BY DEF Idle
<1>4. reqs' = [reqs EXCEPT ![r] = q]
    BY DEF Begin
<1> HIDE DEF q
<1>5. RequestOK(q, made, Len(appdata))
    BY <1>2, <1>3 DEF RequestOK, Loaded, IInv, VaultsOK
<1>6. OthersOK' /\ UNCHANGED <<appdata, nextId, made>>
    BY DEF Begin, IInv, OthersOK
<1> QED
    BY <1>4, <1>5, <1>6, OnlyMoves

LEMMA ArriveKeeps ==
    ASSUME IInv, NEW r \in Requests, Arrive(r)
    PROVE  IInv'
<1> USE InsideAssumption DEF OpNames
<1>1. CASE \E k \in Keys : Begin(r, "complete", {k}, NONE, NONE)
    BY <1>1, BeginKeeps
<1>2. CASE \E k \in Keys : Begin(r, "delete", {k}, NONE, NONE)
    BY <1>2, BeginKeeps
<1>3. CASE \E K \in SUBSET Keys : Begin(r, "batch", K, NONE, NONE)
    BY <1>3, BeginKeeps
<1>4. CASE \E f \in Folders : Begin(r, "mkfolder", {}, f, NONE)
    BY <1>4, BeginKeeps
<1>5. CASE \E f \in Folders : Begin(r, "rmfolder", Inside[f], f, NONE)
    BY <1>5, BeginKeeps
<1>6. CASE \E d \in Drives \ {Primary} : Begin(r, "connect", {}, NONE, d)
    BY <1>6, BeginKeeps
<1>7. CASE Begin(r, "login", {}, NONE, NONE)
    BY <1>7, BeginKeeps
<1> QED
    BY <1>1, <1>2, <1>3, <1>4, <1>5, <1>6, <1>7 DEF Arrive

LEMMA StageKeeps ==
    ASSUME IInv, NEW k \in Keys, Stage(k)
    PROVE  IInv'
BY DEF Stage, IInv, OthersOK, VaultsOK, RequestsOK, MadeOnce

LEMMA CrashKeeps ==
    ASSUME IInv, Crash
    PROVE  IInv'
<1>1. Len(appdata) \in Nat
    BY DEF IInv, VaultsOK
<1>2. RequestOK(Idle, made, Len(appdata)) /\ Idle \in Request
    BY <1>1, IdleOK DEF RequestOK
<1> QED
    BY <1>2 DEF Crash, IInv, OthersOK, VaultsOK, RequestsOK, MadeOnce

LEMMA LoadKeeps ==
    ASSUME IInv, NEW r \in Requests, Load(r)
    PROVE  IInv'
<1> DEFINE q(v) == [reqs[r] EXCEPT !.base = v, !.pc = "loaded"]
<1>1. PICK v : Sound(v, made) /\ reqs' = [reqs EXCEPT ![r] = q(v)]
    <2>1. CASE appdata = <<>> /\ reqs' = [reqs EXCEPT
                   ![r].base = Registered(EmptyVault), ![r].pc = "loaded"]
        BY <2>1, EmptySound DEF IInv, RequestsOK
    <2>2. ASSUME NEW n \in 1..Len(appdata),
                 reqs' = [reqs EXCEPT ![r].base = Registered(appdata[n]),
                                      ![r].pc = "loaded"]
          PROVE  \E v : Sound(v, made) /\ reqs' = [reqs EXCEPT ![r] = q(v)]
        <3>1. Sound(appdata[n], made)
            BY DEF IInv, VaultsOK
        <3>2. appdata[n].accounts \cup {Primary} = appdata[n].accounts
            BY <3>1 DEF Sound
        <3>3. Registered(appdata[n]) = appdata[n]
            BY <3>1, <3>2 DEF Registered, Sound, Content
        <3> QED
            BY <2>2, <3>1, <3>3 DEF IInv, RequestsOK
    <2> QED
        BY <2>1, <2>2 DEF Load
<1>2. RequestOK(reqs[r], made, Len(appdata)) /\ reqs[r].pc = "load"
    BY DEF IInv, RequestsOK, Load
<1>3. q(v) \in Request
    BY <1>1, <1>2 DEF RequestOK, Request, Sound
<1>4. /\ q(v).op = reqs[r].op /\ q(v).pc = "loaded" /\ q(v).base = v
      /\ q(v).keys = reqs[r].keys /\ q(v).folder = reqs[r].folder
      /\ q(v).drive = reqs[r].drive /\ q(v).chunks = reqs[r].chunks
      /\ q(v).slot = reqs[r].slot
    BY <1>2 DEF RequestOK, Request
<1> HIDE DEF q
<1>5. RequestOK(q(v), made, Len(appdata))
    BY <1>1, <1>2, <1>3, <1>4 DEF RequestOK, Loaded
<1>6. OthersOK' /\ UNCHANGED <<appdata, nextId, made>>
    BY DEF Load, IInv, OthersOK
<1> QED
    BY <1>1, <1>5, <1>6, OnlyMoves

-----------------------------------------------------------------------------
(* A request works on its copy.                                            *)

\* q is the request p further on: with the same copy of the vault, for the same
\* operation, and with the chunks p had.
Continues(q, p) ==
    /\ q \in Request
    /\ q.op = p.op /\ q.keys = p.keys /\ q.folder = p.folder
    /\ q.drive = p.drive /\ q.base = p.base /\ q.chunks = p.chunks
    /\ q.slot = p.slot

\* A step of r that changes where it is, what it has to do and how that went.
LEMMA Proceeds ==
    ASSUME IInv, NEW r \in Requests, NEW q,
           Continues(q, reqs[r]), Loaded(reqs[r]),
           reqs' = [reqs EXCEPT ![r] = q],
           q.pc \in {"upload", "erase", "save"},
           q.pc = "upload" => /\ q.op = "complete"
                              /\ q.todo \subseteq q.base.accounts,
           q.pc = "erase" => q.op # "connect" /\ q.todo \subseteq Chunk,
           q.op = "connect" => Cardinality(q.base.accounts) < MaxDrives,
           UNCHANGED <<appdata, nextId, made>>, OthersOK'
    PROVE  IInv'
<1>1. RequestOK(reqs[r], made, Len(appdata))
    BY DEF IInv, RequestsOK
<1>2. RequestOK(q, made, Len(appdata))
    BY <1>1 DEF RequestOK, Loaded, Continues
<1> QED
    BY <1>2, OnlyMoves

\* A step of r that ends with an answer.
LEMMA Answers ==
    ASSUME IInv, NEW r \in Requests,
           NEW status \in {"ok", "refused", "error"},
           reqs' = Answered(r, status),
           UNCHANGED <<appdata, nextId, made>>, OthersOK'
    PROVE  IInv'
BY AnsweredOK, OnlyMoves

LEMMA PlanUploadKeeps ==
    ASSUME IInv, NEW r \in Requests, PlanUpload(r)
    PROVE  IInv'
<1>1. RequestOK(reqs[r], made, Len(appdata)) /\ reqs \in [Requests -> Request]
    BY DEF IInv, RequestsOK
<1>2. OthersOK' /\ UNCHANGED <<appdata, nextId, made>>
    BY DEF PlanUpload, IInv, OthersOK
<1>3. ASSUME NEW D \in SUBSET reqs[r].base.accounts,
             reqs' = [reqs EXCEPT ![r].todo = D, ![r].pc = "upload"]
      PROVE  IInv'
    <2> DEFINE q == [reqs[r] EXCEPT !.todo = D, !.pc = "upload"]
    <2>1. reqs[r].op = "complete" /\ reqs[r].pc = "loaded"
        BY DEF PlanUpload
    <2>2. reqs[r] \in Request /\ reqs[r].base \in Content
        BY <1>1, <2>1 DEF RequestOK, Sound, Loaded
    <2>3. D \subseteq Drives
        BY <2>2 DEF Content
    <2>4. reqs' = [reqs EXCEPT ![r] = q]
        BY <1>1, <1>3
    <2>5. Continues(q, reqs[r]) /\ q.pc = "upload" /\ q.todo = D
        BY <2>2, <2>3 DEF Continues, Request
    <2> HIDE DEF q
    <2>6. q.op = "complete" /\ q.base = reqs[r].base /\ Loaded(reqs[r])
        BY <2>1, <2>5 DEF Continues, Loaded
    <2> QED
        BY <1>2, <2>4, <2>5, <2>6, Proceeds
<1>4. CASE reqs' = Answered(r, "refused")
    BY <1>2, <1>4, Answers
<1> QED
    BY <1>3, <1>4 DEF PlanUpload

\* More objects change nothing for the vaults that are saved.
LEMMA VaultsLast ==
    ASSUME VaultsOK, UNCHANGED appdata, made \subseteq made'
    PROVE  VaultsOK'
BY DEF VaultsOK, Sound

LEMMA UploadPartKeeps ==
    ASSUME IInv, NEW r \in Requests, UploadPart(r)
    PROVE  IInv'
<1> DEFINE p == reqs[r]
           c(d) == [account |-> d, id |-> nextId]
           q(d) == [p EXCEPT !.todo = @ \ {d}, !.chunks = @ \cup {c(d)}]
<1>1. RequestOK(p, made, Len(appdata)) /\ Len(appdata) \in Nat
    BY DEF IInv, RequestsOK, VaultsOK
<1>2. p.pc = "upload" /\ p.op = "complete" /\ p \in Request
    BY <1>1 DEF UploadPart, RequestOK
<1>3. PICK d \in p.todo, k \in p.keys :
          /\ live' = live \cup {c(d)}
          /\ made' = made \cup {<<c(d), k>>}
          /\ reqs' = [reqs EXCEPT ![r].todo = @ \ {d},
                                  ![r].chunks = @ \cup {c(d)}]
    BY DEF UploadPart
<1>4. /\ d \in p.base.accounts /\ p.keys = {k} /\ k \in Keys /\ d \in Drives
      /\ nextId \in Nat
    BY <1>1, <1>2, <1>3
    DEF RequestOK, Loaded, Sound, Content, Request, IInv, OthersOK
<1>5. c(d) \in Chunk
    BY <1>4 DEF Chunk
<1>6. /\ UNCHANGED <<appdata, staged, acked, doomed, begun, faults>>
      /\ nextId' = nextId + 1
    BY DEF UploadPart
<1>7. OthersOK'
    BY <1>3, <1>4, <1>5, <1>6 DEF IInv, OthersOK
<1>8. VaultsOK'
    BY <1>3, <1>6, VaultsLast DEF IInv
<1>9. MadeOnce'
    <2>1. \A m \in made : m[1].id < nextId /\ m[1].id \in Nat
        BY DEF IInv, MadeOnce, OthersOK, Chunk
    <2>2. c(d).id = nextId
        OBVIOUS
    <2>3. \A m \in made : m[1] # c(d)
        BY <2>1, <2>2, <1>4
    <2>4. <<c(d), k>>[1] = c(d) /\ <<c(d), k>>[2] = k
        OBVIOUS
    <2>5. \A m1, m2 \in made : m1[1] = m2[1] => m1[2] = m2[2]
        BY DEF IInv, MadeOnce
    <2> HIDE DEF c
    <2>6. \A m \in made' : m[1].id < nextId'
        BY <1>3, <1>4, <1>6, <2>1, <2>2, <2>4
    <2>7. \A m1, m2 \in made' : m1[1] = m2[1] => m1[2] = m2[2]
        BY <1>3, <2>3, <2>4, <2>5
    <2> QED
        BY <2>6, <2>7 DEF MadeOnce
<1>10. RequestOK(p, made', Len(appdata'))
    <2>1. made \subseteq made' /\ Len(appdata') = Len(appdata)
        BY <1>3, <1>6
    <2>2. RequestOK(p, made, Len(appdata)) /\ Len(appdata) <= Len(appdata')
        BY <1>1, <2>1
    <2> HIDE DEF p
    <2> QED
        BY <1>1, <2>1, <2>2, Lasts
<1>11. q(d) \in Request
    BY <1>2, <1>5 DEF Request
<1>12. /\ q(d).op = p.op /\ q(d).pc = p.pc /\ q(d).keys = p.keys
       /\ q(d).folder = p.folder /\ q(d).drive = p.drive /\ q(d).base = p.base
       /\ q(d).slot = p.slot
       /\ q(d).todo = p.todo \ {d} /\ q(d).chunks = p.chunks \cup {c(d)}
    BY <1>2 DEF Request
<1>13. reqs' = [reqs EXCEPT ![r] = q(d)]
    BY <1>2, <1>3 DEF IInv, RequestsOK
<1>14. c(d).account = d /\ <<c(d), k>> \in made'
    BY <1>3
<1> HIDE DEF q, c
<1>15. RequestOK(q(d), made', Len(appdata'))
    BY <1>2, <1>4, <1>10, <1>11, <1>12, <1>14 DEF RequestOK, Loaded
<1>16. RequestsOK'
    <2>1. /\ made \subseteq made' /\ Len(appdata') \in Nat
          /\ Len(appdata) <= Len(appdata') /\ RequestsOK /\ VaultsOK
        BY <1>1, <1>3, <1>6 DEF IInv
    <2> DEFINE qd == q(d)
    <2>2. reqs' = [reqs EXCEPT ![r] = qd] /\ RequestOK(qd, made', Len(appdata'))
        BY <1>13, <1>15
    <2> HIDE DEF qd
    <2> QED
        BY <2>1, <2>2, OneMoves
<1> QED
    BY <1>7, <1>8, <1>9, <1>16 DEF IInv

LEMMA UploadPartFailsKeeps ==
    ASSUME IInv, NEW r \in Requests, UploadPartFails(r)
    PROVE  IInv'
<1> DEFINE p == reqs[r]
           q(d) == [p EXCEPT !.todo = @ \ {d}, !.failed = "fault"]
<1>1. RequestOK(p, made, Len(appdata)) /\ Len(appdata) \in Nat
    BY DEF IInv, RequestsOK, VaultsOK
<1>2. p.pc = "upload" /\ p.op = "complete" /\ p \in Request
    BY <1>1 DEF UploadPartFails, RequestOK
<1>3. PICK d \in p.todo :
          /\ live' \in {live, live \cup {[account |-> d, id |-> nextId]}}
          /\ reqs' = [reqs EXCEPT ![r].todo = @ \ {d}, ![r].failed = "fault"]
    BY DEF UploadPartFails
<1>4. d \in Drives /\ nextId \in Nat /\ p.todo \subseteq p.base.accounts
    BY <1>1, <1>2, <1>3
    DEF RequestOK, Loaded, Sound, Content, Request, IInv, OthersOK
<1>5. /\ UNCHANGED <<appdata, staged, made, acked, doomed, begun>>
      /\ nextId' = nextId + 1 /\ faults' = faults + 1
    BY DEF UploadPartFails
<1>6. OthersOK'
    BY <1>3, <1>4, <1>5 DEF IInv, OthersOK, Chunk
<1>7. VaultsOK'
    BY <1>5, VaultsLast DEF IInv
<1>8. MadeOnce'
    <2>1. \A m \in made : m[1].id \in Nat /\ m[1].id < nextId
        BY DEF IInv, MadeOnce, OthersOK, Chunk
    <2>2. \A m \in made : m[1].id < nextId + 1
        BY <1>4, <2>1
    <2> QED
        BY <1>5, <2>2 DEF IInv, MadeOnce
<1>9. Continues(q(d), p) /\ q(d).pc = p.pc /\ q(d).todo = p.todo \ {d}
    BY <1>2 DEF Continues, Request
<1>10. reqs' = [reqs EXCEPT ![r] = q(d)]
    BY <1>2, <1>3 DEF IInv, RequestsOK
<1> HIDE DEF q
<1>11. RequestOK(q(d), made, Len(appdata))
    BY <1>1, <1>2, <1>4, <1>9 DEF RequestOK, Loaded, Continues
<1>12. RequestsOK'
    <2>1. /\ made \subseteq made' /\ Len(appdata') \in Nat
          /\ Len(appdata) <= Len(appdata') /\ RequestsOK /\ VaultsOK
        BY <1>1, <1>5 DEF IInv
    <2> DEFINE qd == q(d)
    <2>2. reqs' = [reqs EXCEPT ![r] = qd] /\ RequestOK(qd, made', Len(appdata'))
        BY <1>5, <1>10, <1>11
    <2> HIDE DEF qd
    <2> QED
        BY <2>1, <2>2, OneMoves
<1> QED
    BY <1>6, <1>7, <1>8, <1>12 DEF IInv

\* A step of r that only moves it to the next part of its route.
LEMMA Saves ==
    ASSUME IInv, NEW r \in Requests, Loaded(reqs[r]),
           reqs' = [reqs EXCEPT ![r].pc = "save"],
           reqs[r].op = "connect" =>
               Cardinality(reqs[r].base.accounts) < MaxDrives,
           UNCHANGED <<appdata, nextId, made>>, OthersOK'
    PROVE  IInv'
<1> DEFINE q == [reqs[r] EXCEPT !.pc = "save"]
<1>1. reqs[r] \in Request /\ reqs' = [reqs EXCEPT ![r] = q]
    BY DEF IInv, RequestsOK
<1>2. Continues(q, reqs[r]) /\ q.pc = "save"
    BY <1>1 DEF Continues, Request
<1> HIDE DEF q
<1>3. q.op = reqs[r].op /\ q.base = reqs[r].base
    BY <1>2 DEF Continues
<1> QED
    BY <1>1, <1>2, <1>3, Proceeds

LEMMA UploadDoneKeeps ==
    ASSUME IInv, NEW r \in Requests, UploadDone(r)
    PROVE  IInv'
<1>1. RequestOK(reqs[r], made, Len(appdata)) /\ reqs[r].pc = "upload"
    BY DEF IInv, RequestsOK, UploadDone
<1>2. Loaded(reqs[r]) /\ reqs[r].op # "connect"
    BY <1>1 DEF RequestOK, Loaded
<1>3. OthersOK' /\ UNCHANGED <<appdata, nextId, made>>
    BY DEF UploadDone, IInv, OthersOK
<1>4. CASE reqs' = Answered(r, "error")
    BY <1>3, <1>4, Answers
<1>5. CASE reqs' = [reqs EXCEPT ![r].pc = "save"]
    BY <1>2, <1>3, <1>5, Saves
<1> QED
    BY <1>4, <1>5 DEF UploadDone

LEMMA PlanDeleteKeeps ==
    ASSUME IInv, NEW r \in Requests, PlanDelete(r)
    PROVE  IInv'
<1> DEFINE found == UNION {reqs[r].base.files[k] : k \in reqs[r].keys}
           q == [reqs[r] EXCEPT !.todo = found, !.pc = "erase"]
<1>1. /\ RequestOK(reqs[r], made, Len(appdata)) /\ reqs[r].pc = "loaded"
      /\ reqs[r].op \in {"delete", "batch", "rmfolder"}
    BY DEF IInv, RequestsOK, PlanDelete
<1>2. /\ Loaded(reqs[r]) /\ reqs[r] \in Request
      /\ reqs[r].keys \subseteq Keys /\ reqs[r].base \in Content
    BY <1>1 DEF RequestOK, Loaded, Request
<1>3. found \subseteq Chunk
    BY <1>2 DEF Content
<1>4. OthersOK' /\ UNCHANGED <<appdata, nextId, made>>
    BY <1>2 DEF PlanDelete, IInv, OthersOK
<1>5. CASE reqs' = Answered(r, "refused")
    BY <1>4, <1>5, Answers
<1>6. CASE reqs' = [reqs EXCEPT ![r].todo = found, ![r].pc = "erase"]
    <2>1. reqs' = [reqs EXCEPT ![r] = q]
        BY <1>6 DEF IInv, RequestsOK
    <2>2. Continues(q, reqs[r]) /\ q.pc = "erase" /\ q.todo = found
        BY <1>2, <1>3 DEF Continues, Request
    <2> HIDE DEF q, found
    <2>3. q.op = reqs[r].op
        BY <2>2 DEF Continues
    <2> QED
        BY <1>1, <1>2, <1>3, <1>4, <2>1, <2>2, <2>3, Proceeds
<1> QED
    BY <1>5, <1>6 DEF PlanDelete

\* One task of an erase is over, however it went.
LEMMA Erases ==
    ASSUME IInv, NEW r \in Requests, reqs[r].pc = "erase", NEW c,
           NEW how \in {"no", "fault", "missing"},
           reqs' = [reqs EXCEPT ![r].todo = @ \ {c}, ![r].failed = how],
           UNCHANGED <<appdata, nextId, made>>, OthersOK'
    PROVE  IInv'
<1> DEFINE q == [reqs[r] EXCEPT !.todo = @ \ {c}, !.failed = how]
<1>1. RequestOK(reqs[r], made, Len(appdata)) /\ Loaded(reqs[r])
    BY DEF IInv, RequestsOK, Loaded
<1>2. reqs[r] \in Request /\ reqs' = [reqs EXCEPT ![r] = q]
    BY DEF IInv, RequestsOK
<1>3. Continues(q, reqs[r]) /\ q.pc = "erase" /\ q.todo = reqs[r].todo \ {c}
    BY <1>2 DEF Continues, Request
<1> HIDE DEF q
<1>4. RequestOK(q, made, Len(appdata))
    BY <1>1, <1>3 DEF RequestOK, Loaded, Continues
<1> QED
    BY <1>2, <1>4, OnlyMoves

LEMMA ErasePartKeeps ==
    ASSUME IInv, NEW r \in Requests, ErasePart(r)
    PROVE  IInv'
<1>1. reqs[r] \in Request /\ reqs[r].pc = "erase"
    BY DEF IInv, RequestsOK, ErasePart
<1>2. PICK c \in reqs[r].todo :
          /\ live' = live \ {c}
          /\ reqs' = [reqs EXCEPT ![r].todo = @ \ {c},
                                  ![r].failed =
                                      IF c \in live THEN @ ELSE "missing"]
    BY DEF ErasePart
<1>3. OthersOK' /\ UNCHANGED <<appdata, nextId, made>>
    BY <1>2 DEF ErasePart, IInv, OthersOK
<1> DEFINE how == IF c \in live THEN reqs[r].failed ELSE "missing"
<1>4. how \in {"no", "fault", "missing"}
    BY <1>1 DEF Request
<1>5. reqs' = [reqs EXCEPT ![r].todo = @ \ {c}, ![r].failed = how]
    BY <1>1, <1>2 DEF IInv, RequestsOK, Request
<1> HIDE DEF how
<1> QED
    BY <1>1, <1>3, <1>4, <1>5, Erases

LEMMA ErasePartFailsKeeps ==
    ASSUME IInv, NEW r \in Requests, ErasePartFails(r)
    PROVE  IInv'
<1>1. PICK c \in reqs[r].todo :
          /\ live' \in {live, live \ {c}}
          /\ reqs' = [reqs EXCEPT ![r].todo = @ \ {c}, ![r].failed = "fault"]
    BY DEF ErasePartFails
<1>2. OthersOK' /\ UNCHANGED <<appdata, nextId, made>>
    BY <1>1 DEF ErasePartFails, IInv, OthersOK
<1>3. reqs[r].pc = "erase"
    BY DEF ErasePartFails
<1> QED
    BY <1>1, <1>2, <1>3, Erases

LEMMA EraseDoneKeeps ==
    ASSUME IInv, NEW r \in Requests, EraseDone(r)
    PROVE  IInv'
<1>1. reqs[r].pc = "erase" /\ RequestOK(reqs[r], made, Len(appdata))
    BY DEF IInv, RequestsOK, EraseDone
<1>2. OthersOK' /\ UNCHANGED <<appdata, nextId, made>>
    BY DEF EraseDone, IInv, OthersOK
<1>3. CASE reqs' = Answered(r, "error")
    BY <1>2, <1>3, Answers
<1>4. CASE reqs' = [reqs EXCEPT ![r].pc = "save"]
    <2>1. Loaded(reqs[r])
        BY <1>1 DEF Loaded
    <2>2. reqs[r].op # "connect"
        BY <1>1 DEF RequestOK
    <2> QED
        BY <1>2, <1>4, <2>1, <2>2, Saves
<1> QED
    BY <1>3, <1>4 DEF EraseDone

LEMMA CheckConnectKeeps ==
    ASSUME IInv, NEW r \in Requests, CheckConnect(r)
    PROVE  IInv'
<1>1. RequestOK(reqs[r], made, Len(appdata)) /\ reqs[r].pc = "loaded"
    BY DEF IInv, RequestsOK, CheckConnect
<1>2. OthersOK' /\ UNCHANGED <<appdata, nextId, made>>
    BY DEF CheckConnect, IInv, OthersOK
<1>3. CASE reqs' = Answered(r, "refused")
    BY <1>2, <1>3, Answers
<1>4. CASE reqs' = Answered(r, "ok")
    BY <1>2, <1>4, Answers
<1>5. CASE /\ ~ Cardinality(reqs[r].base.accounts) >= MaxDrives
           /\ reqs' = [reqs EXCEPT ![r].pc = "save"]
    <2>1. Loaded(reqs[r]) /\ reqs[r].base.accounts \subseteq Drives
        BY <1>1 DEF Loaded, RequestOK, Sound, Content
    <2>2. Cardinality(reqs[r].base.accounts) \in Nat
        BY <2>1, DrivesAssumption, FS_Subset, FS_CardinalityType
    <2>3. Cardinality(reqs[r].base.accounts) < MaxDrives
        BY <1>5, <2>2, MaxDrivesAssumption
    <2> QED
        BY <1>2, <1>5, <2>1, <2>3, Saves
<1> QED
    BY <1>3, <1>4, <1>5 DEF CheckConnect

LEMMA SaveDirectlyKeeps ==
    ASSUME IInv, NEW r \in Requests, SaveDirectly(r)
    PROVE  IInv'
<1>1. OthersOK' /\ UNCHANGED <<appdata, nextId, made>>
    BY DEF SaveDirectly, IInv, OthersOK
<1> QED
    BY <1>1, Saves DEF SaveDirectly, Loaded

-----------------------------------------------------------------------------
(* A request saves its copy and answers.                                   *)

LEMMA FindVaultKeeps ==
    ASSUME IInv, NEW r \in Requests, FindVault(r)
    PROVE  IInv'
<1>1. PICK n \in 0..Len(appdata) :
          reqs' = [reqs EXCEPT ![r].slot = n, ![r].pc = "write"]
    BY DEF FindVault
<1> DEFINE q == [reqs[r] EXCEPT !.slot = n, !.pc = "write"]
<1>2. /\ RequestOK(reqs[r], made, Len(appdata)) /\ reqs[r].pc = "save"
      /\ Len(appdata) \in Nat
    BY DEF IInv, RequestsOK, VaultsOK, FindVault
<1>3. reqs[r] \in Request /\ reqs' = [reqs EXCEPT ![r] = q]
    BY <1>1 DEF IInv, RequestsOK
<1>4. n \in Nat /\ n <= Len(appdata)
    BY <1>1, <1>2
<1>5. /\ q \in Request /\ q.op = reqs[r].op /\ q.keys = reqs[r].keys
      /\ q.folder = reqs[r].folder /\ q.drive = reqs[r].drive
      /\ q.base = reqs[r].base /\ q.chunks = reqs[r].chunks
      /\ q.slot = n /\ q.pc = "write"
    BY <1>3, <1>4 DEF Request
<1> HIDE DEF q
<1>6. RequestOK(q, made, Len(appdata))
    BY <1>2, <1>5, <1>4 DEF RequestOK, Loaded
<1>7. OthersOK' /\ UNCHANGED <<appdata, nextId, made>>
    BY DEF FindVault, IInv, OthersOK
<1> QED
    BY <1>3, <1>6, <1>7, OnlyMoves

\* One more drive, below the limit, keeps a vault consistent.
LEMMA AddAccountSound ==
    ASSUME NEW v, NEW M, NEW d \in Drives, Sound(v, M),
           Cardinality(v.accounts) < MaxDrives
    PROVE  Sound(AddAccount(v, d), M)
<1> DEFINE w == AddAccount(v, d)
<1>1. v.accounts \subseteq Drives /\ IsFiniteSet(v.accounts)
    BY DrivesAssumption, FS_Subset DEF Sound, Content
<1>2. Cardinality(v.accounts) \in Nat
    BY <1>1, FS_CardinalityType
<1>3. Cardinality(v.accounts \cup {d}) <= Cardinality(v.accounts) + 1
    BY <1>1, <1>2, FS_AddElement
<1>4. Cardinality(v.accounts \cup {d}) <= MaxDrives
    <2>1. Cardinality(v.accounts \cup {d}) \in Nat
        BY <1>1, FS_AddElement, FS_CardinalityType
    <2> QED
        BY <1>2, <1>3, <2>1, MaxDrivesAssumption DEF Sound
<1>5. w \in Content /\ w.accounts = v.accounts \cup {d} /\ w.files = v.files
    BY DEF AddAccount, Sound, Content
<1> HIDE DEF w
<1>6. Sound(w, M)
    BY <1>4, <1>5 DEF Sound
<1> QED
    BY <1>6 DEF w

\* The entries of some keys replaced by chunks that are theirs.
LEMMA RecordFileSound ==
    ASSUME NEW v, NEW M, NEW K \in SUBSET Keys, NEW C \in SUBSET Chunk,
           Sound(v, M),
           \A c \in C : c.account \in v.accounts /\ \A k \in K : <<c, k>> \in M
    PROVE  Sound(RecordFile(v, K, C), M)
<1> DEFINE w == RecordFile(v, K, C)
<1>1. /\ w \in Content /\ w.accounts = v.accounts
      /\ \A k \in Keys : w.files[k] = IF k \in K THEN C ELSE v.files[k]
    BY DEF RecordFile, Sound, Content
<1> HIDE DEF w
<1>2. Sound(w, M)
    BY <1>1 DEF Sound
<1> QED
    BY <1>2 DEF w

LEMMA FoldersSound ==
    ASSUME NEW v, NEW M, NEW F \in SUBSET Folders, Sound(v, M)
    PROVE  Sound([v EXCEPT !.folders = F], M)
<1> DEFINE w == [v EXCEPT !.folders = F]
<1>1. w \in Content /\ w.accounts = v.accounts /\ w.files = v.files
    BY DEF Sound, Content
<1> HIDE DEF w
<1>2. Sound(w, M)
    BY <1>1 DEF Sound
<1> QED
    BY <1>2 DEF w

LEMMA ChangedSound ==
    ASSUME NEW q, NEW M, NEW n \in Nat, RequestOK(q, M, n), q.pc = "write"
    PROVE  Sound(Changed(q), M)
<1>1. /\ Sound(q.base, M) /\ q.base \in Content /\ q.keys \subseteq Keys
      /\ q.chunks \subseteq Chunk /\ q.op \in OpNames \cup {"idle"}
    BY DEF RequestOK, Loaded, Sound, Request
<1>2. CASE q.op = "complete"
    <2>1. Sound(RecordFile(q.base, q.keys, q.chunks), M)
        BY <1>1, RecordFileSound DEF RequestOK
    <2> QED
        BY <1>2, <2>1 DEF Changed
<1>3. Sound(RemoveFiles(q.base, q.keys), M)
    BY <1>1, RecordFileSound DEF RemoveFiles
<1>4. CASE q.op \in {"delete", "batch"}
    BY <1>3, <1>4 DEF Changed
<1>5. CASE q.op = "rmfolder"
    <2> DEFINE v == RemoveFiles(q.base, Inside[q.folder])
    <2>1. Inside[q.folder] \subseteq Keys
        BY <1>5, InsideAssumption DEF RequestOK
    <2>2. Sound(v, M)
        BY <1>1, <2>1, RecordFileSound DEF RemoveFiles
    <2> HIDE DEF v
    <2>3. v.folders \ Below[q.folder] \in SUBSET Folders
        BY <2>2 DEF Sound, Content
    <2>4. Sound([v EXCEPT !.folders = v.folders \ Below[q.folder]], M)
        BY <2>2, <2>3, FoldersSound
    <2>5. Changed(q) = [v EXCEPT !.folders = v.folders \ Below[q.folder]]
        BY <1>5 DEF Changed, DeleteFolder, v
    <2> QED
        BY <2>4, <2>5
<1>6. CASE q.op = "mkfolder"
    <2> DEFINE v == q.base
    <2>1. v.folders \cup {q.folder} \in SUBSET Folders
        BY <1>1, <1>6 DEF RequestOK, Content
    <2>2. Changed(q) = [v EXCEPT !.folders = v.folders \cup {q.folder}]
        BY <1>6 DEF Changed, CreateFolder
    <2>3. Sound(v, M)
        BY <1>1
    <2> HIDE DEF v
    <2> QED
        BY <2>1, <2>2, <2>3, FoldersSound
<1>7. CASE q.op = "connect"
    <2>1. q.drive \in Drives /\ Cardinality(q.base.accounts) < MaxDrives
        BY <1>7 DEF RequestOK
    <2> QED
        BY <1>1, <1>7, <2>1, AddAccountSound DEF Changed
<1>8. CASE q.op \in {"login", "idle"}
    BY <1>1, <1>8 DEF Changed
<1> QED
    BY <1>1, <1>2, <1>4, <1>5, <1>6, <1>7, <1>8 DEF OpNames

\* The write reaches Drive, whether or not its answer reaches the server.
LEMMA WrittenKeeps ==
    ASSUME IInv, NEW r \in Requests, reqs[r].pc = "write",
           NEW status \in {"ok", "refused", "error"},
           appdata' = Written(r), reqs' = Answered(r, status),
           UNCHANGED <<nextId, made>>, OthersOK'
    PROVE  IInv'
<1> DEFINE v == Changed(reqs[r])
           n == reqs[r].slot
<1>1. /\ RequestOK(reqs[r], made, Len(appdata)) /\ Len(appdata) \in Nat
      /\ appdata \in Seq(Content)
    BY DEF IInv, RequestsOK, VaultsOK
<1>2. Sound(v, made) /\ v \in Content
    BY <1>1, ChangedSound DEF Sound
<1>3. n \in Nat /\ n <= Len(appdata)
    BY <1>1 DEF RequestOK, Request
<1>4. appdata' = IF n = 0 THEN Append(appdata, v)
                 ELSE [appdata EXCEPT ![n] = v]
    BY DEF Written
<1> HIDE DEF v, n
<1>5. /\ appdata' \in Seq(Content) /\ Len(appdata') \in Nat
      /\ Len(appdata) <= Len(appdata')
      /\ \A m \in 1..Len(appdata') :
            \/ appdata'[m] = v
            \/ m \in 1..Len(appdata) /\ appdata'[m] = appdata[m]
    BY <1>1, <1>2, <1>3, <1>4
<1>6. VaultsOK'
    BY <1>2, <1>5 DEF IInv, VaultsOK
<1>7. PICK q : /\ reqs' = [reqs EXCEPT ![r] = q]
               /\ RequestOK(q, made, Len(appdata))
    BY AnsweredOK
<1>8. RequestOK(q, made', Len(appdata'))
    BY <1>1, <1>5, <1>7, Lasts
<1>9. RequestsOK'
    BY <1>5, <1>7, <1>8, OneMoves DEF IInv
<1> QED
    BY <1>6, <1>9 DEF IInv, MadeOnce

LEMMA WriteVaultKeeps ==
    ASSUME IInv, NEW r \in Requests, WriteVault(r)
    PROVE  IInv'
<1>1. OthersOK'
    BY DEF WriteVault, Mended, IInv, OthersOK
<1> QED
    BY <1>1, WrittenKeeps DEF WriteVault

LEMMA VaultCallFailsKeeps ==
    ASSUME IInv, NEW r \in Requests, VaultCallFails(r)
    PROVE  IInv'
<1>1. OthersOK' /\ UNCHANGED <<nextId, made>>
    BY DEF VaultCallFails, Mended, IInv, OthersOK
<1>2. CASE UNCHANGED appdata
    BY <1>1, <1>2, Answers DEF VaultCallFails
<1>3. CASE reqs[r].pc = "write" /\ appdata' = Written(r)
    BY <1>1, <1>3, WrittenKeeps DEF VaultCallFails
<1> QED
    BY <1>2, <1>3 DEF VaultCallFails

LEMMA ReplyKeeps ==
    ASSUME IInv, NEW r \in Requests, Reply(r)
    PROVE  IInv'
<1>1. OthersOK' /\ UNCHANGED <<appdata, nextId, made>>
    BY DEF Reply, IInv, OthersOK
<1>2. RequestOK(Idle, made, Len(appdata))
    BY IdleOK DEF IInv, VaultsOK
<1> QED
    BY <1>1, <1>2, OnlyMoves DEF Reply

-----------------------------------------------------------------------------
(* The invariant, and what follows from it.                                *)

LEMMA NextKeeps ==
    ASSUME IInv, [Next]_vars
    PROVE  IInv'
<1>1. ASSUME NEW k \in Keys, Stage(k) PROVE IInv'
    BY <1>1, StageKeeps
<1>2. ASSUME NEW r \in Requests, Arrive(r) PROVE IInv'
    BY <1>2, ArriveKeeps
<1>3. ASSUME NEW r \in Requests, Step(r) PROVE IInv'
    BY <1>3, LoadKeeps, PlanUploadKeeps, UploadPartKeeps, UploadDoneKeeps,
       PlanDeleteKeeps, ErasePartKeeps, EraseDoneKeeps, CheckConnectKeeps,
       SaveDirectlyKeeps, FindVaultKeeps, WriteVaultKeeps, ReplyKeeps DEF Step
<1>4. ASSUME NEW r \in Requests, StepFails(r) PROVE IInv'
    BY <1>4, UploadPartFailsKeeps, ErasePartFailsKeeps, VaultCallFailsKeeps
    DEF StepFails
<1>5. CASE Crash
    BY <1>5, CrashKeeps
<1>6. CASE UNCHANGED vars
    BY <1>6 DEF vars, IInv, OthersOK, VaultsOK, RequestsOK, MadeOnce
<1> QED
    BY <1>1, <1>2, <1>3, <1>4, <1>5, <1>6 DEF Next

\* However requests overlap and whatever fails: every vault saved and every
\* copy held is consistent with the objects made, and no id is given twice.
THEOREM Invariance == Spec => []IInv
BY InitInv, NextKeeps, PTL DEF Spec

\* Every vault file and every request's copy of it keeps the shape of
\* EMPTY_VAULT, with no entry on an account or for a key that does not exist.
THEOREM VaultTypeOK == Spec => []TypeOK
<1>1. IInv => TypeOK
    BY DEF IInv, OthersOK, VaultsOK, RequestsOK, TypeOK
<1> QED
    BY <1>1, Invariance, PTL

\* Whatever requests overlap, fail or die: a saved vault never has a chunk on a
\* drive it does not name, more drives than the limit, or another key's bytes.
THEOREM VaultsAreConsistent == Spec => []VaultsConsistent
<1>1. IInv => VaultsConsistent
    BY DEF IInv, VaultsOK, Sound, VaultsConsistent, Consistent
<1> QED
    BY <1>1, Invariance, PTL

\* No object on a drive is listed under two keys of a vault: deleting one file
\* (distributor.delete_chunks) can not damage another.
THEOREM ObjectsNotShared == Spec => []NoSharedObjects
<1>1. IInv => NoSharedObjects
    <2> SUFFICES ASSUME IInv, NEW n \in 1..Len(appdata), NEW j \in Keys,
                        NEW k \in Keys, j # k,
                        NEW c \in appdata[n].files[j], c \in appdata[n].files[k]
                 PROVE  FALSE
        BY DEF NoSharedObjects
    <2>1. <<c, j>> \in made /\ <<c, k>> \in made
        BY DEF IInv, VaultsOK, Sound
    <2> QED
        BY <2>1 DEF IInv, MadeOnce
<1> QED
    BY <1>1, Invariance, PTL

=============================================================================
