----------------------------- MODULE VaultStore -----------------------------
(***************************************************************************)
(* The routes that change a user's vault (main.py) over the vault file in  *)
(* the primary account's appDataFolder (vault.py, drive_client.py) and the *)
(* objects on the connected drives (distributor.py).                       *)
(*                                                                         *)
(* Every route loads the whole vault, works on its copy, talks to the      *)
(* drives and saves the whole vault again.  The routes are `def` functions *)
(* in a thread pool, there is no lock and no version check: two requests   *)
(* interleave at every call to Google.                                     *)
(*                                                                         *)
(* A file's chunks are a set of [account, id] records; byte ranges are     *)
(* PlanChunks' business.  The change to the copy is applied when it is     *)
(* saved; until then nobody else can see it.                               *)
(***************************************************************************)
EXTENDS Integers, FiniteSets, Sequences

CONSTANTS
    Keys, Folders, Drives, Primary,
    Inside,     \* Inside[f]: the keys below folder f
    Below,      \* Below[f]: folder f and the folders below it
    MaxDrives,  \* MAX_DRIVES_PER_USER
    Requests,   \* requests the server may be running at the same time
    Ops,        \* the operations a run exercises
    Serial,     \* environment: a request starts only when none is running
    MaxOps,     \* bound: requests ever begun
    MaxFaults,  \* bound: failed calls to Google and crashes
    NONE

ASSUME PrimaryAssumption == Primary \in Drives
ASSUME InsideAssumption == Inside \in [Folders -> SUBSET Keys]
ASSUME BelowAssumption == Below \in [Folders -> SUBSET Folders]
ASSUME MaxDrivesAssumption == MaxDrives \in Nat /\ MaxDrives >= 1
ASSUME DrivesAssumption == IsFiniteSet(Drives)
ASSUME SerialAssumption == Serial \in BOOLEAN
ASSUME NoneAssumption == NONE \notin Keys /\ NONE \notin Drives

VARIABLES
    appdata,    \* the vault.enc files, in the order files().list returns them
    live,       \* the objects that exist on the drives
    nextId,     \* the id Google gives the next object
    staged,     \* keys whose upload session is complete on the server's disk
    reqs,       \* the running requests
    made,       \* history: <<chunk, key>> for every object ever uploaded
    acked,      \* history: what the user was last told about a key
    doomed,     \* history: keys whose objects a delete has begun to erase
    begun, faults

vars == <<appdata, live, nextId, staged, reqs, made, acked, doomed, begun,
          faults>>

-----------------------------------------------------------------------------
Chunk == [account : Drives, id : Nat]

Content == [accounts : SUBSET Drives, folders : SUBSET Folders,
            files : [Keys -> SUBSET Chunk]]

\* EMPTY_VAULT; files[k] = {}: no entry k.
EmptyVault == [accounts |-> {}, folders |-> {}, files |-> [k \in Keys |-> {}]]

\* register_primary_account
Registered(v) == [v EXCEPT !.accounts = @ \cup {Primary}]

Idle == [op |-> "idle", pc |-> "idle", keys |-> {}, folder |-> NONE,
         drive |-> NONE, base |-> EmptyVault, todo |-> {}, chunks |-> {},
         failed |-> "no", slot |-> 0, status |-> "none"]

Init ==
    /\ appdata = <<>>
    /\ live = {}
    /\ nextId = 1
    /\ staged = {}
    /\ reqs = [r \in Requests |-> Idle]
    /\ made = {}
    /\ acked = [k \in Keys |-> "unknown"]
    /\ doomed = {}
    /\ begun = 0
    /\ faults = 0

Active == {r \in Requests : reqs[r].op # "idle"}

-----------------------------------------------------------------------------
(* A request arrives.                                                      *)

Begin(r, op, K, f, d) ==
    /\ op \in Ops
    /\ r \notin Active
    /\ Serial => Active = {}
    /\ begun < MaxOps
    /\ begun' = begun + 1
    /\ reqs' = [reqs EXCEPT ![r] = [Idle EXCEPT !.op = op, !.pc = "load",
                                    !.keys = K, !.folder = f, !.drive = d]]
    /\ acked' = [k \in Keys |-> IF k \in K THEN "unknown" ELSE acked[k]]
    /\ UNCHANGED <<appdata, live, nextId, staged, made, doomed, faults>>

Arrive(r) ==
    \/ \E k \in Keys : Begin(r, "complete", {k}, NONE, NONE)
    \/ \E k \in Keys : Begin(r, "delete", {k}, NONE, NONE)
    \/ \E K \in SUBSET Keys : Begin(r, "batch", K, NONE, NONE)
    \/ \E f \in Folders : Begin(r, "mkfolder", {}, f, NONE)
    \/ \E f \in Folders : Begin(r, "rmfolder", Inside[f], f, NONE)
    \/ \E d \in Drives \ {Primary} : Begin(r, "connect", {}, NONE, d)
    \/ Begin(r, "login", {}, NONE, NONE)

\* The browser sends the last chunk of a file that will be stored under k.
Stage(k) ==
    /\ k \notin staged
    /\ staged' = staged \cup {k}
    /\ UNCHANGED <<appdata, live, nextId, reqs, made, acked, doomed, begun,
                   faults>>

\* load_vault and register_primary_account.
Load(r) ==
    /\ reqs[r].pc = "load"
    /\ \/ /\ appdata = <<>>
          /\ reqs' = [reqs EXCEPT ![r].base = Registered(EmptyVault),
                                  ![r].pc = "loaded"]
       \/ \E n \in 1..Len(appdata) :
             reqs' = [reqs EXCEPT ![r].base = Registered(appdata[n]),
                                  ![r].pc = "loaded"]
    /\ UNCHANGED <<appdata, live, nextId, staged, made, acked, doomed, begun,
                   faults>>

\* r is about to answer; its copy of the vault is gone.
Answered(r, status) ==
    [reqs EXCEPT ![r] = [Idle EXCEPT !.op = reqs[r].op, !.keys = reqs[r].keys,
                                     !.pc = "reply", !.status = status]]

-----------------------------------------------------------------------------
(* What each route does with its copy before it saves.                     *)

\* upload_complete: finalize_session, then the plan: one object on each of some
\* of the drives in the copy, or no room for the file.
PlanUpload(r) ==
    /\ reqs[r].op = "complete" /\ reqs[r].pc = "loaded"
    /\ \/ /\ reqs[r].keys \subseteq staged
          /\ \E D \in SUBSET reqs[r].base.accounts :
                /\ D # {}
                /\ reqs' = [reqs EXCEPT ![r].todo = D, ![r].pc = "upload"]
       \/ reqs' = Answered(r, "refused")
    /\ UNCHANGED <<appdata, live, nextId, staged, made, acked, doomed, begun,
                   faults>>

\* Slip: an object already on the drive is taken for this part.
UploadPartReuses(r) ==
    /\ reqs[r].pc = "upload"
    /\ \E d \in reqs[r].todo, k \in reqs[r].keys :
          LET old == {c \in live : c.account = d}
              new == {[account |-> d, id |-> nextId]}
          IN  \E c \in IF old = {} THEN new ELSE old :
                /\ live' = live \cup {c}
                /\ made' = made \cup {<<c, k>>}
                /\ reqs' = [reqs EXCEPT ![r].todo = @ \ {d},
                                        ![r].chunks = @ \cup {c}]
    /\ nextId' = nextId + 1
    /\ UNCHANGED <<appdata, staged, acked, doomed, begun, faults>>

\* One task of upload_many: Drive creates the object.
UploadPart(r) ==
    /\ reqs[r].pc = "upload"
    /\ \E d \in reqs[r].todo, k \in reqs[r].keys :
          LET c == [account |-> d, id |-> nextId]
          IN  /\ live' = live \cup {c}
              /\ made' = made \cup {<<c, k>>}
              /\ reqs' = [reqs EXCEPT ![r].todo = @ \ {d},
                                      ![r].chunks = @ \cup {c}]
    /\ nextId' = nextId + 1
    /\ UNCHANGED <<appdata, staged, acked, doomed, begun, faults>>

\* A task raises, before or after Drive has created the object.  The tasks that
\* are running go on, and what they upload stays.
UploadPartFails(r) ==
    /\ reqs[r].pc = "upload"
    /\ faults < MaxFaults
    /\ faults' = faults + 1
    /\ \E d \in reqs[r].todo :
          /\ live' \in {live, live \cup {[account |-> d, id |-> nextId]}}
          /\ reqs' = [reqs EXCEPT ![r].todo = @ \ {d}, ![r].failed = "fault"]
    /\ nextId' = nextId + 1
    /\ UNCHANGED <<appdata, staged, made, acked, doomed, begun>>

\* parallel_map is over: every task has ended, or one has raised and those no
\* thread had taken up are cancelled.
TasksDone(q) == q.todo = {} \/ q.failed # "no"

\* upload_many is over: an error leaves the session in place, otherwise
\* cleanup_session removes it.
UploadDone(r) ==
    /\ reqs[r].pc = "upload"
    /\ TasksDone(reqs[r])
    /\ IF reqs[r].failed # "no"
       THEN /\ reqs' = Answered(r, "error")
            /\ UNCHANGED staged
       ELSE /\ reqs' = [reqs EXCEPT ![r].pc = "save"]
            /\ staged' = staged \ reqs[r].keys
    /\ UNCHANGED <<appdata, live, nextId, made, acked, doomed, begun, faults>>

\* Slip: deleting a folder matches keys outside of it.
PlanDeleteTooMuch(r) ==
    LET found == UNION {reqs[r].base.files[k] : k \in Keys} IN
    /\ reqs[r].op \in {"delete", "batch", "rmfolder"}
    /\ reqs[r].pc = "loaded"
    /\ reqs' = [reqs EXCEPT ![r].todo = found, ![r].pc = "erase"]
    /\ doomed' = doomed \cup {k \in reqs[r].keys : reqs[r].base.files[k] # {}}
    /\ UNCHANGED <<appdata, live, nextId, staged, made, acked, begun, faults>>

\* delete_file, batch_delete_files and delete_folder: the chunks of the entries
\* the copy has.  A single file that is not listed is a 404.
PlanDelete(r) ==
    LET found == UNION {reqs[r].base.files[k] : k \in reqs[r].keys} IN
    /\ reqs[r].op \in {"delete", "batch", "rmfolder"}
    /\ reqs[r].pc = "loaded"
    /\ reqs' = IF reqs[r].op = "delete" /\ found = {}
               THEN Answered(r, "refused")
               ELSE [reqs EXCEPT ![r].todo = found, ![r].pc = "erase"]
    /\ doomed' = doomed \cup {k \in reqs[r].keys : reqs[r].base.files[k] # {}}
    /\ UNCHANGED <<appdata, live, nextId, staged, made, acked, begun, faults>>

\* One task of delete_chunks; Drive answers 404 for an object that is gone.
ErasePart(r) ==
    /\ reqs[r].pc = "erase"
    /\ \E c \in reqs[r].todo :
          /\ live' = live \ {c}
          /\ reqs' = [reqs EXCEPT ![r].todo = @ \ {c},
                                  ![r].failed =
                                      IF c \in live THEN @ ELSE "missing"]
    /\ UNCHANGED <<appdata, nextId, staged, made, acked, doomed, begun, faults>>

\* The call fails, before or after Drive has deleted the object.
ErasePartFails(r) ==
    /\ reqs[r].pc = "erase"
    /\ faults < MaxFaults
    /\ faults' = faults + 1
    /\ \E c \in reqs[r].todo :
          /\ live' \in {live, live \ {c}}
          /\ reqs' = [reqs EXCEPT ![r].todo = @ \ {c}, ![r].failed = "fault"]
    /\ UNCHANGED <<appdata, nextId, staged, made, acked, doomed, begun>>

EraseDone(r) ==
    /\ reqs[r].pc = "erase"
    /\ TasksDone(reqs[r])
    /\ reqs' = IF reqs[r].failed # "no" THEN Answered(r, "error")
               ELSE [reqs EXCEPT ![r].pc = "save"]
    /\ UNCHANGED <<appdata, live, nextId, staged, made, acked, doomed, begun,
                   faults>>

\* Slip: the limit is compared with > instead of >=.
CheckConnectOneMore(r) ==
    LET v == reqs[r].base IN
    /\ reqs[r].op = "connect" /\ reqs[r].pc = "loaded"
    /\ reqs' = IF Cardinality(v.accounts) > MaxDrives
               THEN Answered(r, "refused")
               ELSE [reqs EXCEPT ![r].pc = "save"]
    /\ UNCHANGED <<appdata, live, nextId, staged, made, acked, doomed, begun,
                   faults>>

\* oauth_callback_secondary: the limit first, then "already connected".
CheckConnect(r) ==
    LET v == reqs[r].base IN
    /\ reqs[r].op = "connect" /\ reqs[r].pc = "loaded"
    /\ reqs' = IF Cardinality(v.accounts) >= MaxDrives
               THEN Answered(r, "refused")
               ELSE IF reqs[r].drive \in v.accounts THEN Answered(r, "ok")
               ELSE [reqs EXCEPT ![r].pc = "save"]
    /\ UNCHANGED <<appdata, live, nextId, staged, made, acked, doomed, begun,
                   faults>>

\* create_folder and oauth_callback save what they loaded, with their change.
SaveDirectly(r) ==
    /\ reqs[r].op \in {"mkfolder", "login"} /\ reqs[r].pc = "loaded"
    /\ reqs' = [reqs EXCEPT ![r].pc = "save"]
    /\ UNCHANGED <<appdata, live, nextId, staged, made, acked, doomed, begun,
                   faults>>

-----------------------------------------------------------------------------
(* save_vault.                                                             *)

\* record_file: k's entry is replaced, whatever it was.
RecordFile(v, K, C) ==
    [v EXCEPT !.files = [k \in Keys |-> IF k \in K THEN C ELSE v.files[k]]]

\* Slip: the entries are dropped for good, later lookups raise KeyError.
RemoveFilesAtAll(v, K) == [v EXCEPT !.files = [k \in Keys \ K |-> v.files[k]]]

\* remove_file, for each of K.
RemoveFiles(v, K) == RecordFile(v, K, {})

CreateFolder(v, f) == [v EXCEPT !.folders = @ \cup {f}]

\* Slip: the folders below the deleted one stay.
DeleteFolderOnly(v, f) ==
    [RemoveFiles(v, Inside[f]) EXCEPT !.folders = @ \ {f}]

\* delete_folder_recursive.
DeleteFolder(v, f) ==
    [RemoveFiles(v, Inside[f]) EXCEPT !.folders = @ \ Below[f]]

AddAccount(v, d) == [v EXCEPT !.accounts = @ \cup {d}]

\* The vault r saves: the one it loaded, with its own change.
Changed(q) ==
    CASE q.op = "complete" -> RecordFile(q.base, q.keys, q.chunks)
      [] q.op \in {"delete", "batch"} -> RemoveFiles(q.base, q.keys)
      [] q.op = "rmfolder" -> DeleteFolder(q.base, q.folder)
      [] q.op = "mkfolder" -> CreateFolder(q.base, q.folder)
      [] q.op = "connect" -> AddAccount(q.base, q.drive)
      [] OTHER -> q.base

\* write_vault_raw asks which file to update before it writes.
FindVault(r) ==
    /\ reqs[r].pc = "save"
    /\ \E n \in 0..Len(appdata) :
          /\ n = 0 <=> appdata = <<>>
          /\ reqs' = [reqs EXCEPT ![r].slot = n, ![r].pc = "write"]
    /\ UNCHANGED <<appdata, live, nextId, staged, made, acked, doomed, begun,
                   faults>>

Written(r) ==
    IF reqs[r].slot = 0 THEN Append(appdata, Changed(reqs[r]))
    ELSE [appdata EXCEPT ![reqs[r].slot] = Changed(reqs[r])]

\* A fresh entry or none at all: k's objects are no longer half erased.
Mended(r) == doomed \ reqs[r].keys

WriteVault(r) ==
    /\ reqs[r].pc = "write"
    /\ appdata' = Written(r)
    /\ doomed' = Mended(r)
    /\ reqs' = Answered(r, "ok")
    /\ UNCHANGED <<live, nextId, staged, made, acked, begun, faults>>

\* Slip: the error of the save is swallowed.
VaultCallFailsQuietly(r) ==
    /\ reqs[r].pc \in {"load", "save", "write"}
    /\ faults < MaxFaults
    /\ faults' = faults + 1
    /\ reqs' = Answered(r, "ok")
    /\ UNCHANGED <<appdata, live, nextId, staged, made, acked, doomed, begun>>

\* A call for the vault fails: on load or on save, in the latter case perhaps
\* after Drive took the write.
VaultCallFails(r) ==
    /\ reqs[r].pc \in {"load", "save", "write"}
    /\ faults < MaxFaults
    /\ faults' = faults + 1
    /\ \/ UNCHANGED <<appdata, doomed>>
       \/ /\ reqs[r].pc = "write"
          /\ appdata' = Written(r)
          /\ doomed' = Mended(r)
    /\ reqs' = Answered(r, "error")
    /\ UNCHANGED <<live, nextId, staged, made, acked, begun>>

\* The user sees the answer.  What it says of a key counts when no other request
\* on that key is under way.
Reply(r) ==
    LET q == reqs[r]
        alone(k) == \A s \in Active \ {r} : k \notin reqs[s].keys
        told == IF q.op = "complete" THEN "listed" ELSE "gone"
    IN  /\ q.pc = "reply"
        /\ acked' = [k \in Keys |->
                       IF k \in q.keys /\ q.status = "ok" /\ alone(k)
                       THEN told ELSE acked[k]]
        /\ reqs' = [reqs EXCEPT ![r] = Idle]
        /\ UNCHANGED <<appdata, live, nextId, staged, made, doomed, begun,
                       faults>>

\* The server process dies: its requests are gone, the session files stay.
Crash ==
    /\ faults < MaxFaults
    /\ Active # {}
    /\ faults' = faults + 1
    /\ reqs' = [r \in Requests |-> Idle]
    /\ UNCHANGED <<appdata, live, nextId, staged, made, acked, doomed, begun>>

-----------------------------------------------------------------------------
Step(r) ==
    \/ Load(r)
    \/ PlanUpload(r) \/ UploadPart(r) \/ UploadDone(r)
    \/ PlanDelete(r) \/ ErasePart(r) \/ EraseDone(r)
    \/ CheckConnect(r) \/ SaveDirectly(r)
    \/ FindVault(r) \/ WriteVault(r) \/ Reply(r)

StepFails(r) == UploadPartFails(r) \/ ErasePartFails(r) \/ VaultCallFails(r)

Next ==
    \/ \E k \in Keys : Stage(k)
    \/ \E r \in Requests : Arrive(r) \/ Step(r) \/ StepFails(r)
    \/ Crash

Spec == Init /\ [][Next]_vars

-----------------------------------------------------------------------------
OpNames == {"complete", "delete", "batch", "mkfolder", "rmfolder", "connect",
            "login"}

Request == [op : OpNames \cup {"idle"},
            pc : {"idle", "load", "loaded", "upload", "erase", "save", "write",
                  "reply"},
            keys : SUBSET Keys, folder : Folders \cup {NONE},
            drive : Drives \cup {NONE}, base : Content,
            todo : SUBSET (Drives \cup Chunk), chunks : SUBSET Chunk,
            failed : {"no", "fault", "missing"}, slot : Nat,
            status : {"none", "ok", "refused", "error"}]

\* Every vault file and every request's copy of it has the shape of EMPTY_VAULT.
TypeOK ==
    /\ appdata \in Seq(Content)
    /\ live \subseteq Chunk
    /\ nextId \in Nat /\ begun \in Nat /\ faults \in Nat
    /\ staged \subseteq Keys /\ doomed \subseteq Keys
    /\ reqs \in [Requests -> Request]
    /\ made \subseteq Chunk \X Keys
    /\ acked \in [Keys -> {"unknown", "listed", "gone"}]

\* The drives a vault names are all there is to a file: the primary account is
\* one of them, there are at most MAX_DRIVES_PER_USER, every chunk is on one of
\* them (build_clients_and_vault has a client for it), and every chunk listed
\* under a key was uploaded for that key.
Consistent(v) ==
    /\ Primary \in v.accounts
    /\ Cardinality(v.accounts) <= MaxDrives
    /\ \A k \in Keys : \A c \in v.files[k] :
          c.account \in v.accounts /\ <<c, k>> \in made

\* Whatever requests overlap, fail or die, each saved vault is consistent in
\* itself: a stale copy may undo another request, but it never leaves a file on
\* a drive the vault has forgotten, or one key with another key's bytes.
VaultsConsistent == \A n \in 1..Len(appdata) : Consistent(appdata[n])

\* No object on a drive belongs to two entries: deleting one file can not
\* damage another.
NoSharedObjects ==
    \A n \in 1..Len(appdata) : \A j, k \in Keys :
        j # k => appdata[n].files[j] \cap appdata[n].files[k] = {}

\* What the user was told holds: a key whose upload was answered with "ok" is
\* listed, one whose deletion was is not, until a request for it is begun.
AnswersHold ==
    \A k \in Keys : \A n \in 1..Len(appdata) :
        /\ acked[k] = "listed" => appdata[n].files[k] # {}
        /\ acked[k] = "gone" => appdata[n].files[k] = {}

\* Every chunk of a listed file exists, unless a delete of that file stopped
\* half way: failed uploads, crashes and requests for other files never cost a
\* listed file one of its objects.
ListedIsStored ==
    \A n \in 1..Len(appdata) : \A k \in Keys \ doomed :
        appdata[n].files[k] \subseteq live

\* The index the user has.
Current == Registered(IF appdata = <<>> THEN EmptyVault ELSE appdata[1])

P == INSTANCE Pool WITH index <- Current

\* Requests that do not overlap implement the one-operation-at-a-time index of
\* Pool: each saves exactly its own change, at one point, or nothing.
ImplementsPool == P!Spec

-----------------------------------------------------------------------------
(* What the documentation says and the code does not keep.                 *)

\* README.md:116: "Download/delete from the file table; both work no matter
\* which drive(s) a file actually lives on": a delete fails only if Drive does.
DeleteWorks == \A r \in Requests : reqs[r].failed # "missing"
=============================================================================
