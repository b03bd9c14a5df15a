# Drive Vault: TLA+ models and proofs

Drive Vault pools several Google Drive accounts into one store. The application
(`src/app/`, Python/FastAPI, one server process) keeps no database: the index of
a user's files is one encrypted JSON file, the *vault*, in the hidden
appDataFolder of the user's primary account; file contents are Drive objects on
any of the connected accounts; half-sent uploads are files under the server's
temp directory. This directory holds TLA+ models of that system, the TLC
configurations that check them and TLAPS proofs about them.

## 1. Inventory

| Component | State it keeps | Operations | Talks to |
|---|---|---|---|
| Browser uploader (`templates/dashboard.html`) | batch, file, next chunk, attempt, pendingUpload | uploadOneFile, retry, pause, Resume | upload routes, by fetch |
| Upload sessions (`upload_sessions.py`; `/upload/init`, `/upload/chunk`, `/upload/complete`) | per session: data.bin, meta.json (+ .tmp), progress.json (+ .tmp) | init (with the sweep), write_chunk, finalize, cleanup | disk |
| File and folder routes (`main.py`) over the vault (`vault.py`) | vault.enc: accounts, folders, files | load, change a copy, save; upload, delete, batch delete, folder create/delete, connect a drive, login | Drive of the primary account |
| Distribution (`distributor.py`, `workers.py`) | one snapshot of free space per call; a thread pool, its progress total and lock | plan_chunks, upload_many, download_with_chunks, delete_chunks | Drive of every account |
| Drive client (`drive_client.py`) | objects on a drive; vault file id | upload/download/delete, read/write vault | Google |
| Folder paths (`vault.py`) | none (string prefixes of file keys) | normalize, ancestors, listing, recursive delete | vault |
| Login (`main.py`, `session.py`, `auth.py`, `oauth_state.py`) | session, remember and pending cookies | setup, callback, continue, forget, logout, RefreshError handler | Google, browser |
| Token cache (`token_cache.py`) | access token per account id | get, set | Drive clients |
| Storage view, pages, crypto, configuration, deployment | none of their own | reads, rendering | |

What is hard here:

* `def` routes run in a thread pool. Every route that changes the vault loads
  it whole, talks to Google for seconds or minutes, and saves it whole, with no
  lock and no version check.
* Session files are shared by all requests for the same file. `init` and
  `complete` are `def` routes and interleave at every file operation;
  `/upload/chunk` is `async def` without an await in `write_chunk`, so chunk
  requests exclude one another, and nothing else.
* Any call to Google may fail before or after it took effect, the browser may
  lose an answer while the server goes on, and the process may die between any
  two file operations and come back on the same disk.
* Deletes and uploads touch several drives before the vault is saved.
* The parts of one file are sent and fetched by threads that share a descriptor
  and one progress file, any of them may fail while others run, and two
  `/upload/complete` requests for one session share the progress file without a
  common lock.
* Three cookies, a token cache, refresh tokens in the vault and Google's consent
  pages age independently, and any of them may be older than the SECRET_KEY.
* The split of a file over drives has the usual boundaries: ties, exact fits,
  full drives, an empty file, several files against one shrinking snapshot.

What makes the parts correct: a plan covers the file and never promises space
that is not there; `received_chunks` never runs ahead of data.bin; only whole
files are handed to the drives, and arrive and come back byte by byte; the
progress shown was reached; an upload that is resumed gets there; every file is
on one page, and a folder delete takes what its pages show; every saved vault is
consistent in itself, and requests that do not overlap change it one operation
at a time; a listed file keeps its objects; a login that expired is mended by
one sign-in; no index is overwritten without a copy. Several of these the code
keeps only if certain requests do not overlap: section 3 names these assumptions
and section 6 what happens without them. `PROJECT.json` lists the hazards by
source line with the properties that cover each.

## 2. Modules

### PlanChunks (distributor.py: `plan_chunks`, planning loop of `upload_many`)

The function as the sequential program it is. `free` is the dictionary the
function mutates, `start` its content at the call (`ordered` in the code holds
copies of these numbers), `plan`/`offset`/`i` the loop's variables. Actions:
`PlanSingle` (one drive fits the file), `Sort`, `SumOne`/`CheckTotal` (the sum
and the ValueError), `SplitOne`/`Return` (the splitting loop), `NextFile` (the
caller's loop). The sort is stable and `max` takes the first maximum; both depend
on dictionary order, so ties are any order. Free space is a natural number:
`get_storage_info` returns `max(limit - usage, 0)`.

### UploadSession (upload_sessions.py, upload routes, browser uploader)

* `disk[s]`: the directory of session `s`: does it exist, the set of chunks in
  data.bin, the text in meta.json and meta.json.tmp. A text is a record, empty,
  garbled or absent.
* `workers[w]`: the request a thread runs, at which file operation it is, the
  meta dictionary it has read, the descriptor it has open.
* `tabs[t]`: the uploader of a tab: the batch dropped on it, the file in progress
  (`start`, which is `pendingUpload.startIndex` too), the next chunk.

Each action is one file operation: `OpenTmp`, `Flush`, `ReplaceMeta`
(`_write_meta`), `RemoveData`, `RemoveMeta`, `RemoveTmp`, `RemoveDir`
(`cleanup_session`), `ListSessions`, `SweepOne` (the sweep), `ReadMeta`,
`MakeDir`, `TruncateData` (`init_session`), `CheckChunk`, `WriteData`
(`write_chunk`), `Finalize`, `OpenData`, `UploadToDrive`, `SaveVault`
(`/upload/complete`). Descriptors follow inodes: a write after another request
renamed or removed the file lands where POSIX puts it. `EventLoopFree` is the
mutual exclusion the event loop gives chunk requests. The environment loses
connections (the abandoned request may go on), fails calls to Google
(`GoogleFails`: loading the vault, the Drive upload, saving the vault), crashes
the process, lets two days pass. A chunk is a pair of chunk size and index.

`/upload/complete` loads the vault before `finalize_session` and saves that copy
at the end. Its effect on the vault needs the other requests' loads and saves and
is VaultStore's; here `SaveVault` is the answer. So this module can not say that
a file Resume skips is in the vault, and of overlapping requests that is not so
(`VS_lost_update`). `os.open` and `os.pwrite` are one step, `WriteData`: a data.bin
removed between them takes the chunk with it, as if it had been removed after.

### Transfer (distributor.py, workers.py, drive_client.py, progress.json)

* `task[r][i]`: the tasks of request `r`'s thread pool: a part of the file, how
  much of it is on the drive (or, for a download, in the temporary file), what
  was reported, the descriptor of the progress file it holds.
* `req[r]`: the request's own thread, its `progress_lock` (the task that holds
  it, or 0), `uploaded_by_file`, its file descriptor and temporary file.
* `dir`: the session directory, progress.json and its temporary file.
* `listed`: the chunk records, with the objects they name; `size`: of the file.

Of the file itself only positions are kept: byte `p` is the number `p`, an object
is the sequence of the bytes it was sent. `Take` and `CancelRest` are the thread
pool, `Close` the end of `parallel_map`, with which the descriptor goes.
`SendChunk` and `SendWhole` are the two branches of `upload_from_fd`; Google may
keep any prefix of a chunk. A report is `Lock`, `Open`, `Flush`, `Replace`: each
file operation of `write_finalize_progress` is a step, with the lock of the own
request held, so that reports and `cleanup_session` (`RemoveUpload`,
`RemoveProgress`, `RemoveTmp`, `RemoveDir`) of another request come in between.
`Fetch` is a step of `download_to_fd`. PlanChunks proves what `PlansAssumption`
takes of a plan. `/upload/status` is `Shown(dir.progress)`.

### VaultStore (file, folder, connect and login routes) and Pool

* `appdata`: the vault.enc files (more than one if two first saves overlap).
* `live`: the objects on the drives, `nextId` the id of the next one.
* `reqs[r]`: a running request: its copy of the vault (`base`), the Drive calls
  it still has to make (`todo`), the chunk records it got.
* histories: `made` (which key an object was uploaded for), `acked` (the last
  answer about a key), `doomed` (keys with a delete that did not finish).

A request goes load, act (`PlanUpload`/`UploadPart`, `PlanDelete`/`ErasePart`,
`CheckConnect`, `SaveDirectly`), `FindVault`, `WriteVault`, `Reply`; each of
these is one call to Google or a stretch of code without one. `Changed` is what
the route did to its copy, built from `RecordFile`, `RemoveFiles`,
`CreateFolder`, `DeleteFolder` and `AddAccount`, the functions of vault.py.
Failing calls may have had their effect. Which drives an upload uses is any
nonempty set of the drives in the copy: PlanChunks says which.

`Pool` is the abstract specification: one index of accounts, folders and files,
changed by one operation at a time. `VaultStore!ImplementsPool` is
`P!Spec` with `index <- Current`, the vault the user would load now.

### FolderPaths and VaultPages (virtual folders)

`FolderPaths` has the functions of vault.py on paths, as operators on sequences
of segments: `Normalize`, `ParentPath`, `AncestorFolders`, `AllFolderPaths`,
`Subfolders` and `FilesHere` (`list_folder_contents`), and `Matched`, the test of
`delete_folder_recursive`, each normalising the folder it is given where the code
does. MCVaultStore computes VaultStore's `Inside` and
`Below` from `Matched`. `VaultPages` extends both modules: a page is what
`list_folder_contents` returns, and a folder is browsable if each folder on the
way to it is on the page above. `DeleteMatchesPages` speaks of the folders no file
is named after; `DeletesInsideOnly` is what vault.py:208 says of all of them.

### AuthFlow (cookies, OAuth round trips, token cache, changed SECRET_KEY)

* `session[b]`, `remember[b]`, `pending[b]`: a browser's cookies, each with the
  SECRET_KEY it was made under; `pages[b]`: the consent pages open in its tabs.
* `gen`, `consented`: Google's side, how often an account's refresh tokens for a
  client have expired, and who granted the primary scopes.
* `cache[a]`: `token_cache._tokens`; what an access token stands for.
* `vault[p]`, `backups[p]`: the vault of an account *as one OAuth client sees
  it*, its drives with their refresh tokens and its chunks, and the backups.
* `last[b]`, `faults`, `restarts` (with `key`): history and bounds.

A route is one step: `StartSetup`, `Continue` and `ContinueFallsBack`, `Logout`,
`ForgetDevice`, `Callback` and `CallbackFails`, `ConnectDrive`,
`CallbackSecondary`, `Visit` (dashboard, storage overview, downloads), `Upload`,
and `RefreshFails`, the exception handler that any of these may end in. The
environment is `CookieExpires`, `CacheExpires`, `TokensExpire`, `LeavePage` and
`ChangeKey`. The interleavings inside a route are VaultStore's. The vault helpers
carry the names of vault.py's functions where they have one of their own:
`Loaded` (`load_vault`), `BackUp` (`_backup_undecryptable_vault`), `Save`.

## 3. Runs

| Run | Question | Bounds |
|---|---|---|
| plan | Is every plan complete, affordable, and refused only when it must be? | 3 drives with 0..3 units, files of 0 to 10 units, 2 files a batch |
| US_overlap | Do overlapping chunk and complete requests, retries, lost answers and crashes keep the session sound, and does Resume end them? | 2 tabs, 2 workers, 1 file of 2 chunks, dropped twice, 2 faults, 1 retry |
| transfer | Do the bytes arrive, are the numbers shown true, does every request end? | 2 requests, files of 0 and 4 bytes, plans of 1 to 3 parts, 2 threads, chunks of 2 bytes, 1 call that fails |
| VS_serial | Do answers hold, do listed files keep their objects and a page, is the vault Pool? | 4 operations of any kind, 2 keys, 2 folders, 2 drives, 1 fault |
| VS_concurrent | Is every saved vault consistent under any interleaving? | 3 operations, 2 at a time, 3 drives with a limit of 2, 1 fault |
| AF_login | Does login survive expired cookies, tokens and keys without losing an index? | 1 browser, 2 accounts, 1 client, 2 SECRET_KEYs and 2 changes between them, 1 expiry, 1 fault, 1 chunk |
| US_truncate, US_stuck, VS_lost_update, VS_delete_again, VS_delete_folder, AF_strand | Six places where the code and its documentation disagree, see section 6 | the same instances, smaller; US_stuck has batches of two files |

Why the bounds are enough for the cases meant: three drives are the fewest with
a full one, a tie and a split over two; two files are the fewest that share a
snapshot. Two chunks give a first, a last, a duplicate and an early chunk; two
tabs and two workers give every pairwise overlap, including a request whose
client has gone and its retry; two faults allow a lost answer or a failed upload
and a crash in one behaviour; the proofs of the invariants cover any number. In
Transfer four bytes and chunks of two give a part sent whole, one sent in chunks,
a chunk kept in half, a part left over at the end and more parts than threads;
two requests are an abandoned attempt and
the one Resume sent, or an upload and a download. For the vault two keys, one
two folders down and one with the upper folder's name, are what a lost update, a
folder delete, an implied folder and a shared object need; three operations
are an initial upload and two that overlap. For login, two keys and two changes
give a key that comes back, as when a local and a deployed server take turns on
one account; a second account is needed to connect a drive; one expiry may hit
the user's own tokens or the drive's.

Environment assumptions are constants, so that each run names its own.

* `InitAlone` (US_overlap) keeps `/upload/init` from overlapping other requests
  of the user. Nothing in the code does. With it off, `US_truncate` hands over a
  partial file, `US_stuck` leaves a session no Resume gets past, and the count in
  meta.json may go back (section 6).
* `Serial` (VS_serial) keeps the vault's requests apart. Nothing in the code does
  this either: with it off, `VS_lost_update` is what happens.
* `Drop` starts no upload on a page that is uploading, `Shapes` has one chunk
  size, and `OneEach` (AF_login) uses each account with one OAuth client; section
  6 says what is known of the rest.

A crash inside `cleanup_session`, after data.bin is gone and before meta.json is,
leaves a session whose `complete` fails each time until it has been idle for two
days. `UploadFinishes` excepts it (`Gutted`) and assumes nothing else about where
the process dies.

Runs stop where all bounds are used up, so they do not check deadlock.

**Fairness** (`UploadSession!FairSpec`). Weak fairness on the steps of a worker:
a thread that can run runs. Strong fairness on sending a request: a tab with a
request to send gets a worker although others compete for it. Weak fairness on
Resume: the user of a paused upload clicks it in the end; nothing in the code
does. No fault and no new upload is ever forced.

`Transfer!FairSpec`: weak fairness on the steps of a request's own thread and on
those of its pool as a whole. A task takes finitely many steps, so that no
fairness between tasks is needed, and Python's lock need not be fair: some task
that can go on does.

`AuthFlow!FairSpec`: users who are signed out fill in the form again (weak
fairness on `StartSetup`), a sign-in that is possible again and again is completed
and the dashboard is loaded with the storage overview (strong fairness: cookies
may expire in between), and access tokens age out (weak fairness on
`CacheExpires`). No token expiry, key change or fault is forced.

Each property is tied to a slip in the code it would catch (`PROJECT.json`,
mutants); their definitions stand next to the ones they alter, marked `Slip`.

## 4. Proofs

`PlanChunks_proofs` proves, for any finite nonempty set of accounts, any
snapshots and any sizes, and without the bound on the number of files:

* `PlanTypeOK`: the type invariant; no account's free space becomes negative.
* `PlanCovers`: a returned plan covers the file from 0 to size.
* `PlanWithinQuota`: all files of a batch together promise no drive more than the
  snapshot says it has.
* `PlanFitsDrives`: at most one chunk of a file on a drive, and no chunk larger
  than what the drive had.
* `RefusedExactly`: a file is refused if and only if it is larger than the free
  space of all drives together.
* `PlanUsesFewest`: no fewer drives would have room for the file.

The argument is one inductive invariant, `IInv`. `TypeOK` alone is not
inductive: the loop could subtract more than a drive has, or end before the file
does. `IInv` adds that `ordered` enumerates every account once, that `sums`
holds the prefix sums of the free space in that order, that the plan is
contiguous up to `offset` and only uses accounts the loop has passed, and that
while the loop runs, `offset` is either `size` or exactly the sum of the
accounts passed. `Balanced` (what the batch was promised of a drive and what is
left of it add up) turns the type invariant into `PlanWithinQuota`. At the end of the loop the last fact and the test of
`CheckTotal` give `offset = size`. One lemma per action (`AssignKeeps`,
`SingleKeeps`, `SplitKeeps`, ...) shows that it is kept.

The last two theorems speak of sums over arbitrary sets of drives. `FiniteSums`
has the facts about such sums that these proofs and those of Transfer share: the
fold of the community modules is one, in whatever order it goes (`FoldAnyOrder`),
and what a sum is with an element less or more, with one term changed, with
larger terms, over a part of the set and over the rest. The library's induction theorems can not be used for them
(they take an operator), so that they count up to a bound with a set instead:
the least number at which a fact fails (`Least`, `UpTo`). `BeforeIsSum` says
that the loop's partial sums are the sums over the accounts passed, `TopIsMost`
that no k accounts have more room than the first k of the order; the invariant
`JInv` carries both to the plan, or the refusal, that is returned.

Assumptions: `AccountsAssumption` (`build_clients_and_vault` always has the
primary client), `SnapshotsAssumption` and `SizesAssumption` (natural numbers).

`VaultStore_proofs` proves, for any number of overlapping requests, keys,
folders and drives, with or without `Serial`, and whatever calls fail:

* `VaultTypeOK`: the type invariant of the vault files and of every copy.
* `VaultsAreConsistent`: a saved vault names the primary account, at most
  MAX_DRIVES_PER_USER drives, only chunks on drives it names, and under each key
  only chunks uploaded for that key.
* `ObjectsNotShared`: no object is listed under two keys.

None of the three is inductive by itself, since a request saves a copy that may
be old. Its `IInv` (`OthersOK`, `VaultsOK`, `RequestsOK`, `MadeOnce`) adds what
holds of a request between load and save: the copy it holds is as consistent as
a saved vault, its chunks are on drives of that copy and were made for its own
key, a `connect` about to save has tested the limit on that very copy, and the
slot it will write exists. `MadeOnce` adds that ids are fresh, so that one
object has one key. The key lemma is `Lasts`: other requests only add to `made`
and to `appdata`, and what `RequestOK` says can not become false by that. Each
action has a lemma (`UploadPartKeeps`, `CheckConnectKeeps`, `WriteVaultKeeps`,
...); `ChangedSound` covers the six kinds of change a save may carry. What is
*not* provable of overlapping requests, that a save keeps the other request's
change, is what `VS_lost_update` refutes.

Assumptions: `PrimaryAssumption`, `MaxDrivesAssumption` (at least one drive),
`DrivesAssumption` (finitely many) and `InsideAssumption`.

`VaultPages_proofs` proves, for any set of segments, keys and folders, any
number of requests and however they overlap:

* `FilesCanBeFound`: every file of a saved vault is on exactly one page, and its
  folders can be clicked to from Home.
* `DeleteTakesPages`: `delete_folder_recursive` takes exactly the files on the
  pages at and below the folder, for the folders no file is named after.

The argument is one fact about paths, `PrefixesOfParent`: the prefixes of a path
are those of its parent and the path itself. With `PrefixesOfPrefix` it gives
`AncestorsBrowsable`: the pages that lead to a listed file are implied by that
file alone, so that it needs no invariant of the saved folders. `DeleteOne` is
the second theorem for one vault; it cites `VaultTypeOK` for the shape of the
vault. Three assumptions: keys are nonempty and lie in a normalised folder
(`KeysAssumption`), created folders are normalised, as is every folder on the way,
and have valid names, which `create_folder` checks (`FoldersAssumption`), and `Inside` and `Below` are what `Matched` takes
(`MatchedAssumption`).

`VaultSerial_proofs` proves, for any keys, folders and drives and whatever calls
fail or processes die, if requests do not overlap (the constant `Serial`, a
hypothesis of each theorem):

* `SerialAnswersHold`: what was answered as stored is listed, what was answered
  as deleted is not.
* `SerialListedIsStored`: a listed file has its objects, unless a delete of that
  file stopped half way.
* `SerialImplementsPool`: VaultStore implements Pool. The mapping is
  `index <- Current`; the one step that is not a stutter is `WriteVault`
  (and its variant that fails after it took effect), which maps to the operation
  of the request that saves.

`SInv` adds to `IInv` that one request is under way, that there is at most one
vault file, and `Follows`: the copy a request holds is the vault as it is
*now*, its slot is that file's, its objects are live, nothing is promised about
its keys, and what it erases is listed under keys that are `doomed`. Without
`Serial` the first conjunct of `Follows` is what another request's save breaks,
and `VS_lost_update` shows the consequence: the hypothesis can not be dropped.

`AuthFlow_proofs` proves, for any browsers, accounts, clients and SECRET_KEYs
and whatever expires or fails:

* `AuthTypeOK`: the type invariant.
* `IndexIsKept`: no vault of another SECRET_KEY is replaced without a backup.

`IInv` is the type invariant together with `Given`: each token in a cookie, in a
vault or in the cache is one its account could have given to one of its clients,
and the cache has an account's own. The action property follows from `IInv` and
one look at each route: only `Callback`, `CallbackSecondary` and `Upload` save
(`OnlySaves`), and each of them went through `Loaded` and `BackUp`.

`UploadSession_proofs` proves, for any tabs, workers, files, batches and chunk
sizes, with overlapping inits and crashes anywhere:

* `SessionTypeOK`: the type invariant.

and if init overlaps nothing and all pages cut files alike (`Calm`):

* `MetaIsIntact`: meta.json is never empty or half written.
* `CountedIsWritten`: the chunks it counts are in data.bin.
* `WholeIsHandedOff`: what is handed to the drives is the whole file.

`IInv` says where each request can be and with what in hand (`RequestOK`), that a
request has at most one tab waiting for it (`AnswersOK`), and where tabs are in
their batches. `CInv` adds that there is one writer (`InTurn`: the event loop
gives it for chunks, the hypothesis for init), that the text a writer is about
to put into meta.json counts no less than what is there and nothing that is not
in data.bin (`WriterOK`), and that a complete request that found all chunks
counted has the whole file, by name or by its descriptor (`ReaderOK`). Both
parts of `Calm` are needed. `US_truncate` is what overlapping inits do to
`HandedOffWhole`. With two chunk sizes a crash between emptying data.bin and
replacing meta.json leaves the old count beside an empty file, and a chunk of the
other size is accepted by its index alone.

`Transfer_proofs` proves, for any finite nonempty set of requests, any number
of threads and faults, any chunk size and any plans that cover the file, without
further hypotheses:

* `TransferTypeOK`: the type invariant, which has that no total exceeds the file.
* `ObjectsIntact`, `DownloadsWhole`: objects are the bytes their records say, and
  an answered download is the file.
* `ReportsAddUp`: a successful upload's total is the size of the file.
* `StatusTrue`, `StatusNeverFalls`: what `/upload/status` shows was reached by
  one of the requests, and never goes back while one works alone.
* `NothingIsLeft`: what cleanup_session leaves when nothing failed.

`IInv` ties each request to its tasks (`RequestOK`), each task to its bytes
(`UploadOK`: the object is the part's bytes before `pos`, and all of them are
reported unless the task is on its way to the lock; `DownloadOK`), the total to
the sum of what the tasks have reported (`TotalOK`: less only while the holder
of the lock has the next total in hand), the temporary file of a download to
what its tasks fetched (`FileOK`), and the directory to those who use it
(`DirOK`: a text in progress.json, or on its way there, was reached by some
request, and whoever can still write has yet to clean up). `AloneOK` says more
of a request that is the only one: its reports go to the temporary file it
opened itself, and the next text is its total. `PartsAddUp` and `PartsCover`
turn a plan whose parts follow one another into a sum equal to the size and into
a part for each byte, counting up with `UpTo` of `FiniteSums`.

Assumptions, all of which TLC evaluates in the runs: `PlansAssumption` (plans
cover the file, for sizes that are numbers: PlanChunks proves it of what
`plan_chunks` returns), `BoundsAssumption`, `RequestsAssumption` (finitely many
requests, and one at least), and `NothingAssumption` here and in UploadSession
(the model values that stand for no file, an empty and a garbled text are no
numbers or records).

Only model-checked are the liveness properties (`UploadFinishes`, `Answered`,
`SignsInAgain`: fairness and ENABLED are out of the prover's reach) and the six
runs that expect a violation. The theorems of `Calm` and `Serial` are
conditional: their hypotheses are not kept by the code, and the runs named in
section 6 show what happens without them.

## 5. Plan

1. (done) PlanChunks with proofs; UploadSession; VaultStore and Pool with proofs
   about VaultStore; AuthFlow.
2. (done) Transfer; FolderPaths and VaultPages with proofs; batches in
   UploadSession.
3. (done) Proofs: the refinement of Pool and what the vault promises when
   `Serial`; UploadSession, AuthFlow and Transfer for any constants; refusals and
   the number of drives of PlanChunks.
4. Possible extensions: two uploads planned against one drive's snapshot (the
   outcome, a task that fails for want of room, is in VaultStore); several
   `uploadFiles` calls in one page; sessions and vault in one module, for two
   chunk sizes and for the folder a session keeps.

## 6. Where code and documentation disagree

Each has a run that finds the behaviour and an entry under "findings".

* `US_truncate`: two overlapping inits of a new session. The second empties
  data.bin after chunks were counted; `finalize_session` verifies the count, not
  the file, and hands over what is there.
* `US_stuck`: the answer to an init is lost and the user clicks Resume. The new
  init sweeps every directory without a meta.json (upload_sessions.py:97), also
  the one the abandoned init is making: data.bin is removed, the abandoned init
  then writes its meta.json. Each later init resumes that session, each chunk
  fails on the missing data.bin, and Resume gets no further until the session has
  been idle for two days ("Nothing lost so far; click Resume to continue",
  dashboard.html:408). No crash is needed. An init that reads meta.json while an
  abandoned complete removes the session can leave the same state.
* `VS_lost_update`: two overlapping uploads are both answered with "ok"; the
  vault saved last was loaded before the other one was saved.
* `VS_delete_again`: after a delete that stopped half way every later delete of
  that file fails on the chunk that is already gone.
* `VS_delete_folder`: a file has the path of a folder beside it. Deleting the
  folder deletes the file, which is on the page above, and erases its objects
  (vault.py:214; vault.py:207-208 says "every file under it" and dashboard.html:471
  "everything inside it"). `DeleteMatchesPages` is exact for the other folders.
* `AF_strand`: the refresh token of a connected drive expires. Each storage
  overview then clears the cookies of the *primary* login, and neither signing in
  nor connecting the drive again ("already connected") replaces the token.
  `SignsInAgain` is what does hold: it excepts this case.

Reading the code for the models showed others that no run is spent on (they are
notes under "hazards"): 409 is retried instead of re-synchronised; a failed vault
save makes Resume upload the file again; a torn meta.json makes the sweep raise;
a half-sent file dropped in another folder is recorded in the first (README.md:106
says it lands in the open one); `/continue` proves the refresh token only if no
access token is cached (main.py:269 says it forces a refresh). Five more:

* An init that resumes a session writes back the meta.json it has read
  (upload_sessions.py:116-118). A chunk of another tab that is counted in between
  (158-159) is uncounted again: `received_chunks` goes back, the other tab's upload
  pauses, and Resume sends the chunk again. There is no property that the count
  never falls.
* A page or a session from before a change of `TRANSFER_CHUNK_SIZE` has chunks of
  another size. US_overlap with `Shapes = {c1, c2}` violates `ReceivedIsWritten`.
* The token cache knows accounts, not OAuth clients, although token_cache.py:3-4
  calls it purely a latency optimization: a user who signs in with a second
  client within the life of an access token has files written where the second
  one can not see them. With `ClientsOf <- AnnSwitches` and `Clients = {c1, c2}`
  in AF_login, `FilesAreReachable` (added as an INVARIANT) is violated, and so is
  `SignsInAgain`: a drive's token is saved in the other client's vault.
* Files dropped on a page that is uploading start a second loop on the same
  `pendingUpload` (dashboard.html:378, 401, 405): Resume may skip a file or do
  nothing, against "Nothing lost so far; click Resume to continue" (line 408).
* A folder created in a folder that another tab has just deleted is on no page
  until a file makes its parent reappear (vault.py:179-186).

## 7. Not modelled

Encryption and signatures (a text can be read with the key it was written with),
the client secret and its copy in the vault (`set_oauth_client`), HTML, styles,
the onboarding page, the Picker import, storage gauges (sums and percentages of
one answer), the download button, Docker, Render and terraform files. Google is external: objects appear and vanish by calls, and
`files().list` may return the vault files in any order. Byte contents, file
sizes (outside PlanChunks and Transfer), the room on the server's disk, the
temporary files of failed downloads and time (outside "older than two days") are
abstracted.
