----------------------------- MODULE PlanChunks -----------------------------
(***************************************************************************)
(* distributor.plan_chunks: which drive receives which byte range of a     *)
(* file, decided from one snapshot of the free space of every connected    *)
(* drive.  upload_many plans the files of a batch one after the other      *)
(* against the same dictionary, which every call shrinks in place.         *)
(*                                                                         *)
(* The function is written as the sequential program it is: one step for   *)
(* the single-drive case, one for the sort, one per element of the sum and *)
(* one per iteration of the splitting loop.  Sizes are natural numbers;    *)
(* Python's integers do not overflow.                                      *)
(***************************************************************************)
EXTENDS Integers, FiniteSets, Sequences, FiniteSetsExt

CONSTANTS
    Accounts,   \* the google account ids of the connected drives
    Snapshots,  \* the free-space dictionaries a batch may start from
    Sizes,      \* the file sizes a batch may hold
    MaxFiles    \* bound: files planned against one snapshot

\* The primary account is always among the clients (main.py:65).
ASSUME AccountsAssumption == IsFiniteSet(Accounts) /\ Accounts # {}
ASSUME SnapshotsAssumption == Snapshots \subseteq [Accounts -> Nat]
ASSUME SizesAssumption == Sizes \subseteq Nat

VARIABLES
    pc,        \* "call" | "sum" | "split" | "done" | "error"
    free,      \* free_space, mutated in place
    size,      \* the argument of the current call
    ordered,   \* the accounts, roomiest first
    sums,      \* sums[k]: free space of the first k accounts of ordered
    i,         \* position of the loop in ordered
    offset,    \* first byte of the file not yet planned
    plan,      \* the chunks planned so far
    start,     \* history: free_space when the current call began
    snapshot,  \* history: free_space when the batch began
    planned,   \* history: bytes promised to each account by the batch
    files      \* history: calls made on this snapshot

vars == <<pc, free, size, ordered, sums, i, offset, plan, start, snapshot,
          planned, files>>

Chunk == [account : Accounts, offset : Nat, size : Nat]

N == Cardinality(Accounts)

\* Slips in min(free, size - offset): the whole drive, or the whole rest.
WholeDrive(a, b) == a

WholeRest(a, b) == b

MinOf(a, b) == IF a <= b THEN a ELSE b

\* Slip: a drive one byte short counts as roomy enough.
SingleFitOffByOne == {a \in Accounts : free[a] + 1 >= size}

(***************************************************************************)
(* Accounts that could hold the whole file, and the roomiest of them.  The *)
(* winner of a tie depends on the order of the dictionary, which is the    *)
(* order in which the drives were connected: any of them.                  *)
(***************************************************************************)
SingleFit == {a \in Accounts : free[a] >= size}

Roomiest == {a \in SingleFit : \A b \in SingleFit : free[a] >= free[b]}

\* Slip: reverse=True is forgotten.
OrdersAscending(f) ==
    {s \in [1..N -> Accounts] :
        /\ \A a \in Accounts : \E k \in 1..N : s[k] = a
        /\ \A j, k \in 1..N : j < k => s[j] # s[k] /\ f[s[j]] <= f[s[k]]}

(***************************************************************************)
(* The orders sorted(..., reverse=True) may return: every account once, by *)
(* decreasing free space, ties in dictionary order (again any).            *)
(***************************************************************************)
Orders(f) ==
    {s \in [1..N -> Accounts] :
        /\ \A a \in Accounts : \E k \in 1..N : s[k] = a
        /\ \A j, k \in 1..N : j < k => s[j] # s[k] /\ f[s[j]] >= f[s[k]]}

Init ==
    /\ pc = "call"
    /\ snapshot \in Snapshots
    /\ free = snapshot
    /\ start = snapshot
    /\ size \in Sizes
    /\ ordered = <<>> /\ sums = <<>> /\ i = 1
    /\ offset = 0 /\ plan = <<>>
    /\ planned = [a \in Accounts |-> 0]
    /\ files = 1

\* free_space[acct] -= n, for a chunk of n bytes at off of the file.
Assign(acct, off, n) ==
    /\ plan' = Append(plan, [account |-> acct, offset |-> off, size |-> n])
    /\ free' = [free EXCEPT ![acct] = @ - n]
    /\ planned' = [planned EXCEPT ![acct] = @ + n]

PlanSingle ==
    /\ pc = "call"
    /\ \E best \in Roomiest : Assign(best, 0, size)
    /\ offset' = size
    /\ pc' = "done"
    /\ UNCHANGED <<size, ordered, sums, i, start, snapshot, files>>

Sort ==
    /\ pc = "call"
    /\ SingleFit = {}
    /\ ordered' \in Orders(free)
    /\ pc' = "sum"
    /\ UNCHANGED <<free, size, sums, i, offset, plan, start, snapshot, planned,
                   files>>

\* The free space of the accounts before position k of ordered.
Before(k) == IF k = 1 THEN 0 ELSE sums[k - 1]

SumOne ==
    /\ pc = "sum"
    /\ i <= N
    /\ sums' = Append(sums, Before(i) + free[ordered[i]])
    /\ i' = i + 1
    /\ UNCHANGED <<pc, free, size, ordered, offset, plan, start, snapshot,
                   planned, files>>

\* Slip: a file that fills the drives to the last byte is refused.
CheckTotalStrict ==
    /\ pc = "sum"
    /\ i > N
    /\ pc' = IF Before(N + 1) <= size THEN "error" ELSE "split"
    /\ i' = 1
    /\ UNCHANGED <<free, size, ordered, sums, offset, plan, start, snapshot,
                   planned, files>>

CheckTotal ==
    /\ pc = "sum"
    /\ i > N
    /\ pc' = IF Before(N + 1) < size THEN "error" ELSE "split"
    /\ i' = 1
    /\ UNCHANGED <<free, size, ordered, sums, offset, plan, start, snapshot,
                   planned, files>>

\* One iteration of the loop: what fits, or nothing on a drive with no room.
SplitOne ==
    /\ pc = "split"
    /\ i <= N
    /\ offset < size
    /\ LET n == MinOf(start[ordered[i]], size - offset)
       IN  IF n <= 0
           THEN UNCHANGED <<plan, free, planned, offset>>
           ELSE /\ Assign(ordered[i], offset, n)
                /\ offset' = offset + n
    /\ i' = i + 1
    /\ UNCHANGED <<pc, size, ordered, sums, start, snapshot, files>>

Return ==
    /\ pc = "split"
    /\ i > N \/ offset >= size
    /\ pc' = "done"
    /\ UNCHANGED <<free, size, ordered, sums, i, offset, plan, start, snapshot,
                   planned, files>>

\* Slip: the free space is asked for again for each file, although nothing of
\* the batch is on the drives before all of it is planned.
NextFileAsksAgain ==
    /\ pc = "done"
    /\ files < MaxFiles
    /\ files' = files + 1
    /\ size' \in Sizes
    /\ free' = snapshot
    /\ start' = snapshot
    /\ ordered' = <<>> /\ sums' = <<>> /\ i' = 1
    /\ offset' = 0 /\ plan' = <<>>
    /\ pc' = "call"
    /\ UNCHANGED <<snapshot, planned>>

(***************************************************************************)
(* upload_many's loop over the payloads: the next file is planned against  *)
(* what the previous ones left.  A ValueError ends the batch.              *)
(***************************************************************************)
NextFile ==
    /\ pc = "done"
    /\ files < MaxFiles
    /\ files' = files + 1
    /\ size' \in Sizes
    /\ start' = free
    /\ ordered' = <<>> /\ sums' = <<>> /\ i' = 1
    /\ offset' = 0 /\ plan' = <<>>
    /\ pc' = "call"
    /\ UNCHANGED <<free, snapshot, planned>>

Next ==
    \/ PlanSingle \/ Sort \/ SumOne \/ CheckTotal \/ SplitOne \/ Return
    \/ NextFile

Spec == Init /\ [][Next]_vars

-----------------------------------------------------------------------------
\* Every variable has its type, and no account's free space ever goes below
\* zero (distributor.py keeps it in a plain int).
TypeOK ==
    /\ pc \in {"call", "sum", "split", "done", "error"}
    /\ free \in [Accounts -> Nat]
    /\ start \in [Accounts -> Nat]
    /\ snapshot \in [Accounts -> Nat]
    /\ planned \in [Accounts -> Nat]
    /\ size \in Nat /\ offset \in Nat /\ i \in Nat /\ files \in Nat
    /\ plan \in Seq(Chunk)
    /\ sums \in Seq(Nat)
    /\ ordered \in Seq(Accounts)

\* A returned plan covers the file byte for byte: the first chunk starts at 0,
\* each starts where the previous one ended, and the last one ends at size.
\* download_with_chunks writes each chunk at its offset, so a gap or an overlap
\* would hand the user a corrupt file.
PlanCoversFile ==
    /\ \A k \in 1..Len(plan) :
          plan[k].offset = IF k = 1 THEN 0
                           ELSE plan[k - 1].offset + plan[k - 1].size
    /\ pc = "done" =>
          /\ plan # <<>>
          /\ plan[Len(plan)].offset + plan[Len(plan)].size = size

\* The files of a batch together are promised no byte more of a drive than the
\* drive reported before the first of them was planned: whichever file was
\* placed whole or split, and on however many drives, none of the uploads that
\* follow can run out of room because of the batch itself.
NeverOvercommits == \A a \in Accounts : planned[a] <= snapshot[a]

\* A file is put on a drive at most once, and never a byte more than the drive
\* had free when the file was planned.
ChunksFitDrives ==
    /\ \A j, k \in 1..Len(plan) :
          plan[j].account = plan[k].account => j = k
    /\ \A k \in 1..Len(plan) : plan[k].size <= start[plan[k].account]

Combined(S) == MapThenSumSet(LAMBDA a : start[a], S)

\* A file is refused exactly when the drives together have no room for it: a
\* file that fits somewhere, whole or in parts, is never turned away, and one
\* that does not fit is never half planned.
RefusedIffTooBig ==
    /\ pc = "error" => Combined(Accounts) < size
    /\ pc = "done" => Combined(Accounts) >= size

\* The plan uses as few drives as any plan could: no smaller set of drives had
\* room for the file.  A chunk more is a drive more that can be revoked, and
\* the file is lost with any one of them.
FewestDrives ==
    pc = "done" =>
        \A S \in SUBSET Accounts :
            Cardinality(S) < Len(plan) => Combined(S) < size \/ size = 0
=============================================================================
