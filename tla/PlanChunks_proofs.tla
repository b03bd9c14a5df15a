------------------------- MODULE PlanChunks_proofs -------------------------
(***************************************************************************)
(* For any set of accounts, any snapshot of their free space and any file  *)
(* sizes: the plan covers the file, no drive is promised more than it had, *)
(* a file is refused exactly when it is larger than the pool, and no plan  *)
(* could do with fewer drives.                                             *)
(*                                                                         *)
(* The splitting loop ends with the whole file planned although it only    *)
(* ever looks at one drive.  What makes that true is that the loop is      *)
(* always MinOf(size, Before(i)) bytes into the file, that is, it took     *)
(* everything there was on the drives it has passed, and that the sum      *)
(* computed before the loop is Before(N + 1).                              *)
(*                                                                         *)
(* The rest follows from Before(k + 1) being the room of the first k       *)
(* accounts of the order together (BeforeIsSum), than which no other k     *)
(* accounts have more (TopIsMost).                                         *)
(***************************************************************************)
EXTENDS PlanChunks, FiniteSums

USE DEF MinOf

\* The sums computed so far are the partial sums of the snapshot.
SumsAreSums ==
    \A k \in 1..Len(sums) :
        sums[k] = (IF k = 1 THEN 0 ELSE sums[k - 1]) + start[ordered[k]]

Contiguous ==
    \A k \in 1..Len(plan) :
        plan[k].offset = IF k = 1 THEN 0
                         ELSE plan[k - 1].offset + plan[k - 1].size

\* offset is where the plan ends.
PlanEnd ==
    IF plan = <<>> THEN offset = 0
    ELSE plan[Len(plan)].offset + plan[Len(plan)].size = offset

\* Nothing is planned yet, whatever the batch did before.
Fresh == plan = <<>> /\ offset = 0 /\ free = start

AtCall == pc = "call" => Fresh /\ sums = <<>> /\ i = 1

AtSum ==
    pc = "sum" =>
        /\ Fresh
        /\ size > 0
        /\ ordered \in Orders(start)
        /\ i \in 1..(N + 1)
        /\ Len(sums) = i - 1

AtSplit ==
    pc = "split" =>
        /\ size > 0
        /\ ordered \in Orders(start)
        /\ i \in 1..(N + 1)
        /\ Len(sums) = N
        /\ Before(N + 1) >= size
        /\ offset = MinOf(size, Before(i))
        /\ \A j \in i..N : free[ordered[j]] = start[ordered[j]]
        /\ \A k \in 1..Len(plan) : \E j \in 1..(i - 1) :
              plan[k].account = ordered[j]

AtDone == pc = "done" => plan # <<>> /\ offset = size

\* What the batch took of a drive and what the drive has left add up.
Balanced == \A a \in Accounts : planned[a] + free[a] = snapshot[a]

IInv ==
    /\ TypeOK
    /\ Balanced
    /\ ChunksFitDrives
    /\ Contiguous
    /\ PlanEnd
    /\ SumsAreSums
    /\ AtCall
    /\ AtSum
    /\ AtSplit
    /\ AtDone

-----------------------------------------------------------------------------
\* The number of accounts is a positive number.
LEMMA CountType == N \in Nat /\ N > 0
BY AccountsAssumption, FS_CardinalityType, FS_EmptySet DEF N

\* The partial sums are numbers, at every position the loop can be at.
LEMMA BeforeType ==
    ASSUME sums \in Seq(Nat), NEW k \in 1..(Len(sums) + 1)
    PROVE  Before(k) \in Nat
BY DEF Before

\* The state before the first call satisfies the invariant.
LEMMA InitInv == Init => IInv
<1> SUFFICES ASSUME Init PROVE IInv
    OBVIOUS
<1> USE DEF Init
<1>1. snapshot \in [Accounts -> Nat]
    BY SnapshotsAssumption
<1>2. size \in Nat
    BY SizesAssumption
<1>3. TypeOK
    BY <1>1, <1>2 DEF TypeOK, Chunk
<1>4. Balanced
    BY <1>1 DEF Balanced
<1>5. ChunksFitDrives /\ Contiguous /\ PlanEnd /\ SumsAreSums
    BY DEF ChunksFitDrives, Contiguous, PlanEnd, SumsAreSums
<1>6. AtCall /\ AtSum /\ AtSplit /\ AtDone
    BY DEF AtCall, AtSum, AtSplit, AtDone, Fresh
<1> QED
    BY <1>3, <1>4, <1>5, <1>6 DEF IInv

-----------------------------------------------------------------------------
(***************************************************************************)
(* Appending a chunk that starts at offset, on a drive the plan does not   *)
(* use yet and that has room for it, keeps the plan well formed.  Shared   *)
(* by PlanSingle and SplitOne.                                             *)
(***************************************************************************)
LEMMA AssignKeeps ==
    ASSUME TypeOK, Balanced, ChunksFitDrives, Contiguous, PlanEnd,
           NEW acct \in Accounts, NEW n \in Nat,
           Assign(acct, offset, n),
           offset' = offset + n,
           n <= free[acct],
           free[acct] = start[acct],
           \A k \in 1..Len(plan) : plan[k].account # acct,
           UNCHANGED <<start, snapshot>>
    PROVE  /\ plan' \in Seq(Chunk) /\ plan' # <<>>
           /\ free' \in [Accounts -> Nat]
           /\ planned' \in [Accounts -> Nat]
           /\ offset' \in Nat
           /\ Balanced'
           /\ ChunksFitDrives'
           /\ Contiguous'
           /\ PlanEnd'
<1> DEFINE c == [account |-> acct, offset |-> offset, size |-> n]
<1>1. c \in Chunk /\ plan \in Seq(Chunk) /\ offset \in Nat
    BY DEF TypeOK, Chunk
<1>2. plan' = Append(plan, c)
    BY DEF Assign
<1>3. /\ plan' \in Seq(Chunk)
      /\ Len(plan') = Len(plan) + 1
      /\ plan'[Len(plan) + 1] = c
      /\ \A k \in 1..Len(plan) : plan'[k] = plan[k]
      /\ Len(plan) \in Nat
    BY <1>1, <1>2
<1>4. plan' # <<>>
    BY <1>3
<1>5. /\ free' \in [Accounts -> Nat]
      /\ planned' \in [Accounts -> Nat]
      /\ \A a \in Accounts :
            /\ free'[a] = IF a = acct THEN free[a] - n ELSE free[a]
            /\ planned'[a] = IF a = acct THEN planned[a] + n ELSE planned[a]
    BY SMTT(30) DEF Assign, TypeOK
<1>6. Balanced'
    <2>1. start' = start /\ snapshot' = snapshot
        OBVIOUS
    <2>2. ASSUME NEW a \in Accounts
          PROVE  planned'[a] + free'[a] = snapshot'[a]
        <3>1. planned[a] \in Nat /\ free[a] \in Nat
            BY DEF TypeOK
        <3>2. planned[a] + free[a] = snapshot[a]
            BY DEF Balanced
        <3>3. planned'[a] + free'[a] = planned[a] + free[a]
            BY <1>5, <3>1
        <3> QED
            BY <2>1, <3>2, <3>3
    <2> QED
        BY <2>2 DEF Balanced
<1>7. ChunksFitDrives'
    <2>1. ASSUME NEW j \in 1..Len(plan'), NEW k \in 1..Len(plan'),
                 plan'[j].account = plan'[k].account
          PROVE  j = k
        BY <1>3, <2>1 DEF ChunksFitDrives
    <2>2. ASSUME NEW k \in 1..Len(plan')
          PROVE  plan'[k].size <= start'[plan'[k].account]
        BY <1>3 DEF ChunksFitDrives
    <2> QED
        BY <2>1, <2>2 DEF ChunksFitDrives
<1>8. Contiguous'
    <2>1. ASSUME NEW k \in 1..Len(plan')
          PROVE  plan'[k].offset = IF k = 1 THEN 0
                                   ELSE plan'[k - 1].offset + plan'[k - 1].size
        <3>1. CASE k <= Len(plan)
            <4>1. plan'[k] = plan[k] /\ (k # 1 => plan'[k - 1] = plan[k - 1])
                BY <3>1, <1>3
            <4> QED
                BY <3>1, <4>1, <1>3 DEF Contiguous
        <3>2. CASE k = Len(plan) + 1 /\ plan = <<>>
            BY <3>2, <1>3 DEF PlanEnd
        <3>3. CASE k = Len(plan) + 1 /\ plan # <<>>
            <4>1. Len(plan) >= 1
                BY <1>1, <3>3
            <4>2. plan'[k - 1] = plan[Len(plan)]
                BY <1>3, <3>3, <4>1
            <4> QED
                BY <1>3, <3>3, <4>1, <4>2 DEF PlanEnd
        <3> QED
            BY <1>3, <3>1, <3>2, <3>3
    <2> QED
        BY <2>1 DEF Contiguous
<1>9. PlanEnd'
    BY <1>1, <1>3, <1>4 DEF PlanEnd
<1> QED
    BY <1>1, <1>3, <1>4, <1>5, <1>6, <1>7, <1>8, <1>9

-----------------------------------------------------------------------------
\* A file that fits on one drive is planned whole, on a drive with room.
LEMMA SingleKeeps == IInv /\ PlanSingle => IInv'
<1> SUFFICES ASSUME IInv, PlanSingle PROVE IInv'
    OBVIOUS
<1>1. PICK best \in Roomiest : Assign(best, 0, size)
    BY DEF PlanSingle
<1>2. /\ pc = "call" /\ pc' = "done" /\ offset' = size
      /\ UNCHANGED <<size, ordered, sums, i, start, snapshot, files>>
    BY DEF PlanSingle
<1>3. Fresh /\ sums = <<>>
    BY <1>2 DEF IInv, AtCall
<1>4. best \in Accounts /\ size <= free[best] /\ free[best] = start[best]
    BY <1>1, <1>3 DEF Roomiest, SingleFit, Fresh
<1>5. size \in Nat /\ offset' = offset + size /\ Assign(best, offset, size)
    BY <1>1, <1>2, <1>3 DEF Fresh, IInv, TypeOK
<1>6. \A k \in 1..Len(plan) : plan[k].account # best
    BY <1>3 DEF Fresh
<1>7. /\ plan' \in Seq(Chunk) /\ plan' # <<>>
      /\ free' \in [Accounts -> Nat]
      /\ planned' \in [Accounts -> Nat]
      /\ offset' \in Nat
      /\ Balanced' /\ ChunksFitDrives' /\ Contiguous' /\ PlanEnd'
    BY <1>2, <1>4, <1>5, <1>6, AssignKeeps DEF IInv
<1>8. TypeOK'
    BY <1>2, <1>7 DEF IInv, TypeOK
<1>9. SumsAreSums'
    BY <1>2, <1>3 DEF SumsAreSums
<1>10. AtCall' /\ AtSum' /\ AtSplit' /\ AtDone'
    BY <1>2, <1>7 DEF AtCall, AtSum, AtSplit, AtDone
<1> QED
    BY <1>7, <1>8, <1>9, <1>10 DEF IInv

\* When no drive can hold the file, the file is not empty.
LEMMA SortKeeps == IInv /\ Sort => IInv'
<1> SUFFICES ASSUME IInv, Sort PROVE IInv'
    OBVIOUS
<1>1. /\ pc = "call" /\ pc' = "sum" /\ SingleFit = {}
      /\ ordered' \in Orders(free)
      /\ UNCHANGED <<free, size, sums, i, offset, plan, start, snapshot,
                     planned, files>>
    BY DEF Sort
<1>2. Fresh /\ sums = <<>> /\ i = 1
    BY <1>1 DEF IInv, AtCall
<1>3. ordered' \in [1..N -> Accounts] /\ ordered' \in Orders(start)
    BY <1>1, <1>2 DEF Orders, Fresh
<1>4. size > 0
    <2>1. PICK a \in Accounts : TRUE
        BY AccountsAssumption
    <2>2. ~(free[a] >= size)
        BY <1>1 DEF SingleFit
    <2> QED
        BY <2>1, <2>2 DEF IInv, TypeOK
<1>5. TypeOK'
    BY <1>1, <1>3, CountType DEF IInv, TypeOK
<1>6. Balanced' /\ ChunksFitDrives' /\ Contiguous' /\ PlanEnd'
    BY <1>1 DEF IInv, Balanced, ChunksFitDrives, Contiguous, PlanEnd
<1>7. SumsAreSums'
    BY <1>1, <1>2 DEF SumsAreSums
<1>8. AtSum'
    BY <1>1, <1>2, <1>3, <1>4, CountType DEF AtSum, Fresh
<1>9. AtCall' /\ AtSplit' /\ AtDone'
    BY <1>1 DEF AtCall, AtSplit, AtDone
<1> QED
    BY <1>5, <1>6, <1>7, <1>8, <1>9 DEF IInv

\* One more partial sum.
LEMMA SumKeeps == IInv /\ SumOne => IInv'
<1> SUFFICES ASSUME IInv, SumOne PROVE IInv'
    OBVIOUS
<1> DEFINE t == Before(i) + free[ordered[i]]
<1>1. /\ pc = "sum" /\ pc' = "sum" /\ i <= N /\ i' = i + 1
      /\ sums' = Append(sums, t)
      /\ UNCHANGED <<free, size, ordered, offset, plan, start, snapshot,
                     planned, files>>
    BY DEF SumOne
<1>2. /\ Fresh /\ size > 0 /\ ordered \in Orders(start)
      /\ i \in 1..(N + 1) /\ Len(sums) = i - 1
      /\ sums \in Seq(Nat) /\ i \in Nat /\ N \in Nat
    BY <1>1, CountType DEF IInv, AtSum, TypeOK
<1>3. ordered[i] \in Accounts /\ free[ordered[i]] \in Nat
    BY <1>1, <1>2 DEF Orders, IInv, TypeOK
<1>4. Before(i) \in Nat
    BY <1>2, BeforeType
<1>5. t \in Nat
    BY <1>3, <1>4
<1>6. /\ sums' \in Seq(Nat) /\ Len(sums') = i
      /\ sums'[i] = t
      /\ \A k \in 1..(i - 1) : sums'[k] = sums[k]
    BY <1>1, <1>2, <1>5
<1>7. TypeOK'
    BY <1>1, <1>2, <1>6, SMTT(30) DEF IInv, TypeOK
<1>8. Balanced' /\ ChunksFitDrives' /\ Contiguous' /\ PlanEnd'
    BY <1>1 DEF IInv, Balanced, ChunksFitDrives, Contiguous, PlanEnd
<1>9. SumsAreSums'
    <2>1. ASSUME NEW k \in 1..Len(sums')
          PROVE  sums'[k] = (IF k = 1 THEN 0 ELSE sums'[k - 1])
                            + start'[ordered'[k]]
        <3>1. CASE k < i
            <4>1. sums'[k] = sums[k] /\ (k # 1 => sums'[k - 1] = sums[k - 1])
                BY <3>1, <1>2, <1>6
            <4>2. k \in 1..Len(sums)
                BY <3>1, <1>2, <1>6
            <4> QED
                BY <1>1, <4>1, <4>2 DEF IInv, SumsAreSums
        <3>2. CASE k = i
            <4>1. k # 1 => sums'[k - 1] = sums[k - 1]
                BY <3>2, <1>2, <1>6
            <4> QED
                BY <3>2, <4>1, <1>1, <1>2, <1>6 DEF Before, Fresh
        <3> QED
            BY <3>1, <3>2, <1>2, <1>6
    <2> QED
        BY <2>1 DEF SumsAreSums
<1>10. AtSum'
    BY <1>1, <1>2, <1>6 DEF AtSum, Fresh
<1>11. AtCall' /\ AtSplit' /\ AtDone'
    BY <1>1 DEF AtCall, AtSplit, AtDone
<1> QED
    BY <1>7, <1>8, <1>9, <1>10, <1>11 DEF IInv

\* The loop starts at the first drive with the total known to suffice.
LEMMA CheckKeeps == IInv /\ CheckTotal => IInv'
<1> SUFFICES ASSUME IInv, CheckTotal PROVE IInv'
    OBVIOUS
<1>1. /\ pc = "sum" /\ i > N /\ i' = 1
      /\ pc' = IF Before(N + 1) < size THEN "error" ELSE "split"
      /\ UNCHANGED <<free, size, ordered, sums, offset, plan, start, snapshot,
                     planned, files>>
    BY DEF CheckTotal
<1>2. /\ Fresh /\ size > 0 /\ ordered \in Orders(start)
      /\ i \in 1..(N + 1) /\ Len(sums) = i - 1
      /\ sums \in Seq(Nat) /\ size \in Nat /\ i \in Nat /\ N \in Nat
    BY <1>1, CountType DEF IInv, AtSum, TypeOK
<1>3. Len(sums) = N
    BY <1>1, <1>2
<1>4. Before(N + 1) \in Nat
    BY <1>2, <1>3, BeforeType
<1>5. TypeOK'
    BY <1>1 DEF IInv, TypeOK
<1>6. Balanced' /\ ChunksFitDrives' /\ Contiguous' /\ PlanEnd'
    BY <1>1 DEF IInv, Balanced, ChunksFitDrives, Contiguous, PlanEnd
<1>7. SumsAreSums'
    BY <1>1 DEF IInv, SumsAreSums
<1>8. AtSplit'
    <2> SUFFICES ASSUME pc' = "split" PROVE AtSplit'
        BY DEF AtSplit
    <2>1. Before(N + 1)' >= size'
        BY <1>1, <1>2, <1>4 DEF Before
    <2>2. offset' = MinOf(size, Before(i))'
        BY <1>1, <1>2 DEF Before, Fresh
    <2>3. \A j \in (i')..N : free'[ordered'[j]] = start'[ordered'[j]]
        BY <1>1, <1>2 DEF Fresh
    <2>4. \A k \in 1..Len(plan') : \E j \in 1..(i' - 1) :
              plan'[k].account = ordered'[j]
        BY <1>1, <1>2 DEF Fresh
    <2> QED
        BY <1>1, <1>2, <1>3, <2>1, <2>2, <2>3, <2>4, CountType DEF AtSplit
<1>9. AtCall' /\ AtSum' /\ AtDone'
    BY <1>1 DEF AtCall, AtSum, AtDone
<1> QED
    BY <1>5, <1>6, <1>7, <1>8, <1>9 DEF IInv

-----------------------------------------------------------------------------
(***************************************************************************)
(* One iteration of the splitting loop.  Not at the end of the file, the   *)
(* loop is at Before(i): what the passed drives had is all planned.        *)
(***************************************************************************)
LEMMA SplitKeeps == IInv /\ SplitOne => IInv'
<1> SUFFICES ASSUME IInv, SplitOne PROVE IInv'
    OBVIOUS
<1> DEFINE acct == ordered[i]
           n == MinOf(start[acct], size - offset)
<1>1. /\ pc = "split" /\ pc' = "split" /\ i <= N /\ i' = i + 1
      /\ offset < size
      /\ UNCHANGED <<size, ordered, sums, start, snapshot, files>>
    BY DEF SplitOne
<1>2. IF n <= 0 THEN UNCHANGED <<plan, free, planned, offset>>
      ELSE Assign(acct, offset, n) /\ offset' = offset + n
    BY DEF SplitOne
<1>3. /\ size > 0 /\ ordered \in Orders(start) /\ i \in 1..(N + 1)
      /\ Len(sums) = N /\ Before(N + 1) >= size
      /\ offset = MinOf(size, Before(i))
      /\ \A j \in i..N : free[ordered[j]] = start[ordered[j]]
      /\ \A k \in 1..Len(plan) : \E j \in 1..(i - 1) :
            plan[k].account = ordered[j]
    BY <1>1 DEF IInv, AtSplit
<1>4. /\ N \in Nat /\ i \in Nat /\ size \in Nat /\ offset \in Nat
      /\ sums \in Seq(Nat) /\ i \in 1..N
    BY <1>1, <1>3, CountType DEF IInv, TypeOK
<1>5. acct \in Accounts /\ start[acct] \in Nat /\ free[acct] = start[acct]
    BY <1>3, <1>4 DEF Orders, IInv, TypeOK
<1>6. n \in Nat /\ n <= start[acct]
    BY <1>1, <1>4, <1>5
<1>7. Before(i) \in Nat /\ Before(i + 1) = Before(i) + start[acct]
    <2>1. Before(i) \in Nat
        BY <1>3, <1>4, BeforeType
    <2>2. sums[i] = (IF i = 1 THEN 0 ELSE sums[i - 1]) + start[ordered[i]]
        BY <1>3, <1>4 DEF IInv, SumsAreSums
    <2> QED
        BY <2>1, <2>2, <1>4 DEF Before
<1>8. offset' = MinOf(size, Before(i + 1))
    <2>1. offset' = offset + n
        BY <1>2, <1>4, <1>6
    <2>2. offset = Before(i)
        BY <1>1, <1>3, <1>4, <1>7
    <2> QED
        BY <2>1, <2>2, <1>4, <1>5, <1>7
<1>9. \A k \in 1..Len(plan) : plan[k].account # acct
    <2>1. ASSUME NEW k \in 1..Len(plan) PROVE plan[k].account # acct
        <3>1. PICK j \in 1..(i - 1) : plan[k].account = ordered[j]
            BY <1>3
        <3>2. j \in 1..N /\ j < i
            BY <1>4, <3>1
        <3> QED
            BY <1>3, <1>4, <3>1, <3>2 DEF Orders
    <2> QED
        BY <2>1
<1>10. /\ plan' \in Seq(Chunk)
       /\ free' \in [Accounts -> Nat]
       /\ planned' \in [Accounts -> Nat]
       /\ offset' \in Nat
       /\ Balanced' /\ ChunksFitDrives' /\ Contiguous' /\ PlanEnd'
    <2>1. CASE n <= 0
        BY <1>1, <1>2, <2>1
        DEF IInv, TypeOK, Balanced, ChunksFitDrives, Contiguous, PlanEnd
    <2>2. CASE ~(n <= 0)
        <3>1. Assign(acct, offset, n) /\ offset' = offset + n
            BY <1>2, <2>2
        <3> QED
            BY <3>1, <1>1, <1>5, <1>6, <1>9, AssignKeeps DEF IInv
    <2> QED
        BY <2>1, <2>2
<1>11. TypeOK'
    BY <1>1, <1>4, <1>10 DEF IInv, TypeOK
<1>12. SumsAreSums'
    BY <1>1 DEF IInv, SumsAreSums
<1>13. AtSplit'
    <2>1. \A j \in (i + 1)..N : free'[ordered[j]] = start[ordered[j]]
        <3>1. ASSUME NEW j \in (i + 1)..N
              PROVE  free'[ordered[j]] = start[ordered[j]]
            <4>1. j \in i..N /\ j \in 1..N /\ i < j
                BY <1>4
            <4>2. ordered[j] # acct /\ ordered[j] \in Accounts
                BY <1>3, <1>4, <4>1 DEF Orders
            <4>3. free'[ordered[j]] = free[ordered[j]]
                BY <1>2, <4>2 DEF Assign, IInv, TypeOK
            <4> QED
                BY <1>3, <4>1, <4>3
        <3> QED
            BY <3>1
    <2>2. ASSUME NEW k \in 1..Len(plan')
          PROVE  \E j \in 1..i : plan'[k].account = ordered[j]
        <3>1. CASE plan' = plan
            <4>1. PICK j \in 1..(i - 1) : plan[k].account = ordered[j]
                BY <1>3, <3>1
            <4>2. j \in 1..i
                BY <1>4, <4>1
            <4> QED
                BY <3>1, <4>1, <4>2
        <3>2. CASE Assign(acct, offset, n)
            <4> DEFINE c == [account |-> acct, offset |-> offset, size |-> n]
            <4>1. plan \in Seq(Chunk) /\ c \in Chunk /\ plan' = Append(plan, c)
                BY <3>2, <1>4, <1>5, <1>6 DEF Assign, IInv, TypeOK, Chunk
            <4>2. CASE k \in 1..Len(plan)
                <5>1. PICK j \in 1..(i - 1) : plan[k].account = ordered[j]
                    BY <1>3, <4>2
                <5>2. j \in 1..i /\ plan'[k] = plan[k]
                    BY <1>4, <4>1, <4>2, <5>1
                <5> QED
                    BY <5>1, <5>2
            <4>3. CASE k = Len(plan) + 1
                <5>1. plan'[k] = c /\ i \in 1..i
                    BY <1>4, <4>1, <4>3
                <5> QED
                    BY <5>1
            <4> QED
                BY <4>1, <4>2, <4>3
        <3> QED
            BY <1>2, <3>1, <3>2
    <2>3. Before(N + 1)' = Before(N + 1) /\ Before(i)' = Before(i + 1)
        BY <1>1 DEF Before
    <2>4. (i')..N = (i + 1)..N /\ 1..(i' - 1) = 1..i /\ i' \in 1..(N + 1)
        BY <1>1, <1>4
    <2> QED
        BY <1>1, <1>3, <1>8, <2>1, <2>2, <2>3, <2>4 DEF AtSplit
<1>14. AtCall' /\ AtSum' /\ AtDone'
    BY <1>1 DEF AtCall, AtSum, AtDone
<1> QED
    BY <1>10, <1>11, <1>12, <1>13, <1>14 DEF IInv

\* The loop ends at the last byte, because the drives together had room.
LEMMA ReturnKeeps == IInv /\ Return => IInv'
<1> SUFFICES ASSUME IInv, Return PROVE IInv'
    OBVIOUS
<1>1. /\ pc = "split" /\ pc' = "done"
      /\ i > N \/ offset >= size
      /\ UNCHANGED <<free, size, ordered, sums, i, offset, plan, start,
                     snapshot, planned, files>>
    BY DEF Return
<1>2. /\ size > 0 /\ Len(sums) = N /\ Before(N + 1) >= size
      /\ i \in 1..(N + 1) /\ offset = MinOf(size, Before(i))
    BY <1>1 DEF IInv, AtSplit
<1>3. /\ size \in Nat /\ offset \in Nat /\ i \in Nat /\ N \in Nat
      /\ Before(i) \in Nat
    BY <1>2, CountType, BeforeType DEF IInv, TypeOK
<1>4. offset = size
    <2>1. CASE i > N
        <3>1. i = N + 1
            BY <2>1, <1>2, <1>3
        <3> QED
            BY <3>1, <1>2, <1>3
    <2>2. CASE offset >= size
        BY <2>2, <1>2, <1>3
    <2> QED
        BY <1>1, <2>1, <2>2
<1>5. plan # <<>>
    BY <1>2, <1>3, <1>4 DEF IInv, PlanEnd
<1>6. TypeOK'
    BY <1>1 DEF IInv, TypeOK
<1>7. Balanced' /\ ChunksFitDrives' /\ Contiguous' /\ PlanEnd'
    BY <1>1 DEF IInv, Balanced, ChunksFitDrives, Contiguous, PlanEnd
<1>8. SumsAreSums'
    BY <1>1 DEF IInv, SumsAreSums
<1>9. AtCall' /\ AtSum' /\ AtSplit' /\ AtDone'
    BY <1>1, <1>4, <1>5 DEF AtCall, AtSum, AtSplit, AtDone
<1> QED
    BY <1>6, <1>7, <1>8, <1>9 DEF IInv

\* The next file of the batch starts from an empty plan and the same ledger.
LEMMA NextFileKeeps == IInv /\ NextFile => IInv'
<1> SUFFICES ASSUME IInv, NextFile PROVE IInv'
    OBVIOUS
<1>1. /\ pc' = "call" /\ files' = files + 1 /\ size' \in Sizes
      /\ start' = free /\ ordered' = <<>> /\ sums' = <<>> /\ i' = 1
      /\ offset' = 0 /\ plan' = <<>>
      /\ UNCHANGED <<free, snapshot, planned>>
    BY DEF NextFile
<1>2. TypeOK'
    BY <1>1, SizesAssumption DEF IInv, TypeOK
<1>3. Balanced' /\ ChunksFitDrives' /\ Contiguous' /\ PlanEnd'
    BY <1>1 DEF IInv, Balanced, ChunksFitDrives, Contiguous, PlanEnd
<1>4. SumsAreSums'
    BY <1>1 DEF SumsAreSums
<1>5. AtCall' /\ AtSum' /\ AtSplit' /\ AtDone'
    BY <1>1 DEF AtCall, AtSum, AtSplit, AtDone, Fresh
<1> QED
    BY <1>2, <1>3, <1>4, <1>5 DEF IInv

LEMMA NextKeeps == IInv /\ [Next]_vars => IInv'
<1>1. IInv /\ UNCHANGED vars => IInv'
    BY DEF vars, IInv, TypeOK, Balanced, ChunksFitDrives,
           Contiguous, PlanEnd, SumsAreSums, AtCall, AtSum, AtSplit,
           AtDone, Fresh, Before
<1> QED
    BY <1>1, SingleKeeps, SortKeeps, SumKeeps, CheckKeeps, SplitKeeps,
       ReturnKeeps, NextFileKeeps DEF Next

-----------------------------------------------------------------------------
\* The strengthened invariant holds in every state of plan_chunks.
THEOREM Invariance == Spec => []IInv
<1>1. Init => IInv
    BY InitInv
<1>2. IInv /\ [Next]_vars => IInv'
    BY NextKeeps
<1> QED
    BY <1>1, <1>2, PTL DEF Spec

\* Types, and with them: no account's free space is ever driven below zero.
THEOREM PlanTypeOK == Spec => []TypeOK
<1>1. IInv => TypeOK
    BY DEF IInv
<1> QED
    BY <1>1, Invariance, PTL

\* A returned plan covers the file from its first to its last byte, in order.
THEOREM PlanCovers == Spec => []PlanCoversFile
<1>1. IInv => PlanCoversFile
    BY DEF IInv, PlanCoversFile, Contiguous, PlanEnd, AtDone
<1> QED
    BY <1>1, Invariance, PTL

\* No byte of a drive is promised twice, by two files of a batch or by two
\* chunks (upload_many's loop over plan_chunks): what is promised and what is
\* left are the snapshot, and nothing is left below zero.
THEOREM PlanWithinQuota == Spec => []NeverOvercommits
<1>1. IInv => NeverOvercommits
    <2> SUFFICES ASSUME IInv, NEW a \in Accounts
                 PROVE  planned[a] <= snapshot[a]
        BY DEF NeverOvercommits
    <2>1. planned[a] \in Nat /\ free[a] \in Nat /\ snapshot[a] \in Nat
        BY DEF IInv, TypeOK
    <2>2. planned[a] + free[a] = snapshot[a]
        BY DEF IInv, Balanced
    <2> QED
        BY <2>1, <2>2
<1> QED
    BY <1>1, Invariance, PTL

\* A plan puts a file on each drive at most once (distributor.plan_chunks), and
\* no more of it than the drive had free when the file was planned.
THEOREM PlanFitsDrives == Spec => []ChunksFitDrives
<1>1. IInv => ChunksFitDrives
    BY DEF IInv
<1> QED
    BY <1>1, Invariance, PTL

-----------------------------------------------------------------------------
(* What the drives have together.                                          *)

\* The first k accounts of the order.
Top(k) == {ordered[j] : j \in 1..k}

LEMMA CombinedIsSum ==
    ASSUME NEW S
    PROVE  Combined(S) = SumOver(start, S)
BY DEF Combined, MapThenSumSet, SumOver

LEMMA CombinedStays ==
    ASSUME UNCHANGED start, NEW S
    PROVE  Combined(S)' = Combined(S)
BY DEF Combined, MapThenSumSet, MapThenFoldSet

LEMMA Summable ==
    ASSUME TypeOK, NEW S \in SUBSET Accounts
    PROVE  /\ IsFiniteSet(S) /\ Cardinality(S) \in Nat
           /\ \A a \in Accounts : start[a] \in Nat /\ start[a] \in Int
           /\ SumOver(start, S) \in Nat
<1>1. IsFiniteSet(S) /\ IsFiniteSet(Accounts)
    BY AccountsAssumption, FS_Subset
<1>2. \A a \in Accounts : start[a] \in Nat
    BY DEF TypeOK
<1>3. SumOver(start, S) \in Nat
    BY <1>1, <1>2, SumOfPart
<1> QED
    BY <1>1, <1>2, <1>3, FS_CardinalityType

\* One account more in the order.
LEMMA TopGrows ==
    ASSUME TypeOK, ordered \in Orders(start), NEW k \in Nat, k < N
    PROVE  /\ Top(k) \in SUBSET Accounts /\ ordered[k + 1] \in Accounts
           /\ Top(k + 1) = Top(k) \cup {ordered[k + 1]}
           /\ ordered[k + 1] \notin Top(k)
           /\ \A a \in Accounts \ Top(k) : start[a] <= start[ordered[k + 1]]
<1>1. N \in Nat
    BY CountType
<1>2. /\ ordered \in [1..N -> Accounts]
      /\ \A a \in Accounts : \E j \in 1..N : ordered[j] = a
      /\ \A i1, j \in 1..N : i1 < j =>
            ordered[i1] # ordered[j] /\ start[ordered[i1]] >= start[ordered[j]]
    BY DEF Orders
<1>3. k + 1 \in 1..N /\ 1..k \subseteq 1..N
    BY <1>1
<1>4. Top(k + 1) = Top(k) \cup {ordered[k + 1]}
    <2>1. \A j \in 1..(k + 1) : j \in 1..k \/ j = k + 1
        OBVIOUS
    <2>2. \A j \in 1..k : j \in 1..(k + 1)
        OBVIOUS
    <2>3. k + 1 \in 1..(k + 1)
        OBVIOUS
    <2> QED
        BY <2>1, <2>2, <2>3 DEF Top
<1>5. \A j \in 1..k : ordered[j] # ordered[k + 1]
    BY <1>2, <1>3
<1>6. ASSUME NEW a \in Accounts \ Top(k)
      PROVE  start[a] <= start[ordered[k + 1]]
    <2>1. PICK j \in 1..N : ordered[j] = a
        BY <1>2
    <2>2. j \notin 1..k
        BY <2>1 DEF Top
    <2>3. j = k + 1 \/ k + 1 < j
        BY <1>1, <2>2
    <2>4. start[a] \in Nat
        BY DEF TypeOK
    <2> QED
        BY <1>2, <1>3, <2>1, <2>3, <2>4
<1> QED
    BY <1>2, <1>3, <1>4, <1>5, <1>6 DEF Top

\* The partial sums of the loop are the sums over the accounts it has passed.
LEMMA BeforeIsSum ==
    ASSUME TypeOK, SumsAreSums, ordered \in Orders(start), Len(sums) = N
    PROVE  \A k \in 0..N : Before(k + 1) = SumOver(start, Top(k))
<1> DEFINE D == {k \in 0..N : Before(k + 1) = SumOver(start, Top(k))}
<1>1. N \in Nat
    BY CountType
<1>2. 0 \in D
    <2>1. Top(0) = {} /\ Before(0 + 1) = 0
        BY DEF Top, Before
    <2> QED
        BY <1>1, <2>1, SumEmpty
<1>3. ASSUME NEW k \in Nat, k < N, k \in D
      PROVE  k + 1 \in D
    <2>1. /\ Top(k) \in SUBSET Accounts /\ ordered[k + 1] \in Accounts
          /\ Top(k + 1) = Top(k) \cup {ordered[k + 1]}
          /\ ordered[k + 1] \notin Top(k)
        BY <1>3, TopGrows
    <2> DEFINE T == Top(k)
               b == ordered[k + 1]
    <2>2. IsFiniteSet(T) /\ \A a \in T \cup {b} : start[a] \in Int
        BY <2>1, Summable
    <2> HIDE DEF T, b
    <2>3. SumOver(start, T \cup {b}) = SumOver(start, T) + start[b]
        BY <2>1, <2>2, SumAdds, ZenonT(60) DEF T, b
    <2> USE DEF T, b
    <2>4. k + 1 \in 1..Len(sums)
        BY <1>1, <1>3
    <2>5. sums[k + 1] = (IF k + 1 = 1 THEN 0 ELSE sums[(k + 1) - 1])
                        + start[ordered[k + 1]]
        BY <2>4 DEF SumsAreSums
    <2>6. Before((k + 1) + 1) = sums[k + 1]
        BY DEF Before
    <2>7. Before(k + 1) = IF k + 1 = 1 THEN 0 ELSE sums[(k + 1) - 1]
        BY DEF Before
    <2>8. Before(k + 1) = SumOver(start, T)
        BY <1>3
    <2>9. Before((k + 1) + 1) = SumOver(start, T) + start[b]
        BY <2>5, <2>6, <2>7, <2>8
    <2>10. Before((k + 1) + 1) = SumOver(start, Top(k + 1))
        BY <2>1, <2>3, <2>9
    <2> QED
        BY <1>1, <1>3, <2>10
<1> HIDE DEF D
<1>4. \A k \in 0..N : k \in D
    BY <1>1, <1>2, <1>3, UpTo
<1> QED
    BY <1>4 DEF D

LEMMA TopIsAll ==
    ASSUME ordered \in Orders(start)
    PROVE  Top(N) = Accounts
<1>1. /\ ordered \in [1..N -> Accounts]
      /\ \A a \in Accounts : \E k \in 1..N : ordered[k] = a
    BY DEF Orders
<1> QED
    BY <1>1 DEF Top

\* The sort by free space: no k accounts have more room than the first k.
LEMMA TopIsMost ==
    ASSUME TypeOK, ordered \in Orders(start)
    PROVE  \A k \in 0..N : \A S \in SUBSET Accounts :
               Cardinality(S) <= k => SumOver(start, S) <= SumOver(start, Top(k))
<1> DEFINE Most(k) == \A S \in SUBSET Accounts :
               Cardinality(S) <= k => SumOver(start, S) <= SumOver(start, Top(k))
           D == {k \in Nat : Cardinality(Top(k)) <= k /\ Most(k)}
<1>1. N \in Nat
    BY CountType
<1>2. 0 \in D
    <2>1. Top(0) = {} /\ Cardinality({}) = 0
        BY FS_EmptySet DEF Top
    <2>2. ASSUME NEW S \in SUBSET Accounts, Cardinality(S) <= 0
          PROVE  S = {}
        <3>1. IsFiniteSet(S) /\ Cardinality(S) \in Nat
            BY Summable
        <3> QED
            BY <2>2, <3>1, FS_EmptySet
    <2>3. SumOver(start, {}) <= SumOver(start, {})
        BY SumEmpty
    <2> QED
        BY <2>1, <2>2, <2>3
<1>3. ASSUME NEW k \in Nat, k < N, k \in D
      PROVE  k + 1 \in D
    <2> DEFINE b == ordered[k + 1]
    <2>1. /\ Top(k) \in SUBSET Accounts /\ b \in Accounts
          /\ Top(k + 1) = Top(k) \cup {b} /\ b \notin Top(k)
          /\ \A a \in Accounts \ Top(k) : start[a] <= start[b]
        BY <1>3, TopGrows
    <2>2. Cardinality(Top(k)) <= k /\ Most(k)
        BY <1>3
    <2> HIDE DEF b, D
    <2>3. /\ IsFiniteSet(Top(k)) /\ Cardinality(Top(k)) \in Nat
          /\ \A a \in Accounts : start[a] \in Nat /\ start[a] \in Int
          /\ SumOver(start, Top(k)) \in Nat
        BY <2>1, Summable
    <2>4. SumOver(start, Top(k + 1)) = SumOver(start, Top(k)) + start[b]
        <3> DEFINE T == Top(k)
        <3>1. /\ IsFiniteSet(T) /\ b \notin T
              /\ \A a \in T \cup {b} : start[a] \in Int
            BY <2>1, <2>3
        <3> HIDE DEF T
        <3>2. SumOver(start, T \cup {b}) = SumOver(start, T) + start[b]
            BY <3>1, SumAdds
        <3> QED
            BY <2>1, <3>2 DEF T
    <2>5. Cardinality(Top(k + 1)) <= k + 1
        <3>1. Cardinality(Top(k) \cup {b}) = Cardinality(Top(k)) + 1
            BY <2>1, <2>3, FS_AddElement
        <3> QED
            BY <2>1, <2>2, <2>3, <3>1
    <2>6. ASSUME NEW S \in SUBSET Accounts, Cardinality(S) <= k + 1
          PROVE  SumOver(start, S) <= SumOver(start, Top(k + 1))
        <3>1. /\ IsFiniteSet(S) /\ Cardinality(S) \in Nat
              /\ SumOver(start, S) \in Nat
            BY Summable
        <3>2. start[b] \in Nat
            BY <2>1, <2>3
        <3>3. CASE S \subseteq Top(k)
            <4>1. Cardinality(S) <= Cardinality(Top(k))
                BY <2>3, <3>3, FS_Subset
            <4>2. Cardinality(S) <= k
                BY <2>2, <2>3, <3>1, <4>1
            <4>3. SumOver(start, S) <= SumOver(start, Top(k))
                BY <2>2, <4>2
            <4> QED
                BY <2>3, <2>4, <3>1, <3>2, <4>3
        <3>4. CASE ~(S \subseteq Top(k))
            <4>1. PICK y \in S : y \notin Top(k)
                BY <3>4
            <4> DEFINE R == S \ {y}
            <4>2. SumOver(start, S) = start[y] + SumOver(start, R)
                BY <2>3, <3>1, SumRemoves
            <4>3. Cardinality(R) = Cardinality(S) - 1 /\ R \in SUBSET Accounts
                BY <3>1, FS_RemoveElement
            <4> HIDE DEF R
            <4>4. SumOver(start, R) <= SumOver(start, Top(k))
                BY <2>2, <2>6, <3>1, <4>3
            <4>5. SumOver(start, R) \in Nat
                BY <4>3, Summable
            <4>6. start[y] \in Nat /\ start[y] <= start[b]
                BY <2>1, <2>3, <4>1
            <4> QED
                BY <2>3, <2>4, <3>2, <4>2, <4>4, <4>5, <4>6
        <3> QED
            BY <3>3, <3>4
    <2> QED
        BY <2>5, <2>6 DEF D
<1>4. \A k \in 0..N : k \in D
    <2> HIDE DEF D
    <2> QED
        BY <1>1, <1>2, <1>3, UpTo
<1> QED
    BY <1>4

-----------------------------------------------------------------------------
(* What a plan, or a refusal, says of all the drives.                      *)

\* The splitting loop has put a chunk on every drive it has passed, and needed
\* every one of them.
SplitExact ==
    pc = "split" =>
        /\ Len(plan) = i - 1
        /\ i > 1 => Before(i - 1) < size

JInv == RefusedIffTooBig /\ FewestDrives /\ SplitExact

\* A step to a state that is neither a refusal nor the end of a split.
LEMMA SaysNothing ==
    ASSUME pc' \notin {"done", "error", "split"}
    PROVE  JInv'
BY DEF JInv, RefusedIffTooBig, FewestDrives, SplitExact

LEMMA SingleSays ==
    ASSUME IInv, PlanSingle
    PROVE  JInv'
<1>1. PICK best \in Roomiest : Assign(best, 0, size)
    BY DEF PlanSingle
<1>2. /\ pc = "call" /\ pc' = "done" /\ UNCHANGED <<start, size>>
    BY DEF PlanSingle
<1>3. free = start /\ plan = <<>> /\ TypeOK /\ size \in Nat
    BY <1>2 DEF IInv, AtCall, Fresh, TypeOK
<1>4. best \in Accounts /\ start[best] >= size
    BY <1>1, <1>3 DEF Roomiest, SingleFit
<1>5. Combined(Accounts) >= size
    <2>1. SumOver(start, {best}) <= SumOver(start, Accounts)
        BY <1>3, <1>4, Summable, SumOfPart
    <2>2. SumOver(start, {best}) = start[best]
        <3>1. start[best] \in Int
            BY <1>3, <1>4, Summable
        <3>2. SumOver(start, {} \cup {best}) = SumOver(start, {}) + start[best]
            BY <3>1, FS_EmptySet, SumAdds
        <3>3. {} \cup {best} = {best}
            OBVIOUS
        <3> QED
            BY <3>1, <3>2, <3>3, SumEmpty
    <2>3. SumOver(start, Accounts) \in Nat /\ start[best] \in Nat
        BY <1>3, <1>4, Summable
    <2> QED
        BY <1>3, <1>4, <2>1, <2>2, <2>3, CombinedIsSum
<1>6. Len(plan') = 1
    BY <1>1, <1>3 DEF Assign
<1>7. ASSUME NEW S \in SUBSET Accounts, Cardinality(S) < 1
      PROVE  Combined(S) < size \/ size = 0
    <2>1. IsFiniteSet(S) /\ Cardinality(S) \in Nat
        BY <1>3, Summable
    <2>2. S = {}
        BY <1>7, <2>1, FS_EmptySet
    <2>3. Combined(S) = 0
        BY <2>2, CombinedIsSum, SumEmpty
    <2> QED
        BY <1>3, <2>3
<1>8. RefusedIffTooBig'
    BY <1>2, <1>5, CombinedStays DEF RefusedIffTooBig
<1>9. FewestDrives'
    <2>1. \A S \in SUBSET Accounts :
             Cardinality(S) < Len(plan') => Combined(S)' < size' \/ size' = 0
        BY <1>2, <1>6, <1>7, CombinedStays
    <2> QED
        BY <2>1 DEF FewestDrives
<1> QED
    BY <1>2, <1>8, <1>9 DEF JInv, SplitExact

\* The check of the total, which is what all drives have together.
LEMMA CheckSays ==
    ASSUME IInv, CheckTotal
    PROVE  JInv'
<1>1. /\ pc = "sum" /\ i > N /\ i' = 1
      /\ pc' = IF Before(N + 1) < size THEN "error" ELSE "split"
      /\ UNCHANGED <<size, start, plan>>
    BY DEF CheckTotal
<1>2. /\ ordered \in Orders(start) /\ i \in 1..(N + 1) /\ Len(sums) = i - 1
      /\ plan = <<>> /\ TypeOK /\ SumsAreSums
    BY <1>1 DEF IInv, AtSum, Fresh
<1>3. N \in Nat /\ Len(sums) = N
    BY <1>1, <1>2, CountType
<1>4. Before(N + 1) = Combined(Accounts)
    BY <1>2, <1>3, BeforeIsSum, TopIsAll, CombinedIsSum
<1>5. RefusedIffTooBig'
    BY <1>1, <1>4, CombinedStays DEF RefusedIffTooBig
<1>6. SplitExact'
    BY <1>1, <1>2 DEF SplitExact
<1> QED
    BY <1>1, <1>5, <1>6 DEF JInv, FewestDrives

\* The loop stops at the first drive that is not needed; there is one chunk for
\* each drive it has passed, since those with no room at all come last.
LEMMA SplitSays ==
    ASSUME IInv, JInv, SplitOne
    PROVE  JInv'
<1> DEFINE acct == ordered[i]
           n == MinOf(start[acct], size - offset)
<1>1. /\ pc = "split" /\ pc' = "split" /\ i <= N /\ i' = i + 1
      /\ offset < size
      /\ UNCHANGED <<size, ordered, sums, start>>
    BY DEF SplitOne
<1>2. IF n <= 0 THEN UNCHANGED <<plan, free, planned, offset>>
      ELSE Assign(acct, offset, n) /\ offset' = offset + n
    BY DEF SplitOne
<1>3. /\ TypeOK /\ SumsAreSums /\ ordered \in Orders(start) /\ i \in 1..(N + 1)
      /\ Len(sums) = N /\ Before(N + 1) >= size /\ offset = MinOf(size, Before(i))
    BY <1>1 DEF IInv, AtSplit
<1>4. /\ N \in Nat /\ i \in 1..N /\ size \in Nat /\ offset \in Nat
      /\ sums \in Seq(Nat) /\ plan \in Seq(Chunk)
    BY <1>1, <1>3, CountType DEF TypeOK
<1>5. Before(i) \in Nat /\ Before(i) < size /\ offset = Before(i)
    <2>1. Before(i) \in Nat
        BY <1>3, <1>4, BeforeType
    <2> QED
        BY <1>1, <1>3, <1>4, <2>1
<1>6. acct \in Accounts /\ start[acct] \in Nat
    BY <1>3, <1>4 DEF Orders, TypeOK
<1>7. start[acct] > 0
    <2> SUFFICES ASSUME start[acct] = 0
                 PROVE  FALSE
        BY <1>6
    <2> DEFINE k == i - 1
    <2>1. k \in Nat /\ k < N /\ k + 1 = i /\ k \in 0..N
        BY <1>4
    <2> HIDE DEF k
    <2>2. /\ Top(k) \in SUBSET Accounts
          /\ \A a \in Accounts \ Top(k) : start[a] <= start[ordered[k + 1]]
        BY <1>3, <2>1, TopGrows
    <2>3. \A a \in Accounts : start[a] \in Nat /\ start[a] \in Int
        BY <1>3, Summable
    <2>4. \A a \in Accounts \ Top(k) : start[a] = 0
        BY <2>1, <2>2, <2>3
    <2>5. SumOver(start, Accounts) = SumOver(start, Top(k))
        BY <2>2, <2>3, <2>4, AccountsAssumption, SumOfRest
    <2>6. Before(k + 1) = SumOver(start, Top(k)) /\ Before(N + 1) = SumOver(start, Top(N))
        BY <1>3, <1>4, <2>1, BeforeIsSum
    <2>7. Before(N + 1) = Before(i)
        BY <1>3, <2>1, <2>5, <2>6, TopIsAll
    <2> QED
        BY <1>3, <1>4, <1>5, <2>7
<1>8. Assign(acct, offset, n)
    BY <1>2, <1>4, <1>5, <1>6, <1>7, <1>1
<1>9. Len(plan') = Len(plan) + 1
    BY <1>4, <1>8 DEF Assign
<1>10. Len(plan) = i - 1
    BY <1>1 DEF JInv, SplitExact
<1>11. SplitExact'
    <2>1. (IF i = 1 THEN 0 ELSE sums[i - 1]) < size
        BY <1>5 DEF Before
    <2>2. i' - 1 = i /\ sums' = sums /\ size' = size
        BY <1>1, <1>4
    <2>3. Before(i - 1)' < size'
        BY <2>1, <2>2 DEF Before
    <2> QED
        BY <1>4, <1>9, <1>10, <2>2, <2>3 DEF SplitExact
<1> QED
    BY <1>1, <1>11 DEF JInv, RefusedIffTooBig, FewestDrives

LEMMA ReturnSays ==
    ASSUME IInv, JInv, Return
    PROVE  JInv'
<1>1. /\ pc = "split" /\ pc' = "done"
      /\ UNCHANGED <<size, ordered, sums, i, start, plan>>
    BY DEF Return
<1>2. /\ TypeOK /\ SumsAreSums /\ ordered \in Orders(start) /\ i \in 1..(N + 1)
      /\ Len(sums) = N /\ Before(N + 1) >= size
    BY <1>1 DEF IInv, AtSplit
<1>3. N \in Nat /\ size \in Nat /\ Len(plan) = i - 1 /\ (i > 1 => Before(i - 1) < size)
    BY <1>1, <1>2, CountType DEF TypeOK, JInv, SplitExact
<1>4. Before(N + 1) = Combined(Accounts)
    BY <1>2, <1>3, BeforeIsSum, TopIsAll, CombinedIsSum
<1>5. RefusedIffTooBig'
    BY <1>1, <1>2, <1>4, CombinedStays DEF RefusedIffTooBig
<1>6. ASSUME NEW S \in SUBSET Accounts, Cardinality(S) < i - 1
      PROVE  Combined(S) < size
    <2> DEFINE k == i - 2
    <2>1. Cardinality(S) \in Nat /\ SumOver(start, S) \in Nat
        BY <1>2, Summable
    <2>2. /\ k \in 0..N /\ k + 1 = i - 1 /\ i > 1 /\ k + 1 \in 1..(Len(sums) + 1)
          /\ Cardinality(S) <= k
        BY <1>2, <1>3, <1>6, <2>1
    <2> HIDE DEF k
    <2>3. SumOver(start, S) <= SumOver(start, Top(k))
        BY <1>2, <2>2, TopIsMost
    <2>4. Before(k + 1) = SumOver(start, Top(k)) /\ Before(k + 1) < size
        BY <1>2, <1>3, <2>2, BeforeIsSum
    <2>5. Before(k + 1) \in Nat
        BY <1>2, <2>2, BeforeType DEF TypeOK
    <2> QED
        BY <1>3, <2>1, <2>3, <2>4, <2>5, CombinedIsSum
<1>7. FewestDrives'
    <2>1. \A S \in SUBSET Accounts :
             Cardinality(S) < Len(plan') => Combined(S)' < size' \/ size' = 0
        BY <1>1, <1>3, <1>6, CombinedStays
    <2> QED
        BY <2>1 DEF FewestDrives
<1> QED
    BY <1>1, <1>5, <1>7 DEF JInv, SplitExact

\* Every step keeps what is said of all the drives together.
LEMMA NextSays ==
    ASSUME IInv, JInv, [Next]_vars
    PROVE  JInv'
<1>1. CASE UNCHANGED vars
    <2>1. UNCHANGED <<pc, start, size, plan, i, sums>>
        BY <1>1 DEF vars
    <2>2. RefusedIffTooBig'
        BY <2>1, CombinedStays DEF JInv, RefusedIffTooBig
    <2>3. FewestDrives'
        <3>1. pc = "done" => \A S \in SUBSET Accounts :
                 Cardinality(S) < Len(plan) => Combined(S)' < size \/ size = 0
            BY <2>1, CombinedStays DEF JInv, FewestDrives
        <3> QED
            BY <2>1, <3>1 DEF FewestDrives
    <2>4. SplitExact'
        BY <2>1 DEF JInv, SplitExact, Before
    <2> QED
        BY <2>2, <2>3, <2>4 DEF JInv
<1>2. CASE Sort \/ SumOne \/ NextFile
    <2>1. pc' \notin {"done", "error", "split"}
        BY <1>2 DEF Sort, SumOne, NextFile
    <2> QED
        BY <2>1, SaysNothing
<1> QED
    BY <1>1, <1>2, SingleSays, CheckSays, SplitSays, ReturnSays DEF Next

LEMMA PlanInvariance == Spec => [](IInv /\ JInv)
<1>1. Init => IInv /\ JInv
    BY InitInv DEF Init, JInv, RefusedIffTooBig, FewestDrives, SplitExact
<1>2. IInv /\ JInv /\ [Next]_vars => (IInv /\ JInv)'
    <2>1. IInv /\ [Next]_vars => IInv'
        BY NextKeeps
    <2> QED
        BY <2>1, NextSays
<1> QED
    BY <1>1, <1>2, PTL DEF Spec

\* For any drives and any sizes, upload_many raises "not enough space" exactly
\* when the file is larger than all the free space together.
THEOREM RefusedExactly == Spec => []RefusedIffTooBig
<1>1. JInv => RefusedIffTooBig
    BY DEF JInv
<1> QED
    BY <1>1, PlanInvariance, PTL

\* The sort before the splitting loop is what it is for: no plan for the file
\* could do with fewer drives than the one plan_chunks returns.
THEOREM PlanUsesFewest == Spec => []FewestDrives
<1>1. JInv => FewestDrives
    BY DEF JInv
<1> QED
    BY <1>1, PlanInvariance, PTL
=============================================================================
