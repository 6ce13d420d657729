----------------------------- MODULE LogProofs -----------------------------
(***************************************************************************)
(* The log never overflows and never panics, for any number of threads,    *)
(* blocks, reservations and log size.  The argument counts blocks: Room    *)
(* says that what the log holds and what the open calls may still add fits *)
(* into LOGSIZE.  begin_op() adds a whole reservation only if it fits;     *)
(* log_write() takes one block of the caller's reservation for the block   *)
(* it appends.                                                             *)
(***************************************************************************)
EXTENDS Log, FiniteSetTheorems, TLAPS

USE LogConstants DEF LogConstants

\* Reference counts stay in range, also where they wrap around.
LEMMA RemainderRange ==
  ASSUME NEW x \in Int
  PROVE  x % RefMod \in 0..RefMod - 1
  OBVIOUS

\* bpin() and bunpin() leave a reference count in range.
LEMMA RefcntWraps ==
  ASSUME TypeOK, NEW b \in Home
  PROVE  /\ (refcnt[b] + 1) % RefMod \in 0..RefMod - 1
         /\ (refcnt[b] - 1) % RefMod \in 0..RefMod - 1
<1>1. refcnt[b] + 1 \in Int /\ refcnt[b] - 1 \in Int
  BY DEF TypeOK
<1>2. (refcnt[b] + 1) % RefMod \in 0..RefMod - 1
  BY ONLY <1>1, RemainderRange
<1>3. (refcnt[b] - 1) % RefMod \in 0..RefMod - 1
  BY ONLY <1>1, RemainderRange
<1> QED BY <1>2, <1>3

\* The open calls, and what they have reserved, are finite sets.
LEMMA ReservedFinite ==
  /\ IsFiniteSet(Active) /\ Cardinality(Active) \in Nat
  /\ IsFiniteSet(Reserved) /\ Cardinality(Reserved) \in Nat
<1>1. IsFiniteSet(Active)
  BY FS_Subset DEF Active
<1>2. IsFiniteSet(1..MAXOPBLOCKS)
  BY FS_Interval
<1>3. IsFiniteSet(Active \X (1..MAXOPBLOCKS))
  BY <1>1, <1>2, FS_Product
<1>4. IsFiniteSet(Reserved)
  BY <1>3, FS_Subset DEF Reserved
<1> QED BY <1>1, <1>4, FS_CardinalityType

\* mkfs leaves an empty log.
LEMMA InitLogInv == Init => LogInv
<1> SUFFICES ASSUME Init PROVE LogInv
  OBVIOUS
<1>0. /\ lh = <<>> /\ lh \in Seq(Home) /\ Len(lh) = 0
      /\ dhead = <<>> /\ dhead \in Seq(Home) /\ Len(dhead) = 0
  BY DEF Init
<1>1. TypeOK
  BY <1>0 DEF Init, TypeOK, PCs
<1>2. Active = {}
  BY DEF Init, Active, InOp
<1>3. Cardinality(Active) = 0
  BY <1>2, FS_EmptySet
<1>4. Threads
  BY <1>2, <1>3 DEF Init, Threads, CommitPCs
<1>5. Loops
  BY DEF Init, Loops
<1>6. Cardinality(Reserved) = 0
  BY <1>2, FS_EmptySet DEF Reserved
<1>7. Room
  BY <1>0, <1>2, <1>6 DEF Init, Room, BlocksOf, InOp
<1>8. Headroom => NoPanic /\ LogFits /\ Len(dhead) <= NLog - 1
  BY DEF Init, Headroom, NoPanic, LogFits
<1> QED BY <1>1, <1>4, <1>5, <1>7, <1>8 DEF LogInv

\* Appending to log.lh.
LEMMA AppendBlock ==
  ASSUME NEW s \in Seq(Home), NEW b \in Home
  PROVE  /\ Append(s, b) \in Seq(Home)
         /\ Len(Append(s, b)) = Len(s) + 1
         /\ BlocksOf(s) \cup {b} \subseteq BlocksOf(Append(s, b))
<1>1. Append(s, b) \in Seq(Home) /\ Len(Append(s, b)) = Len(s) + 1
  OBVIOUS
<1>2. \A i \in 1..Len(s) : Append(s, b)[i] = s[i]
  OBVIOUS
<1>3. Append(s, b)[Len(s) + 1] = b
  OBVIOUS
<1> QED BY <1>1, <1>2, <1>3 DEF BlocksOf

\* An open call is counted in log.outstanding.
LEMMA OpenCall ==
  ASSUME Threads, NEW p \in Active
  PROVE  outstanding \in Nat /\ outstanding >= 1
  BY ReservedFinite, FS_EmptySet DEF Threads

\* Inside the loops of commit() and of recovery, the entry of log.lh and the slot
\* that belongs to it exist.
LEMMA BlockInLog ==
  ASSUME TypeOK, Room, tail < Len(lh)
  PROVE  /\ Block \in Home /\ NextTail \in Nat
         /\ tail + 1 \in 1..LOGSIZE /\ dlog[tail + 1] \in Data
<1>1. Len(lh) <= LOGSIZE
  BY ReservedFinite DEF TypeOK, Room
<1> QED BY <1>1 DEF TypeOK, Block, NextTail

\* Every step keeps the types: the loops of commit() and of recovery index log.lh
\* and the log's slots within their bounds.
LEMMA TypeStep == LogInv /\ [Next]_vars => TypeOK'
<1> SUFFICES ASSUME LogInv, [Next]_vars PROVE TypeOK'
  OBVIOUS
<1>t. TypeOK /\ Threads /\ Loops /\ Room
  BY DEF LogInv
<1>1. ASSUME NEW p \in Procs, begin_op(p) PROVE TypeOK'
  <2>1. pc' \in [Procs -> PCs]
    BY <1>1, <1>t, Zenon DEF begin_op, TypeOK, PCs, InOp
  <2>2. wset' \in [Procs -> SUBSET Home]
    BY <1>1, <1>t, Zenon DEF begin_op, TypeOK
  <2>3. outstanding' \in Nat
    BY <1>1, <1>t DEF begin_op, TypeOK
  <2> QED BY <1>1, <1>t, <2>1, <2>2, <2>3 DEF begin_op, TypeOK, onDisk, bufs
<1>2. ASSUME NEW p \in Procs, kill(p) PROVE TypeOK'
  BY <1>2, <1>t DEF kill, TypeOK, PCs, InOp, onDisk, bufs
<1>3. ASSUME NEW p \in Procs, end_op(p) PROVE TypeOK'
  <2>1. pc' \in [Procs -> PCs]
    BY <1>3, <1>t, Zenon DEF end_op, TypeOK, PCs, InOp, Awake
  <2>2. outstanding' \in Nat
    BY <1>3, <1>t, OpenCall DEF end_op, TypeOK, InOp, Active
  <2> QED BY <1>3, <1>t, <2>1, <2>2 DEF end_op, TypeOK, onDisk, bufs
<1>4. ASSUME NEW p \in Procs, NEW b \in Home, bget(p, b) PROVE TypeOK'
  <2>1. pc' \in [Procs -> PCs]
    BY <1>4, <1>t DEF bget, TypeOK, PCs, InOp
  <2>2. (refcnt[b] + 1) % RefMod \in 0..RefMod - 1
    BY <1>t, RefcntWraps
  <2> QED BY <1>4, <1>t, <2>1, <2>2 DEF bget, TypeOK, onDisk
<1>5. ASSUME NEW p \in Procs, NEW d \in Data, log_write_check(p, d) PROVE TypeOK'
  BY <1>5, <1>t DEF log_write_check, TypeOK, PCs, InOp, onDisk, bufs, Threads
<1>6. ASSUME NEW p \in Procs, log_write(p) PROVE TypeOK'
  <2>1. hold[p] \in Home
    BY <1>6, <1>t DEF log_write, Threads
  <2>2. (refcnt[hold[p]] + 1) % RefMod \in 0..RefMod - 1
    BY <1>t, <2>1, RefcntWraps
  <2>3. refcnt' \in [Home -> 0..RefMod - 1]
    BY <1>6, <1>t, <2>1, <2>2, Zenon DEF log_write, TypeOK
  <2>5. lh' \in Seq(Home)
    BY <1>6, <1>t, <2>1, AppendBlock, Zenon DEF log_write, TypeOK
  <2>4. pc' \in [Procs -> PCs] /\ wset' \in [Procs -> SUBSET Home]
    BY <1>6, <1>t, <2>1 DEF log_write, TypeOK, PCs, InOp
  <2> QED BY <1>6, <1>t, <2>3, <2>4, <2>5 DEF log_write, TypeOK, onDisk
<1>7. ASSUME NEW p \in Procs, brelse(p) PROVE TypeOK'
  <2>1. hold[p] \in Home
    BY <1>7, <1>t DEF brelse, Threads
  <2>2. (refcnt[hold[p]] - 1) % RefMod \in 0..RefMod - 1
    BY <1>t, <2>1, RefcntWraps
  <2>3. pc' \in [Procs -> PCs]
    BY <1>7, <1>t DEF brelse, TypeOK, PCs, InOp
  <2> QED BY <1>7, <1>t, <2>1, <2>2, <2>3 DEF brelse, TypeOK, onDisk
<1>8. ASSUME NEW p \in Procs, write_log(p) PROVE TypeOK'
  BY <1>8, <1>t, BlockInLog, Zenon DEF write_log, TypeOK, PCs, InOp, Contents, Loops
<1>9. ASSUME NEW p \in Procs, write_head(p) PROVE TypeOK'
  BY <1>9, <1>t DEF write_head, TypeOK, PCs, InOp, onDisk, bufs
<1>10. ASSUME NEW p \in Procs, install_trans(p) PROVE TypeOK'
  <2>1. Block \in Home /\ NextTail \in Nat /\ dlog[tail + 1] \in Data
    BY <1>10, <1>t, BlockInLog DEF install_trans, Loops
  <2>2. (refcnt[Block] - 1) % RefMod \in 0..RefMod - 1
    BY <1>t, <2>1, RefcntWraps
  <2> QED BY <1>10, <1>t, <2>1, <2>2 DEF install_trans, InstallBlock, TypeOK, PCs
<1>11. ASSUME NEW p \in Procs, clear_head(p) PROVE TypeOK'
  BY <1>11, <1>t DEF clear_head, TypeOK, PCs, InOp, onDisk, bufs
<1>12. ASSUME NEW p \in Procs, end_commit(p) PROVE TypeOK'
  BY <1>12, <1>t DEF end_commit, TypeOK, PCs, InOp, onDisk, bufs, Awake
<1>13. ASSUME NEW b \in Home, recycle(b) PROVE TypeOK'
  BY <1>13, <1>t DEF recycle, TypeOK, PCs, InOp, onDisk, bufs
<1>14. CASE crash
  BY <1>14, <1>t DEF crash, TypeOK, PCs, InOp, onDisk, bufs
<1>15. CASE read_head
  BY <1>15, <1>t DEF read_head, TypeOK, PCs, InOp, onDisk, bufs
<1>16. CASE recover_install
  <2>1. Block \in Home /\ NextTail \in Nat /\ dlog[tail + 1] \in Data
    BY <1>16, <1>t, BlockInLog DEF recover_install, Loops
  <2>2. (refcnt[Block] - 1) % RefMod \in 0..RefMod - 1
    BY <1>t, <2>1, RefcntWraps
  <2> QED BY <1>16, <1>t, <2>1, <2>2 DEF recover_install, InstallBlock, TypeOK, PCs
<1>17. CASE recover_clear
  BY <1>17, <1>t DEF recover_clear, TypeOK, PCs, InOp, onDisk, bufs
<1>18. CASE UNCHANGED vars
  BY <1>18, <1>t DEF vars, TypeOK, PCs, InOp
<1>19. ASSUME NEW p \in Procs, bread(p) PROVE TypeOK'
  <2>1. pc' \in [Procs -> PCs]
    BY <1>19, <1>t DEF bread, TypeOK, PCs, InOp
  <2>2. hold[p] \in Home
    BY <1>19, <1>t DEF bread, Threads
  <2>3. Contents(hold[p]) \in Data \cup {NoData}
    BY <1>t, <2>2 DEF TypeOK, Contents
  <2> QED BY <1>19, <1>t, <2>1, <2>3 DEF bread, TypeOK, onDisk
<1> QED
  BY <1>1, <1>2, <1>3, <1>4, <1>5, <1>6, <1>7, <1>8, <1>9,
         <1>10, <1>11, <1>12, <1>13, <1>14, <1>15, <1>16, <1>17, <1>18, <1>19
  DEF Next, committer, recovery

\* Which calls are open changes only in begin_op(), end_op() and a crash.
Quiet ==
  \/ \E p \in Procs, b \in Home : bget(p, b)
  \/ \E p \in Procs, d \in Data : log_write_check(p, d)
  \/ \E p \in Procs : kill(p) \/ bread(p) \/ log_write(p) \/ brelse(p) \/ committer(p)
  \/ \E b \in Home : recycle(b)
  \/ recovery

\* Such a step opens no call and closes none.
LEMMA SameCalls == TypeOK /\ (Quiet \/ UNCHANGED vars) => Active' = Active
<1> SUFFICES ASSUME TypeOK, Quiet \/ UNCHANGED vars PROVE Active' = Active
  OBVIOUS
<1>1. ASSUME NEW p \in Procs, kill(p) PROVE Active' = Active
  BY <1>1 DEF kill, TypeOK, Active, InOp
<1>2. ASSUME NEW p \in Procs, NEW b \in Home, bget(p, b) PROVE Active' = Active
  BY <1>2 DEF bget, TypeOK, Active, InOp
<1>3. ASSUME NEW p \in Procs, NEW d \in Data, log_write_check(p, d) PROVE Active' = Active
  BY <1>3 DEF log_write_check, TypeOK, Active, InOp
<1>4. ASSUME NEW p \in Procs, log_write(p) PROVE Active' = Active
  BY <1>4 DEF log_write, TypeOK, Active, InOp
<1>5. ASSUME NEW p \in Procs, brelse(p) PROVE Active' = Active
  BY <1>5 DEF brelse, TypeOK, Active, InOp
<1>6. ASSUME NEW p \in Procs, write_log(p) PROVE Active' = Active
  BY <1>6 DEF write_log, TypeOK, Active, InOp
<1>7. ASSUME NEW p \in Procs, write_head(p) PROVE Active' = Active
  BY <1>7 DEF write_head, TypeOK, Active, InOp
<1>8. ASSUME NEW p \in Procs, install_trans(p) PROVE Active' = Active
  BY <1>8 DEF install_trans, TypeOK, Active, InOp
<1>9. ASSUME NEW p \in Procs, clear_head(p) PROVE Active' = Active
  BY <1>9 DEF clear_head, TypeOK, Active, InOp
<1>10. ASSUME NEW p \in Procs, end_commit(p) PROVE Active' = Active
  BY <1>10 DEF end_commit, TypeOK, Active, InOp, Awake
<1>11. ASSUME NEW b \in Home, recycle(b) PROVE Active' = Active
  BY <1>11 DEF recycle, TypeOK, Active, InOp
<1>12. CASE read_head
  BY <1>12 DEF read_head, TypeOK, Active, InOp
<1>13. CASE recover_install
  BY <1>13 DEF recover_install, TypeOK, Active, InOp
<1>14. CASE recover_clear
  BY <1>14 DEF recover_clear, TypeOK, Active, InOp
<1>15. CASE UNCHANGED vars
  BY <1>15 DEF vars, Active
<1>16. ASSUME NEW p \in Procs, bread(p) PROVE Active' = Active
  BY <1>16 DEF bread, TypeOK, Active, InOp
<1> QED
  BY <1>1, <1>2, <1>3, <1>4, <1>5, <1>6, <1>7, <1>8, <1>9,
     <1>10, <1>11, <1>12, <1>13, <1>14, <1>15, <1>16
  DEF Quiet, committer, recovery

\* The count of open calls stays exact, and commit() stays alone.
LEMMA ThreadsStep == LogInv /\ [Next]_vars => Threads'
<1> SUFFICES ASSUME LogInv, [Next]_vars PROVE Threads'
  OBVIOUS
<1>t. TypeOK /\ Threads
  BY DEF LogInv
<1>1. ASSUME NEW p \in Procs, begin_op(p) PROVE Threads'
  <2>1. CASE committing = 1 \/ LogFull
    <3>1. Active' = Active
      BY <1>1, <1>t, <2>1 DEF begin_op, TypeOK, Active, InOp
    <3>2. pc' = [pc EXCEPT ![p] = "sleep"] /\ UNCHANGED <<outstanding, committing, boot, hold>>
      BY <1>1, <2>1 DEF begin_op
    <3>3. /\ \A q \in Procs : pc'[q] \in CommitPCs => pc[q] \in CommitPCs
          /\ \A q \in Procs : pc'[q] \in {"read_wait", "op_wait", "reading", "locked",
                                         "log_write", "logged"} => hold[q] \in Home
      BY <1>t, <3>2, Zenon DEF Threads, TypeOK, CommitPCs
    <3> QED BY <1>1, <1>t, <3>1, <3>2, <3>3, Zenon DEF begin_op, Threads
  <2>2. CASE ~(committing = 1 \/ LogFull)
    <3>1. Active' = Active \cup {p} /\ p \notin Active
      BY <1>1, <1>t, <2>2 DEF begin_op, TypeOK, Active, InOp
    <3>2. outstanding' = Cardinality(Active')
      BY <1>1, <1>t, <2>2, <3>1, ReservedFinite, FS_AddElement, Zenon DEF begin_op, Threads
    <3> QED BY <1>1, <1>t, <2>2, <3>1, <3>2 DEF begin_op, Threads, TypeOK, CommitPCs
  <2> QED BY <2>1, <2>2
<1>2. ASSUME NEW p \in Procs, kill(p) PROVE Threads'
  <2>1. Active' = Active
    BY <1>2, <1>t, SameCalls DEF Quiet
  <2> QED BY <1>2, <1>t, <2>1 DEF kill, Threads, TypeOK, CommitPCs
<1>3. ASSUME NEW p \in Procs, end_op(p) PROVE Threads'
  <2>1. p \in Active /\ committing = 0
    BY <1>3, <1>t DEF end_op, Active, InOp, Threads, TypeOK
  <2>0. \A q \in Procs : pc'[q] \in InOp <=> q # p /\ pc[q] \in InOp
    <3>1. CASE pc' = [Awake EXCEPT ![p] = "user"]
      BY <1>3, <1>t, <3>1 DEF InOp, TypeOK, Awake
    <3>2. CASE pc' = [pc EXCEPT ![p] = "end_commit"]
      BY <1>3, <1>t, <3>2 DEF InOp, TypeOK
    <3>3. CASE pc' = [pc EXCEPT ![p] = "write_log"]
      BY <1>3, <1>t, <3>3 DEF InOp, TypeOK
    <3> QED BY <1>3, <2>1, <3>1, <3>2, <3>3 DEF end_op
  <2>2. Active' = Active \ {p}
    BY <2>0 DEF Active
  <2>3. outstanding' = Cardinality(Active') /\ IsFiniteSet(Active')
    BY <1>3, <1>t, <2>1, <2>2, ReservedFinite, FS_RemoveElement DEF end_op, Threads
  <2>4. committing' = 1 => Active' = {}
    BY <1>3, <2>1, <2>3, FS_EmptySet DEF end_op
  <2>5. \A q \in Procs : pc[q] \notin CommitPCs
    BY <1>t, <2>1 DEF Threads
  <2>6. \A q \in Procs : pc'[q] \in CommitPCs => q = p /\ committing' = 1
    BY <1>3, <1>t, <2>1, <2>5, Zenon DEF end_op, Awake, CommitPCs, TypeOK
  <2>7. boot' = "up"
    BY <1>3, <1>t DEF end_op, Threads
  <2>8. \A q \in Procs : pc'[q] \in {"read_wait", "op_wait", "reading", "locked",
                                     "log_write", "logged"} => hold'[q] \in Home
    BY <1>3, <1>t, Zenon DEF end_op, Threads, TypeOK, Awake
  <2> QED BY <2>3, <2>4, <2>6, <2>7, <2>8 DEF Threads
<1>4. ASSUME NEW p \in Procs, NEW b \in Home, bget(p, b) PROVE Threads'
  <2>1. Active' = Active
    BY <1>4, <1>t, SameCalls DEF Quiet
  <2> QED BY <1>4, <1>t, <2>1 DEF bget, Threads, TypeOK, CommitPCs
<1>5. ASSUME NEW p \in Procs, NEW d \in Data, log_write_check(p, d) PROVE Threads'
  <2>1. Active' = Active
    BY <1>5, <1>t, SameCalls DEF Quiet
  <2> QED BY <1>5, <1>t, <2>1 DEF log_write_check, Threads, TypeOK, CommitPCs
<1>6. ASSUME NEW p \in Procs, log_write(p) PROVE Threads'
  <2>1. Active' = Active
    BY <1>6, <1>t, SameCalls DEF Quiet
  <2> QED BY <1>6, <1>t, <2>1 DEF log_write, Threads, TypeOK, CommitPCs
<1>7. ASSUME NEW p \in Procs, brelse(p) PROVE Threads'
  <2>1. Active' = Active
    BY <1>7, <1>t, SameCalls DEF Quiet
  <2> QED BY <1>7, <1>t, <2>1 DEF brelse, Threads, TypeOK, CommitPCs
<1>8. ASSUME NEW p \in Procs, write_log(p) PROVE Threads'
  <2>1. Active' = Active
    BY <1>8, <1>t, SameCalls DEF Quiet, committer
  <2> QED BY <1>8, <1>t, <2>1 DEF write_log, Threads, TypeOK, CommitPCs
<1>9. ASSUME NEW p \in Procs, write_head(p) PROVE Threads'
  <2>1. Active' = Active
    BY <1>9, <1>t, SameCalls DEF Quiet, committer
  <2> QED BY <1>9, <1>t, <2>1 DEF write_head, Threads, TypeOK, CommitPCs
<1>10. ASSUME NEW p \in Procs, install_trans(p) PROVE Threads'
  <2>1. Active' = Active
    BY <1>10, <1>t, SameCalls DEF Quiet, committer
  <2> QED BY <1>10, <1>t, <2>1 DEF install_trans, Threads, TypeOK, CommitPCs, InstallBlock
<1>11. ASSUME NEW p \in Procs, clear_head(p) PROVE Threads'
  <2>1. Active' = Active
    BY <1>11, <1>t, SameCalls DEF Quiet, committer
  <2> QED BY <1>11, <1>t, <2>1 DEF clear_head, Threads, TypeOK, CommitPCs
<1>12. ASSUME NEW p \in Procs, end_commit(p) PROVE Threads'
  <2>1. Active' = Active
    BY <1>12, <1>t, SameCalls DEF Quiet, committer
  <2>2. \A q \in Procs : pc'[q] \notin CommitPCs
    BY <1>12, <1>t DEF end_commit, Threads, Awake, CommitPCs, TypeOK
  <2>3. \A q \in Procs : pc'[q] \in {"read_wait", "op_wait", "reading", "locked",
                                     "log_write", "logged"} => hold'[q] \in Home
    BY <1>12, <1>t DEF end_commit, Threads, TypeOK, Awake
  <2> QED BY <1>12, <1>t, <2>1, <2>2, <2>3 DEF end_commit, Threads, CommitPCs
<1>13. ASSUME NEW b \in Home, recycle(b) PROVE Threads'
  <2>1. Active' = Active
    BY <1>13, <1>t, SameCalls DEF Quiet
  <2> QED BY <1>13, <1>t, <2>1 DEF recycle, Threads, TypeOK, CommitPCs
<1>14. CASE crash
  <2>1. Active' = {}
    BY <1>14 DEF crash, Active, InOp
  <2>2. Cardinality(Active') = 0
    BY <2>1, FS_EmptySet
  <2> QED BY <1>14, <2>1, <2>2 DEF crash, Threads, CommitPCs
<1>15. CASE read_head
  <2>1. Active' = Active
    BY <1>15, <1>t, SameCalls DEF Quiet, recovery
  <2> QED BY <1>15, <1>t, <2>1 DEF read_head, Threads, TypeOK, CommitPCs
<1>16. CASE recover_install
  <2>1. Active' = Active
    BY <1>16, <1>t, SameCalls DEF Quiet, recovery
  <2> QED BY <1>16, <1>t, <2>1 DEF recover_install, Threads, TypeOK, CommitPCs, InstallBlock
<1>17. CASE recover_clear
  <2>1. Active' = Active
    BY <1>17, <1>t, SameCalls DEF Quiet, recovery
  <2> QED BY <1>17, <1>t, <2>1 DEF recover_clear, Threads, TypeOK, CommitPCs
<1>18. CASE UNCHANGED vars
  BY <1>18, <1>t DEF vars, Threads, Active
<1>19. ASSUME NEW p \in Procs, bread(p) PROVE Threads'
  <2>1. Active' = Active
    BY <1>19, <1>t, SameCalls DEF Quiet
  <2> QED BY <1>19, <1>t, <2>1 DEF bread, Threads, TypeOK, CommitPCs
<1> QED
  BY <1>1, <1>2, <1>3, <1>4, <1>5, <1>6, <1>7, <1>8, <1>9,
         <1>10, <1>11, <1>12, <1>13, <1>14, <1>15, <1>16, <1>17, <1>18, <1>19
  DEF Next, committer, recovery

\* The loops of commit() and recovery stay inside log.lh.
LEMMA LoopsStep == LogInv /\ [Next]_vars => Loops'
<1> SUFFICES ASSUME LogInv, [Next]_vars PROVE Loops'
  OBVIOUS
<1>t. TypeOK /\ Threads /\ Loops
  BY DEF LogInv
<1>1. ASSUME NEW p \in Procs, begin_op(p) PROVE Loops'
  BY <1>1, <1>t DEF begin_op, Loops, TypeOK
<1>2. ASSUME NEW p \in Procs, kill(p) PROVE Loops'
  BY <1>2, <1>t DEF kill, Loops, TypeOK
<1>3. ASSUME NEW p \in Procs, end_op(p) PROVE Loops'
  <2>1. p \in Active /\ committing = 0
    BY <1>3, <1>t DEF end_op, Active, InOp, Threads, TypeOK
  <2>2. \A q \in Procs : pc[q] \notin CommitPCs
    BY <1>t, <2>1 DEF Threads
  <2>3. \A q \in Procs : pc'[q] \in CommitPCs \ {"end_commit"} =>
          pc'[q] = "write_log" /\ lh # <<>>
    BY <1>3, <1>t, <2>1, <2>2, Zenon DEF end_op, TypeOK, Awake, CommitPCs
  <2>4. lh # <<>> => Len(lh) > 0
    BY <1>t DEF TypeOK
  <2>5. boot = "up"
    BY <1>3, <1>t DEF end_op, Threads
  <2> QED BY <1>3, <2>3, <2>4, <2>5 DEF end_op, Loops, CommitPCs
<1>4. ASSUME NEW p \in Procs, NEW b \in Home, bget(p, b) PROVE Loops'
  BY <1>4, <1>t DEF bget, Loops, TypeOK
<1>5. ASSUME NEW p \in Procs, NEW d \in Data, log_write_check(p, d) PROVE Loops'
  BY <1>5, <1>t DEF log_write_check, Loops, TypeOK
<1>6. ASSUME NEW p \in Procs, log_write(p) PROVE Loops'
  <2>1. \A q \in Procs : pc[q] \notin CommitPCs
    BY <1>6, <1>t DEF log_write, Threads, Active, InOp
  <2>2. boot = "up"
    BY <1>6, <1>t DEF log_write, Threads
  <2> QED BY <1>6, <1>t, <2>1, <2>2 DEF log_write, Loops, CommitPCs, TypeOK
<1>7. ASSUME NEW p \in Procs, brelse(p) PROVE Loops'
  BY <1>7, <1>t DEF brelse, Loops, TypeOK
<1>8. ASSUME NEW p \in Procs, write_log(p) PROVE Loops'
  <2>1. \A q \in Procs : q # p => pc[q] \notin CommitPCs
    BY <1>8, <1>t DEF write_log, Threads, CommitPCs
  <2>2. boot = "up" /\ (lh # <<>> => Len(lh) > 0)
    BY <1>8, <1>t DEF write_log, Threads, TypeOK
  <2> QED BY <1>8, <1>t, <2>1, <2>2 DEF write_log, Loops, CommitPCs, TypeOK, NextTail, LastBlock
<1>9. ASSUME NEW p \in Procs, write_head(p) PROVE Loops'
  <2>1. \A q \in Procs : q # p => pc[q] \notin CommitPCs
    BY <1>9, <1>t DEF write_head, Threads, CommitPCs
  <2>2. boot = "up" /\ (lh # <<>> => Len(lh) > 0)
    BY <1>9, <1>t DEF write_head, Threads, TypeOK
  <2> QED BY <1>9, <1>t, <2>1, <2>2 DEF write_head, Loops, CommitPCs, TypeOK
<1>10. ASSUME NEW p \in Procs, install_trans(p) PROVE Loops'
  <2>1. \A q \in Procs : q # p => pc[q] \notin CommitPCs
    BY <1>10, <1>t DEF install_trans, Threads, CommitPCs
  <2>2. boot = "up" /\ (lh # <<>> => Len(lh) > 0)
    BY <1>10, <1>t DEF install_trans, Threads, TypeOK
  <2> QED BY <1>10, <1>t, <2>1, <2>2 DEF install_trans, Loops, CommitPCs, TypeOK, InstallBlock, NextTail, LastBlock
<1>11. ASSUME NEW p \in Procs, clear_head(p) PROVE Loops'
  <2>1. \A q \in Procs : q # p => pc[q] \notin CommitPCs
    BY <1>11, <1>t DEF clear_head, Threads, CommitPCs
  <2>2. boot = "up" /\ (lh # <<>> => Len(lh) > 0)
    BY <1>11, <1>t DEF clear_head, Threads, TypeOK
  <2> QED BY <1>11, <1>t, <2>1, <2>2 DEF clear_head, Loops, CommitPCs, TypeOK
<1>12. ASSUME NEW p \in Procs, end_commit(p) PROVE Loops'
  BY <1>12, <1>t DEF end_commit, Loops, TypeOK, Awake
<1>13. ASSUME NEW b \in Home, recycle(b) PROVE Loops'
  BY <1>13, <1>t DEF recycle, Loops, TypeOK
<1>14. CASE crash
  BY <1>14, <1>t DEF crash, Loops, TypeOK
<1>15. CASE read_head
  <2>1. \A q \in Procs : pc[q] = "user"
    BY <1>15, <1>t DEF read_head, Threads
  <2>2. dhead # <<>> => Len(dhead) > 0
    BY <1>t DEF TypeOK
  <2> QED BY <1>15, <1>t, <2>1, <2>2 DEF read_head, Loops, TypeOK
<1>16. CASE recover_install
  <2>1. \A q \in Procs : pc[q] = "user"
    BY <1>16, <1>t DEF recover_install, Threads
  <2>2. dhead # <<>> => Len(dhead) > 0
    BY <1>t DEF TypeOK
  <2> QED BY <1>16, <1>t, <2>1, <2>2 DEF recover_install, Loops, TypeOK, InstallBlock, NextTail, LastBlock
<1>17. CASE recover_clear
  <2>1. \A q \in Procs : pc[q] = "user"
    BY <1>17, <1>t DEF recover_clear, Threads
  <2>2. dhead # <<>> => Len(dhead) > 0
    BY <1>t DEF TypeOK
  <2> QED BY <1>17, <1>t, <2>1, <2>2 DEF recover_clear, Loops, TypeOK
<1>18. CASE UNCHANGED vars
  BY <1>18, <1>t DEF vars, Loops, TypeOK
<1>19. ASSUME NEW p \in Procs, bread(p) PROVE Loops'
  BY <1>19, <1>t DEF bread, Loops, TypeOK
<1> QED
  BY <1>1, <1>2, <1>3, <1>4, <1>5, <1>6, <1>7, <1>8, <1>9,
         <1>10, <1>11, <1>12, <1>13, <1>14, <1>15, <1>16, <1>17, <1>18, <1>19
  DEF Next, committer, recovery

\* The log and the open reservations together never exceed LOGSIZE: begin_op() adds
\* a reservation only if it fits, and log_write() uses the caller's own.
LEMMA RoomStep == LogInv /\ [Next]_vars => Room'
<1> SUFFICES ASSUME LogInv, [Next]_vars PROVE Room'
  OBVIOUS
<1>t. TypeOK /\ Threads /\ Loops /\ Room
  BY DEF LogInv
<1>1. ASSUME NEW p \in Procs, begin_op(p) PROVE Room'
  <2>1. CASE committing = 1 \/ LogFull
    <3>1. Active' = Active /\ wset' = wset
      BY <1>1, <1>t, <2>1 DEF begin_op, TypeOK, Active, InOp
    <3>2. Reserved' = Reserved
      BY <3>1 DEF Reserved
    <3>3. /\ lh' = lh /\ dhead' = dhead /\ hold' = hold
          /\ \A q \in Procs : pc'[q] = "log_write" => pc[q] = "log_write"
      BY <1>1, <1>t, <2>1, Zenon DEF begin_op, onDisk, TypeOK
    <3> QED BY <1>t, <3>1, <3>2, <3>3, Zenon DEF Room
  <2>2. CASE ~(committing = 1 \/ LogFull)
    <3>1. Active' = Active \cup {p} /\ p \notin Active
      BY <1>1, <1>t, <2>2 DEF begin_op, TypeOK, Active, InOp
    <3>2. IsFiniteSet(Active') /\ Cardinality(Active') = outstanding + 1
      BY <1>t, <3>1, ReservedFinite, FS_AddElement DEF Threads
    <3>3. IsFiniteSet(1..MAXOPBLOCKS) /\ Cardinality(1..MAXOPBLOCKS) = MAXOPBLOCKS
      BY FS_Interval
    <3>4. /\ IsFiniteSet(Active' \X (1..MAXOPBLOCKS))
          /\ Cardinality(Active' \X (1..MAXOPBLOCKS)) = (outstanding + 1) * MAXOPBLOCKS
      <4>1. \A S, T : IsFiniteSet(S) /\ IsFiniteSet(T) =>
              /\ IsFiniteSet(S \X T)
              /\ Cardinality(S \X T) = Cardinality(S) * Cardinality(T)
        BY FS_Product, Zenon
      <4>2. /\ IsFiniteSet(Active' \X (1..MAXOPBLOCKS))
            /\ Cardinality(Active' \X (1..MAXOPBLOCKS)) =
                 Cardinality(Active') * Cardinality(1..MAXOPBLOCKS)
        BY <3>2, <3>3, <4>1, Zenon
      <4> QED BY <3>2, <3>3, <4>2, Zenon
    <3>5. Reserved' \in SUBSET (Active' \X (1..MAXOPBLOCKS))
      BY DEF Reserved
    <3>6. /\ Cardinality(Reserved') <= (outstanding + 1) * MAXOPBLOCKS
          /\ Cardinality(Reserved') \in Nat
      BY <3>4, <3>5, FS_Subset, FS_CardinalityType
    <3>7. Len(lh') + Cardinality(Reserved') <= LOGSIZE
      <4>1. Len(lh) + (outstanding + 1) * MAXOPBLOCKS <= LOGSIZE
        BY <1>t, <2>2 DEF LogFull, TypeOK
      <4>2. lh' = lh /\ Len(lh) \in Nat /\ (outstanding + 1) * MAXOPBLOCKS \in Nat
        BY <1>1, <1>t DEF begin_op, TypeOK
      <4> QED BY <3>6, <4>1, <4>2
    <3>8. \A q \in Active' : wset'[q] \subseteq BlocksOf(lh')
      BY <1>1, <1>t, <2>2, <3>1 DEF begin_op, Room, TypeOK, Active
    <3>9. \A q \in Procs : pc'[q] = "log_write" =>
            Cardinality(wset'[q] \cup {hold'[q]}) <= OpWrites
      BY <1>1, <1>t, <2>2, Zenon DEF begin_op, Room, TypeOK
    <3> QED BY <1>1, <1>t, <3>7, <3>8, <3>9, Zenon DEF begin_op, onDisk, Room
  <2> QED BY <2>1, <2>2
<1>2. ASSUME NEW p \in Procs, kill(p) PROVE Room'
  <2>1. Active' = Active /\ wset' = wset /\ lh' = lh
    BY <1>2, <1>t, SameCalls, Zenon DEF Quiet, kill
  <2>2. Reserved' = Reserved
    BY <2>1 DEF Reserved
  <2> QED BY <1>2, <1>t, <2>1, <2>2 DEF kill, onDisk, Room, TypeOK
<1>3. ASSUME NEW p \in Procs, end_op(p) PROVE Room'
  <2>1. Active' \subseteq Active /\ wset' = wset
    BY <1>3, <1>t, Zenon DEF end_op, Active, InOp, TypeOK, Awake
  <2>2. Reserved' \in SUBSET Reserved
    BY <2>1 DEF Reserved
  <2>3. Cardinality(Reserved') <= Cardinality(Reserved) /\ Cardinality(Reserved') \in Nat
    BY <2>2, ReservedFinite, FS_Subset, FS_CardinalityType
  <2>4. Len(lh') + Cardinality(Reserved') <= LOGSIZE
    BY <1>3, <1>t, <2>3, ReservedFinite DEF end_op, Room, TypeOK
  <2>5. \A q \in Procs : pc'[q] = "log_write" => pc[q] = "log_write"
    BY <1>3, <1>t, Zenon DEF end_op, TypeOK, Awake
  <2> QED BY <1>3, <1>t, <2>1, <2>4, <2>5 DEF end_op, onDisk, Room
<1>4. ASSUME NEW p \in Procs, NEW b \in Home, bget(p, b) PROVE Room'
  <2>1. Active' = Active /\ wset' = wset /\ lh' = lh
    BY <1>4, <1>t, SameCalls, Zenon DEF Quiet, bget
  <2>2. Reserved' = Reserved
    BY <2>1 DEF Reserved
  <2> QED BY <1>4, <1>t, <2>1, <2>2, Zenon DEF bget, onDisk, Room, TypeOK
<1>5. ASSUME NEW p \in Procs, NEW d \in Data, log_write_check(p, d) PROVE Room'
  <2>1. Active' = Active /\ wset' = wset /\ lh' = lh
    BY <1>5, <1>t, SameCalls, Zenon DEF Quiet, log_write_check
  <2>2. Reserved' = Reserved
    BY <2>1 DEF Reserved
  <2> QED BY <1>5, <1>t, <2>1, <2>2, Zenon DEF log_write_check, onDisk, Room, TypeOK
<1>6. ASSUME NEW p \in Procs, log_write(p) PROVE Room'
  <2>1. Active' = Active /\ p \in Active
    BY <1>6, <1>t, SameCalls DEF Quiet, log_write, Active, InOp
  <2>2. hold[p] \in Home /\ IsFiniteSet(wset[p])
    BY <1>6, <1>t, FS_Subset DEF log_write, Threads, TypeOK
  <2>3. Cardinality(wset[p]) \in Nat /\ Cardinality(wset'[p]) =
          IF hold[p] \in wset[p] THEN Cardinality(wset[p]) ELSE Cardinality(wset[p]) + 1
    <3>1. wset'[p] = wset[p] \cup {hold[p]}
      BY <1>6, <1>t DEF log_write, TypeOK
    <3>2. Cardinality(wset[p]) \in Nat
      BY <2>2, FS_CardinalityType, Zenon
    <3>3. Cardinality(wset[p] \cup {hold[p]}) =
            IF hold[p] \in wset[p] THEN Cardinality(wset[p]) ELSE Cardinality(wset[p]) + 1
      BY <2>2, FS_AddElement, Zenon
    <3> QED BY <3>1, <3>2, <3>3, Zenon
  <2>4. \A q \in Procs : q # p => wset'[q] = wset[q]
    BY <1>6, <1>t DEF log_write, TypeOK
  <2>5. Reserved' \subseteq Reserved
    BY <2>1, <2>3, <2>4 DEF Reserved, Active
  <2>6. Len(lh') + Cardinality(Reserved') <= LOGSIZE
    <3>1. CASE hold[p] \in BlocksOf(lh)
      <4>1. lh' = lh
        BY <1>6, <3>1 DEF log_write
      <4>2. Cardinality(Reserved') <= Cardinality(Reserved) /\ Cardinality(Reserved') \in Nat
        BY <2>5, ReservedFinite, FS_Subset, FS_CardinalityType
      <4> QED BY <1>t, <4>1, <4>2, ReservedFinite DEF Room, TypeOK
    <3>2. CASE hold[p] \notin BlocksOf(lh)
      <4> DEFINE r == <<p, Cardinality(wset[p]) + 1>>
      <4>1. hold[p] \notin wset[p]
        BY <1>t, <2>1, <3>2 DEF Room
      <4>2. Cardinality(wset[p]) + 1 <= OpWrites
        <5>1. Cardinality(wset[p] \cup {hold[p]}) = Cardinality(wset[p]) + 1
          BY <2>2, <4>1, FS_AddElement, Zenon
        <5> QED BY <1>6, <1>t, <5>1 DEF log_write, Room
      <4>3. r \in Reserved
        BY <2>1, <2>3, <4>2 DEF Reserved
      <4>4. r \notin Reserved'
        BY <2>3, <4>1 DEF Reserved
      <4>5. Reserved' \in SUBSET (Reserved \ {r})
        BY <2>5, <4>4
      <4>6. IsFiniteSet(Reserved \ {r}) /\ Cardinality(Reserved \ {r}) = Cardinality(Reserved) - 1
        <5> HIDE DEF r
        <5> QED BY <4>3, ReservedFinite, FS_RemoveElement, Zenon
      <4>7. Cardinality(Reserved') <= Cardinality(Reserved) - 1 /\ Cardinality(Reserved') \in Nat
        BY <4>5, <4>6, FS_Subset, FS_CardinalityType
      <4>8. Len(lh') = Len(lh) + 1
        BY <1>6, <1>t, <2>2, <3>2 DEF log_write, TypeOK
      <4> QED BY <1>t, <4>7, <4>8, ReservedFinite DEF Room, TypeOK
    <3> QED BY <3>1, <3>2
  <2>7. BlocksOf(lh) \cup {hold[p]} \subseteq BlocksOf(lh')
    BY <1>6, <1>t, <2>2, AppendBlock, Zenon DEF log_write, TypeOK
  <2>8. \A q \in Active' : wset'[q] \subseteq BlocksOf(lh')
    BY <1>6, <1>t, <2>1, <2>4, <2>7 DEF log_write, Room, TypeOK, Active
  <2>9. \A q \in Procs : pc'[q] = "log_write" => pc[q] = "log_write" /\ q # p
    BY <1>6, <1>t DEF log_write, TypeOK
  <2> QED BY <1>6, <1>t, <2>4, <2>6, <2>8, <2>9 DEF log_write, onDisk, Room
<1>7. ASSUME NEW p \in Procs, brelse(p) PROVE Room'
  <2>1. Active' = Active /\ wset' = wset /\ lh' = lh
    BY <1>7, <1>t, SameCalls, Zenon DEF Quiet, brelse
  <2>2. Reserved' = Reserved
    BY <2>1 DEF Reserved
  <2> QED BY <1>7, <1>t, <2>1, <2>2, Zenon DEF brelse, onDisk, Room, TypeOK
<1>8. ASSUME NEW p \in Procs, write_log(p) PROVE Room'
  <2>1. Active' = Active /\ wset' = wset /\ lh' = lh
    BY <1>8, <1>t, SameCalls, Zenon DEF Quiet, committer, write_log
  <2>2. Reserved' = Reserved
    BY <2>1 DEF Reserved
  <2> QED BY <1>8, <1>t, <2>1, <2>2 DEF write_log, Room, TypeOK
<1>9. ASSUME NEW p \in Procs, write_head(p) PROVE Room'
  <2>1. Active' = Active /\ wset' = wset /\ lh' = lh
    BY <1>9, <1>t, SameCalls, Zenon DEF Quiet, committer, write_head
  <2>2. Reserved' = Reserved
    BY <2>1 DEF Reserved
  <2> QED BY <1>9, <1>t, <2>1, <2>2, ReservedFinite DEF write_head, Room, TypeOK
<1>10. ASSUME NEW p \in Procs, install_trans(p) PROVE Room'
  <2>1. Active' = Active /\ wset' = wset /\ lh' = lh
    BY <1>10, <1>t, SameCalls, Zenon DEF Quiet, committer, install_trans
  <2>2. Reserved' = Reserved
    BY <2>1 DEF Reserved
  <2> QED BY <1>10, <1>t, <2>1, <2>2 DEF install_trans, Room, TypeOK
<1>11. ASSUME NEW p \in Procs, clear_head(p) PROVE Room'
  <2>1. Active' = {}
    BY <1>11, <1>t DEF clear_head, Active, InOp, Threads, TypeOK, CommitPCs
  <2>2. Reserved' = {}
    BY <2>1 DEF Reserved
  <2>3. Cardinality(Reserved') = 0
    BY <2>2, FS_EmptySet
  <2>4. \A q \in Procs : pc'[q] # "log_write"
    BY <2>1 DEF Active, InOp
  <2>5. Len(lh') <= LOGSIZE /\ Len(lh') \in Nat /\ Len(dhead') <= LOGSIZE
    BY <1>11, <1>t DEF clear_head, onDisk, Room, TypeOK
  <2> QED BY <2>1, <2>3, <2>4, <2>5 DEF Room
<1>12. ASSUME NEW p \in Procs, end_commit(p) PROVE Room'
  <2>1. Active' = Active /\ wset' = wset /\ lh' = lh
    BY <1>12, <1>t, SameCalls, Zenon DEF Quiet, committer, end_commit
  <2>2. Reserved' = Reserved
    BY <2>1 DEF Reserved
  <2> QED BY <1>12, <1>t, <2>1, <2>2, Zenon DEF end_commit, onDisk, Room, TypeOK, Awake
<1>13. ASSUME NEW b \in Home, recycle(b) PROVE Room'
  <2>1. Active' = Active /\ wset' = wset /\ lh' = lh
    BY <1>13, <1>t, SameCalls, Zenon DEF Quiet, recycle
  <2>2. Reserved' = Reserved
    BY <2>1 DEF Reserved
  <2> QED BY <1>13, <1>t, <2>1, <2>2 DEF recycle, onDisk, Room, TypeOK
<1>14. CASE crash
  <2>1. Active' = {}
    BY <1>14, <1>t DEF crash, Active, InOp, Threads, TypeOK, CommitPCs
  <2>2. Reserved' = {}
    BY <2>1 DEF Reserved
  <2>3. Cardinality(Reserved') = 0
    BY <2>2, FS_EmptySet
  <2>4. \A q \in Procs : pc'[q] # "log_write"
    BY <2>1 DEF Active, InOp
  <2>5. Len(lh') <= LOGSIZE /\ Len(lh') \in Nat /\ Len(dhead') <= LOGSIZE
    BY <1>14, <1>t DEF crash, onDisk, Room, TypeOK
  <2> QED BY <2>1, <2>3, <2>4, <2>5 DEF Room
<1>15. CASE read_head
  <2>1. Active' = {}
    BY <1>15, <1>t DEF read_head, Active, InOp, Threads, TypeOK, CommitPCs
  <2>2. Reserved' = {}
    BY <2>1 DEF Reserved
  <2>3. Cardinality(Reserved') = 0
    BY <2>2, FS_EmptySet
  <2>4. \A q \in Procs : pc'[q] # "log_write"
    BY <2>1 DEF Active, InOp
  <2>5. Len(lh') <= LOGSIZE /\ Len(lh') \in Nat /\ Len(dhead') <= LOGSIZE
    BY <1>15, <1>t DEF read_head, onDisk, Room, TypeOK
  <2> QED BY <2>1, <2>3, <2>4, <2>5 DEF Room
<1>16. CASE recover_install
  <2>1. Active' = Active /\ wset' = wset /\ lh' = lh
    BY <1>16, <1>t, SameCalls DEF Quiet, recovery, recover_install
  <2>2. Reserved' = Reserved
    BY <2>1 DEF Reserved
  <2> QED BY <1>16, <1>t, <2>1, <2>2 DEF recover_install, Room, TypeOK
<1>17. CASE recover_clear
  <2>1. Active' = {}
    BY <1>17, <1>t DEF recover_clear, Active, InOp, Threads, TypeOK, CommitPCs
  <2>2. Reserved' = {}
    BY <2>1 DEF Reserved
  <2>3. Cardinality(Reserved') = 0
    BY <2>2, FS_EmptySet
  <2>4. \A q \in Procs : pc'[q] # "log_write"
    BY <2>1 DEF Active, InOp
  <2>5. Len(lh') <= LOGSIZE /\ Len(lh') \in Nat /\ Len(dhead') <= LOGSIZE
    BY <1>17, <1>t DEF recover_clear, onDisk, Room, TypeOK
  <2> QED BY <2>1, <2>3, <2>4, <2>5 DEF Room
<1>18. CASE UNCHANGED vars
  <2>1. Reserved' = Reserved /\ Active' = Active
    BY <1>18 DEF vars, Reserved, Active
  <2> QED BY <1>18, <1>t, <2>1, Zenon DEF vars, Room
<1>19. ASSUME NEW p \in Procs, bread(p) PROVE Room'
  <2>1. Active' = Active /\ wset' = wset /\ lh' = lh
    BY <1>19, <1>t, SameCalls, Zenon DEF Quiet, bread
  <2>2. Reserved' = Reserved
    BY <2>1 DEF Reserved
  <2> QED BY <1>19, <1>t, <2>1, <2>2, Zenon DEF bread, onDisk, Room, TypeOK
<1> QED
  BY <1>1, <1>2, <1>3, <1>4, <1>5, <1>6, <1>7, <1>8, <1>9,
         <1>10, <1>11, <1>12, <1>13, <1>14, <1>15, <1>16, <1>17, <1>18, <1>19
  DEF Next, committer, recovery

\* A set of two elements.
LEMMA TwoElements ==
  ASSUME NEW x, NEW y, x # y
  PROVE  Cardinality({x, y}) = 2
<1>1. {x, y} = {x} \cup {y} /\ y \notin {x}
  OBVIOUS
<1>2. IsFiniteSet({x}) /\ Cardinality({x}) = 1
  BY FS_Singleton, Zenon
<1>3. Cardinality({x} \cup {y}) = 1 + 1
  BY <1>1, <1>2, FS_AddElement, Zenon
<1> QED BY <1>1, <1>3

\* An open call that writes at most OpWrites blocks leaves two places free.
LEMMA TwoFree ==
  ASSUME TypeOK, Room, Headroom, NEW p \in Active, Cardinality(wset[p]) <= OpWrites
  PROVE  Len(lh) <= LOGSIZE - 2
<1> DEFINE c == Cardinality(wset[p])
<1> DEFINE two == {<<p, c + 1>>, <<p, c + 2>>}
<1>1. c \in Nat
  BY FS_Subset, FS_CardinalityType DEF TypeOK, Active
<1>2. two \in SUBSET Reserved
  BY <1>1 DEF Reserved, Headroom
<1>3. Cardinality(two) = 2
  <2>1. <<p, c + 1>> # <<p, c + 2>>
    BY <1>1
  <2> QED BY ONLY <2>1, TwoElements, Zenon
<1>4. Cardinality(Reserved) >= 2
  <2> HIDE DEF two
  <2> QED BY <1>2, <1>3, ReservedFinite, FS_Subset
<1> QED BY <1>4, ReservedFinite DEF Room, TypeOK

\* What the log promises, given Headroom.
Safe == NoPanic /\ LogFits /\ Len(dhead) <= NLog - 1

\* With Headroom, no step panics or logs a block the on-disk log has no slot for.
LEMMA SafeStep == LogInv /\ [Next]_vars /\ Headroom => Safe'
<1> SUFFICES ASSUME LogInv, [Next]_vars, Headroom PROVE Safe'
  OBVIOUS
<1>t. TypeOK /\ Threads /\ Loops /\ Room /\ Headroom /\ Safe
  BY DEF LogInv, Safe
<1>1. ASSUME NEW p \in Procs, begin_op(p) PROVE Safe'
  BY <1>1, <1>t DEF begin_op, Safe, NoPanic, LogFits, TypeOK, onDisk
<1>2. ASSUME NEW p \in Procs, kill(p) PROVE Safe'
  BY <1>2, <1>t DEF kill, Safe, NoPanic, LogFits, TypeOK, onDisk
<1>3. ASSUME NEW p \in Procs, end_op(p) PROVE Safe'
  <2>1. committing = 0
    BY <1>3, <1>t DEF end_op, Active, InOp, Threads, TypeOK
  <2>2. NoPanic'
    <3>1. CASE pc' = [Awake EXCEPT ![p] = "user"]
      BY <1>t, <3>1 DEF Safe, NoPanic, Awake, TypeOK
    <3>2. CASE pc' = [pc EXCEPT ![p] = "end_commit"] \/ pc' = [pc EXCEPT ![p] = "write_log"]
      BY <1>t, <3>2 DEF Safe, NoPanic, TypeOK
    <3> QED BY <1>3, <2>1, <3>1, <3>2 DEF end_op
  <2> QED BY <1>3, <1>t, <2>2 DEF end_op, onDisk, Safe, LogFits
<1>4. ASSUME NEW p \in Procs, NEW b \in Home, bget(p, b) PROVE Safe'
  BY <1>4, <1>t DEF bget, Safe, NoPanic, LogFits, TypeOK, onDisk
<1>5. ASSUME NEW p \in Procs, NEW d \in Data, log_write_check(p, d) PROVE Safe'
  <2>1. p \in Active
    BY <1>5, Zenon DEF log_write_check, Active, InOp
  <2>2. wset[p] \in SUBSET (wset[p] \cup {hold[p]}) /\ IsFiniteSet(wset[p] \cup {hold[p]})
    BY <1>t, FS_Subset, FS_AddElement, Zenon DEF TypeOK
  <2>3. Cardinality(wset[p]) <= Cardinality(wset[p] \cup {hold[p]})
    BY <2>2, FS_Subset
  <2>4. Cardinality(wset[p]) <= OpWrites
    BY <1>5, <2>2, <2>3, FS_Subset, FS_CardinalityType DEF log_write_check
  <2>5. Len(lh) <= LOGSIZE - 2 /\ outstanding >= 1 /\ outstanding \in Nat
    BY <1>t, <2>1, <2>4, TwoFree, OpenCall
  <2>6. ~(Len(lh) >= LOGSIZE \/ Len(lh) >= NLog - 1 \/ outstanding < 1)
    BY <1>t, <2>5 DEF Headroom, TypeOK
  <2>7. pc' = [pc EXCEPT ![p] = "log_write"]
    BY <1>5, <2>6 DEF log_write_check
  <2> QED BY <1>5, <1>t, <2>7 DEF log_write_check, onDisk, Safe, NoPanic, LogFits, TypeOK
<1>6. ASSUME NEW p \in Procs, log_write(p) PROVE Safe'
  <2>1. p \in Active /\ hold[p] \in Home
    BY <1>6, <1>t DEF log_write, Active, InOp, Threads
  <2>2. wset[p] \in SUBSET (wset[p] \cup {hold[p]}) /\ IsFiniteSet(wset[p] \cup {hold[p]})
    BY <1>t, FS_Subset, FS_AddElement, Zenon DEF TypeOK
  <2>3. Cardinality(wset[p]) <= Cardinality(wset[p] \cup {hold[p]})
    BY <2>2, FS_Subset
  <2>4. Cardinality(wset[p]) <= OpWrites
    <3>1. Cardinality(wset[p] \cup {hold[p]}) <= OpWrites
      BY <1>6, <1>t, Zenon DEF log_write, Room
    <3>2. Cardinality(wset[p]) \in Nat /\ Cardinality(wset[p] \cup {hold[p]}) \in Nat
      BY <2>2, FS_Subset, FS_CardinalityType
    <3> QED BY <2>3, <3>1, <3>2
  <2>5. Len(lh) <= LOGSIZE - 2
    BY <1>t, <2>1, <2>4, TwoFree
  <2>6. Len(lh') \in Nat /\ Len(lh') <= Len(lh) + 1
    BY <1>6, <1>t, <2>1, AppendBlock DEF log_write, TypeOK
  <2>7. LogFits'
    BY <1>t, <2>5, <2>6 DEF Headroom, LogFits, TypeOK
  <2>8. NoPanic' /\ dhead' = dhead
    BY <1>6, <1>t, Zenon DEF log_write, onDisk, Safe, NoPanic, TypeOK
  <2> QED BY <1>t, <2>7, <2>8, Zenon DEF Safe
<1>7. ASSUME NEW p \in Procs, brelse(p) PROVE Safe'
  BY <1>7, <1>t DEF brelse, Safe, NoPanic, LogFits, TypeOK, onDisk
<1>8. ASSUME NEW p \in Procs, write_log(p) PROVE Safe'
  BY <1>8, <1>t DEF write_log, Safe, NoPanic, LogFits, TypeOK
<1>9. ASSUME NEW p \in Procs, write_head(p) PROVE Safe'
  BY <1>9, <1>t DEF write_head, Safe, NoPanic, LogFits, TypeOK
<1>10. ASSUME NEW p \in Procs, install_trans(p) PROVE Safe'
  BY <1>10, <1>t DEF install_trans, Safe, NoPanic, LogFits, TypeOK
<1>11. ASSUME NEW p \in Procs, clear_head(p) PROVE Safe'
  BY <1>11, <1>t DEF clear_head, Safe, NoPanic, LogFits, TypeOK, onDisk
<1>12. ASSUME NEW p \in Procs, end_commit(p) PROVE Safe'
  BY <1>12, <1>t DEF end_commit, Safe, NoPanic, LogFits, TypeOK, onDisk, Awake
<1>13. ASSUME NEW b \in Home, recycle(b) PROVE Safe'
  BY <1>13, <1>t DEF recycle, Safe, NoPanic, LogFits, TypeOK, onDisk
<1>14. CASE crash
  BY <1>14, <1>t DEF crash, Safe, NoPanic, LogFits, TypeOK, onDisk
<1>15. CASE read_head
  BY <1>15, <1>t DEF read_head, Safe, NoPanic, LogFits, TypeOK, onDisk
<1>16. CASE recover_install
  BY <1>16, <1>t DEF recover_install, Safe, NoPanic, LogFits, TypeOK
<1>17. CASE recover_clear
  BY <1>17, <1>t DEF recover_clear, Safe, NoPanic, LogFits, TypeOK, onDisk
<1>18. CASE UNCHANGED vars
  BY <1>18, <1>t DEF vars, Safe, NoPanic, LogFits
<1>19. ASSUME NEW p \in Procs, bread(p) PROVE Safe'
  BY <1>19, <1>t DEF bread, Safe, NoPanic, LogFits, TypeOK, onDisk
<1> QED
  BY <1>1, <1>2, <1>3, <1>4, <1>5, <1>6, <1>7, <1>8, <1>9,
         <1>10, <1>11, <1>12, <1>13, <1>14, <1>15, <1>16, <1>17, <1>18, <1>19
  DEF Next, committer, recovery

\* The bookkeeping of begin_op(), log_write() and end_op() stays exact in every
\* reachable state, whatever the constants: among other things, log.lh never
\* outgrows LOGSIZE, and commit() never runs next to an open call.
THEOREM LogInvariant == Spec => []LogInv
<1>1. LogInv /\ [Next]_vars => LogInv'
  <2>1. Headroom' = Headroom
    BY DEF Headroom
  <2> QED BY <2>1, TypeStep, ThreadsStep, LoopsStep, RoomStep, SafeStep DEF LogInv, Safe
<1> QED BY <1>1, InitLogInv, PTL DEF Spec

\* No thread ever panics in log.c, and no group outgrows the on-disk log, for any
\* number of threads and blocks and any sizes, as long as calls leave two blocks
\* of their reservation unused and the log has LOGSIZE blocks.
THEOREM LogCapacity == Spec => [](Headroom => NoPanic /\ LogFits)
<1>1. LogInv => (Headroom => NoPanic /\ LogFits)
  BY DEF LogInv
<1> QED BY <1>1, LogInvariant, PTL
=============================================================================
