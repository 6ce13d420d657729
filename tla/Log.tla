-------------------------------- MODULE Log --------------------------------
(***************************************************************************)
(* The redo log of kernel/log.c: group commit of file-system calls, the    *)
(* pinning of logged buffers, crashes and recovery at the next boot.       *)
(*                                                                         *)
(* A critical section under log.lock is one action.  log_write() tests the *)
(* log's capacity before it takes the lock, so it is two.  Each disk write *)
(* of commit() and of recovery is an action, and a crash may fall between  *)
(* any two.  A write of one block is atomic.                               *)
(*                                                                         *)
(* The buffer cache appears as far as the log depends on it: the cached    *)
(* content of a home block, its reference count (unsigned, as in buf.h)    *)
(* and the threads that refer to it, one of which may hold its sleep-lock. *)
(* A thread refers to at most one buffer at a time.                        *)
(***************************************************************************)
EXTENDS Integers, Sequences, FiniteSets

CONSTANTS
  Procs,         \* the kernel threads that run file-system calls
  Home,          \* the home blocks: every block outside the log
  Data,          \* block contents
  Blank,         \* the content of each block in a fresh mkfs image
  NoData,        \* cache[b] = NoData: block b is not cached
  NoBlock,       \* hold[p] = NoBlock: thread p has no buffer
  MAXOPBLOCKS,   \* the blocks begin_op() reserves for one call
  LOGSIZE,       \* the blocks begin_op() lets all calls reserve together
  NLog,          \* sb->nlog: blocks of the on-disk log, header included
  OpWrites,      \* the blocks one call really writes
  RefMod,        \* 2^w for the width w of buf.refcnt
  CachePressure, \* whether the working set exceeds NBUF, so bget() recycles
  CanCrash       \* whether the machine may crash

ASSUME LogConstants ==
  /\ MAXOPBLOCKS \in Nat /\ LOGSIZE \in Nat /\ NLog \in Nat \ {0}
  /\ OpWrites \in Nat
  /\ OpWrites <= MAXOPBLOCKS
  /\ RefMod \in Nat /\ RefMod > 1
  /\ CachePressure \in BOOLEAN /\ CanCrash \in BOOLEAN
  /\ Blank \in Data /\ NoData \notin Data /\ NoBlock \notin Home
  /\ IsFiniteSet(Procs) /\ IsFiniteSet(Home)

VARIABLES
  disk,        \* on disk: the home blocks
  dlog,        \* on disk: the log's data blocks, slot i at log.start + i
  dhead,       \* on disk: the header, the block numbers of a committed group
  cache,       \* the content of the buffer of each home block, or NoData
  refcnt,      \* its reference count
  lh,          \* log.lh: the blocks logged by the current group
  outstanding, \* log.outstanding
  committing,  \* log.committing
  boot,        \* where initlog() is, or "up"
  tail,        \* the loop counter of write_log() and install_trans()
  pc,          \* where each thread is
  hold,        \* the buffer each thread has from bget(), locked or not yet
  wset         \* the blocks the thread's current call has logged

onDisk == <<disk, dlog, dhead>>
bufs   == <<cache, refcnt>>
vars   == <<disk, dlog, dhead, cache, refcnt, lh, outstanding, committing,
            boot, tail, pc, hold, wset>>

BlocksOf(s) == {s[i] : i \in 1..Len(s)}

\* The threads between begin_op() and the decrement of log.outstanding.
InOp == {"op", "op_wait", "locked", "log_write", "logged", "panic"}

PCs == InOp \cup {"user", "read_wait", "reading", "begin_op", "sleep", "write_log",
                  "write_head", "install_trans", "clear_head", "end_commit"}

\* A thread holds the sleep-lock of the buffer of b.
Held(b) == \E p \in Procs : hold[p] = b /\ pc[p] \notin {"read_wait", "op_wait"}

\* bread() returns the cached copy when there is one and reads the disk else.
Contents(b) == IF cache[b] = NoData THEN disk[b] ELSE cache[b]

Init ==
  /\ disk = [b \in Home |-> Blank]
  /\ dlog = [i \in 1..LOGSIZE |-> Blank]
  /\ dhead = <<>>
  /\ cache = [b \in Home |-> NoData]
  /\ refcnt = [b \in Home |-> 0]
  /\ lh = <<>> /\ outstanding = 0 /\ committing = 0
  /\ boot = "read_head" /\ tail = 0
  /\ pc = [p \in Procs |-> "user"]
  /\ hold = [p \in Procs |-> NoBlock]
  /\ wset = [p \in Procs |-> {}]

-----------------------------------------------------------------------------
(* Starting and ending a call.                                             *)

\* begin_op(): admit the call if the log has room for its reservation next to
\* those of the calls already admitted; otherwise sleep on &log.
LogFull_without_self == Len(lh) + outstanding * MAXOPBLOCKS > LOGSIZE \* mutant
LogFull == Len(lh) + (outstanding + 1) * MAXOPBLOCKS > LOGSIZE

begin_op_during_commit(p) == \* mutant: log.committing is not tested
  /\ boot = "up" /\ pc[p] \in {"user", "begin_op"}
  /\ \/ /\ LogFull
        /\ pc' = [pc EXCEPT ![p] = "sleep"]
        /\ UNCHANGED <<outstanding, wset>>
     \/ /\ ~(LogFull)
        /\ outstanding' = outstanding + 1
        /\ pc' = [pc EXCEPT ![p] = "op"]
        /\ wset' = [wset EXCEPT ![p] = {}]
  /\ UNCHANGED <<onDisk, bufs, lh, committing, boot, tail, hold>>

begin_op(p) ==
  /\ boot = "up" /\ pc[p] \in {"user", "begin_op"}
  /\ \/ /\ committing = 1 \/ LogFull
        /\ pc' = [pc EXCEPT ![p] = "sleep"]
        /\ UNCHANGED <<outstanding, wset>>
     \/ /\ ~(committing = 1 \/ LogFull)
        /\ outstanding' = outstanding + 1
        /\ pc' = [pc EXCEPT ![p] = "op"]
        /\ wset' = [wset EXCEPT ![p] = {}]
  /\ UNCHANGED <<onDisk, bufs, lh, committing, boot, tail, hold>>

\* wakeup(&log): every thread asleep in begin_op() runs its loop again.
Awake == [q \in Procs |-> IF pc[q] = "sleep" THEN "begin_op" ELSE pc[q]]

\* kill() makes a sleeping thread runnable without any wakeup(&log).
kill(p) ==
  /\ pc[p] = "sleep"
  /\ pc' = [pc EXCEPT ![p] = "begin_op"]
  /\ UNCHANGED <<onDisk, bufs, lh, outstanding, committing, boot, tail, hold,
                 wset>>

\* end_op(), up to the call of commit(): the last call of the group commits,
\* any other one has given up its reservation and wakes the sleepers.
end_op(p) ==
  /\ pc[p] = "op"
  /\ outstanding' = outstanding - 1
  /\ tail' = 0
  /\ \/ /\ committing = 1
        /\ pc' = [pc EXCEPT ![p] = "panic"]
        /\ UNCHANGED committing
     \/ /\ committing = 0 /\ outstanding' = 0
        /\ committing' = 1
        /\ pc' = [pc EXCEPT ![p] =
                    IF lh = <<>> THEN "end_commit" ELSE "write_log"]
     \/ /\ committing = 0 /\ outstanding' # 0
        /\ pc' = [Awake EXCEPT ![p] = "user"]
        /\ UNCHANGED committing
  /\ UNCHANGED <<onDisk, bufs, lh, boot, hold, wset>>

-----------------------------------------------------------------------------
(* Buffers: reads in or out of a call, and writes in a call.               *)

\* bget() counts the reference, and then waits for the sleep-lock.
bget(p, b) ==
  /\ boot = "up" /\ pc[p] \in {"user", "op"}
  /\ pc' = [pc EXCEPT ![p] = IF pc[p] = "op" THEN "op_wait" ELSE "read_wait"]
  /\ hold' = [hold EXCEPT ![p] = b]
  /\ refcnt' = [refcnt EXCEPT ![b] = (@ + 1) % RefMod]
  /\ UNCHANGED <<onDisk, cache, lh, outstanding, committing, boot, tail, wset>>

\* bread(), once acquiresleep() has the lock: reads the disk if it must.
bread(p) ==
  /\ pc[p] \in {"read_wait", "op_wait"} /\ ~Held(hold[p])
  /\ pc' = [pc EXCEPT ![p] = IF pc[p] = "op_wait" THEN "locked" ELSE "reading"]
  /\ cache' = [cache EXCEPT ![hold[p]] = Contents(hold[p])]
  /\ UNCHANGED <<onDisk, refcnt, lh, outstanding, committing, boot, tail, hold, wset>>

\* The caller stores d in the buffer it holds and calls log_write(), whose two
\* tests read log.lh.n and log.outstanding without log.lock.
log_write_check(p, d) ==
  /\ pc[p] = "locked"
  /\ Cardinality(wset[p] \cup {hold[p]}) <= OpWrites
  /\ cache' = [cache EXCEPT ![hold[p]] = d]
  /\ pc' = [pc EXCEPT ![p] =
              IF Len(lh) >= LOGSIZE \/ Len(lh) >= NLog - 1 \/ outstanding < 1
                THEN "panic" ELSE "log_write"]
  /\ UNCHANGED <<onDisk, refcnt, lh, outstanding, committing, boot, tail, hold,
                 wset>>

log_write_without_pin(p) == \* mutant: no bpin()
  /\ pc[p] = "log_write"
  /\ lh' = IF hold[p] \in BlocksOf(lh) THEN lh ELSE Append(lh, hold[p])
  /\ wset' = [wset EXCEPT ![p] = @ \cup {hold[p]}]
  /\ pc' = [pc EXCEPT ![p] = "logged"]
  /\ UNCHANGED <<onDisk, bufs, outstanding, committing, boot, tail, hold>>

\* log_write() under log.lock: absorb the block, or append and pin it.
log_write(p) ==
  /\ pc[p] = "log_write"
  /\ \/ /\ hold[p] \in BlocksOf(lh)
        /\ UNCHANGED <<lh, refcnt>>
     \/ /\ hold[p] \notin BlocksOf(lh)
        /\ lh' = Append(lh, hold[p])
        /\ refcnt' = [refcnt EXCEPT ![hold[p]] = (@ + 1) % RefMod]
  /\ wset' = [wset EXCEPT ![p] = @ \cup {hold[p]}]
  /\ pc' = [pc EXCEPT ![p] = "logged"]
  /\ UNCHANGED <<onDisk, cache, outstanding, committing, boot, tail, hold>>

brelse(p) ==
  /\ pc[p] \in {"reading", "locked", "logged"}
  /\ pc' = [pc EXCEPT ![p] = IF pc[p] = "reading" THEN "user" ELSE "op"]
  /\ refcnt' = [refcnt EXCEPT ![hold[p]] = (@ - 1) % RefMod]
  /\ hold' = [hold EXCEPT ![p] = NoBlock]
  /\ UNCHANGED <<onDisk, cache, lh, outstanding, committing, boot, tail, wset>>

\* bget() for some other block recycles a buffer whose reference count is 0.
\* (Recycling a buffer that a thread still has, after the count has wrapped, is
\* left to a model of bio.c itself.)
recycle(b) ==
  /\ CachePressure
  /\ cache[b] # NoData /\ refcnt[b] = 0 /\ \A p \in Procs : hold[p] # b
  /\ cache' = [cache EXCEPT ![b] = NoData]
  /\ UNCHANGED <<onDisk, refcnt, lh, outstanding, committing, boot, tail, pc,
                 hold, wset>>

-----------------------------------------------------------------------------
(* commit(), run by the last end_op() of the group without log.lock.       *)

Block == lh[tail + 1]
LastBlock == tail + 1 = Len(lh)
NextTail == IF LastBlock THEN 0 ELSE tail + 1

write_log_all_but_last(p) == \* mutant: the loop ends one block early
  /\ pc[p] = "write_log" /\ ~Held(Block)
  /\ cache' = [cache EXCEPT ![Block] = Contents(Block)]
  /\ dlog' = IF LastBlock THEN dlog ELSE [dlog EXCEPT ![tail + 1] = Contents(Block)]
  /\ tail' = NextTail
  /\ pc' = [pc EXCEPT ![p] = IF LastBlock THEN "write_head" ELSE @]
  /\ UNCHANGED <<disk, dhead, refcnt, lh, outstanding, committing, boot, hold, wset>>

write_log(p) ==
  /\ pc[p] = "write_log" /\ ~Held(Block)
  /\ cache' = [cache EXCEPT ![Block] = Contents(Block)]
  /\ dlog' = [dlog EXCEPT ![tail + 1] = Contents(Block)]
  /\ tail' = NextTail
  /\ pc' = [pc EXCEPT ![p] = IF LastBlock THEN "write_head" ELSE @]
  /\ UNCHANGED <<disk, dhead, refcnt, lh, outstanding, committing, boot, hold,
                 wset>>

write_head(p) ==
  /\ pc[p] = "write_head"
  /\ dhead' = lh
  /\ pc' = [pc EXCEPT ![p] = "install_trans"]
  /\ UNCHANGED <<disk, dlog, bufs, lh, outstanding, committing, boot, tail,
                 hold, wset>>

\* One turn of install_trans(): bread(), bwrite(), bunpin() and brelse() of the
\* home block leave its count one lower.  Recovery runs the same loop.
InstallBlock ==
  /\ ~Held(Block)
  /\ disk' = [disk EXCEPT ![Block] = dlog[tail + 1]]
  /\ cache' = [cache EXCEPT ![Block] = dlog[tail + 1]]
  /\ refcnt' = [refcnt EXCEPT ![Block] = (@ - 1) % RefMod]
  /\ tail' = NextTail

install_trans(p) ==
  /\ pc[p] = "install_trans"
  /\ InstallBlock
  /\ pc' = [pc EXCEPT ![p] = IF LastBlock THEN "clear_head" ELSE @]
  /\ UNCHANGED <<dlog, dhead, lh, outstanding, committing, boot, hold, wset>>

clear_head_on_disk_only(p) == \* mutant: log.lh.n is not reset
  /\ pc[p] = "clear_head"
  /\ dhead' = <<>>
  /\ pc' = [pc EXCEPT ![p] = "end_commit"]
  /\ UNCHANGED <<disk, dlog, bufs, lh, outstanding, committing, boot, tail, hold, wset>>

clear_head(p) ==
  /\ pc[p] = "clear_head"
  /\ lh' = <<>> /\ dhead' = <<>>
  /\ pc' = [pc EXCEPT ![p] = "end_commit"]
  /\ UNCHANGED <<disk, dlog, bufs, outstanding, committing, boot, tail, hold,
                 wset>>

end_commit_without_wakeup(p) == \* mutant: no wakeup(&log)
  /\ pc[p] = "end_commit"
  /\ committing' = 0
  /\ pc' = [pc EXCEPT ![p] = "user"]
  /\ UNCHANGED <<onDisk, bufs, lh, outstanding, boot, tail, hold, wset>>

end_commit(p) ==
  /\ pc[p] = "end_commit"
  /\ committing' = 0
  /\ pc' = [Awake EXCEPT ![p] = "user"]
  /\ UNCHANGED <<onDisk, bufs, lh, outstanding, boot, tail, hold, wset>>

-----------------------------------------------------------------------------
(* Crash and recovery.  fsinit() runs in the first process, before any     *)
(* other thread can start a call.                                          *)

crash ==
  /\ CanCrash
  /\ cache' = [b \in Home |-> NoData]
  /\ refcnt' = [b \in Home |-> 0]
  /\ lh' = <<>> /\ outstanding' = 0 /\ committing' = 0
  /\ boot' = "read_head" /\ tail' = 0
  /\ pc' = [p \in Procs |-> "user"]
  /\ hold' = [p \in Procs |-> NoBlock]
  /\ wset' = [p \in Procs |-> {}]
  /\ UNCHANGED onDisk

read_head ==
  /\ boot = "read_head"
  /\ lh' = dhead
  /\ boot' = IF dhead = <<>> THEN "clear_head" ELSE "install_trans"
  /\ UNCHANGED <<onDisk, bufs, outstanding, committing, tail, pc, hold, wset>>

recover_install ==
  /\ boot = "install_trans"
  /\ InstallBlock
  /\ boot' = IF LastBlock THEN "clear_head" ELSE boot
  /\ UNCHANGED <<dlog, dhead, lh, outstanding, committing, pc, hold, wset>>

recover_clear ==
  /\ boot = "clear_head"
  /\ lh' = <<>> /\ dhead' = <<>>
  /\ boot' = "up"
  /\ UNCHANGED <<disk, dlog, bufs, outstanding, committing, tail, pc, hold, wset>>

-----------------------------------------------------------------------------
committer(p) == \/ write_log(p) \/ write_head(p) \/ install_trans(p)
                \/ clear_head(p) \/ end_commit(p)

recovery == read_head \/ recover_install \/ recover_clear

Next ==
  \/ \E p \in Procs : begin_op(p) \/ kill(p) \/ end_op(p)
  \/ \E p \in Procs, b \in Home : bget(p, b)
  \/ \E p \in Procs, d \in Data : log_write_check(p, d)
  \/ \E p \in Procs : bread(p) \/ log_write(p) \/ brelse(p) \/ committer(p)
  \/ \E b \in Home : recycle(b)
  \/ crash
  \/ recovery

Spec == Init /\ [][Next]_vars

\* The fairness of the liveness run.  A thread that is past the start of a call
\* or of a read and is not asleep keeps running (the scheduler visits every
\* runnable process, and timer interrupts force yields).  A call touches a
\* bounded number of buffers, so one that can reach end_op() time and again
\* gets there.
Continue(p) == \/ pc[p] = "begin_op" /\ begin_op(p)
               \/ bread(p) \/ log_write(p) \/ brelse(p) \/ committer(p)

FairSpec ==
  /\ Spec
  /\ \A p \in Procs : WF_vars(Continue(p)) /\ SF_vars(end_op(p))
  /\ WF_vars(recovery)

-----------------------------------------------------------------------------
(* Properties.                                                             *)

\* The disk, the cache and struct log hold values the code can give them.
TypeOK ==
  /\ disk \in [Home -> Data] /\ dlog \in [1..LOGSIZE -> Data]
  /\ dhead \in Seq(Home) /\ lh \in Seq(Home)
  /\ cache \in [Home -> Data \cup {NoData}]
  /\ refcnt \in [Home -> 0..RefMod - 1]
  /\ outstanding \in Nat /\ committing \in {0, 1}
  /\ boot \in {"read_head", "install_trans", "clear_head", "up"}
  /\ tail \in Nat
  /\ pc \in [Procs -> PCs]
  /\ hold \in [Procs -> Home \cup {NoBlock}]
  /\ wset \in [Procs -> SUBSET Home]

\* No interleaving of calls reaches a panic() of log.c: begin_op()'s
\* reservations keep log_write() below its capacity test, which it makes
\* without the lock, and nobody ends a call while a commit runs.
NoPanic == \A p \in Procs : pc[p] # "panic"

\* The blocks logged by a group fit into the data blocks of the on-disk log
\* (nlog - 1 of them, after the header): write_log() never runs past the log
\* into the inode blocks that follow it, although two threads may pass
\* log_write()'s unlocked test on the same value of log.lh.n.
LogFits == Len(lh) <= NLog - 1

\* A logged block stays in the cache until the group is committed: bpin() keeps
\* bget() from recycling the only copy of its new content.
LoggedStayCached ==
  boot = "up" /\ dhead = <<>> => \A b \in BlocksOf(lh) : cache[b] # NoData

\* What a boot from the current disk would leave in the home blocks.
Durable ==
  [b \in Home |-> IF b \in BlocksOf(dhead)
                     THEN dlog[CHOOSE i \in 1..Len(dhead) : dhead[i] = b]
                     ELSE disk[b]]

Volatile == IF boot = "up" THEN [b \in Home |-> Contents(b)] ELSE Durable

Active == {p \in Procs : pc[p] \in InOp}

Tx == INSTANCE TxDisk WITH durable <- Durable, volatile <- Volatile,
                           active <- Active

\* Calls are atomic across crashes: log.c implements the transactional disk,
\* with write_head() of commit() as the one step that makes a group durable.
ImplementsTxDisk == Tx!AbsSpec

\* When no call is open and no commit runs, everything ever written is durable
\* and the log is empty: the end_op() that returns last has made it so.
DurableWhenQuiet ==
  boot = "up" /\ outstanding = 0 /\ committing = 0 =>
    lh = <<>> /\ dhead = <<>> /\ Volatile = Durable

-----------------------------------------------------------------------------
(* The inductive invariant behind NoPanic and LogFits.                     *)

CommitPCs == {"write_log", "write_head", "install_trans", "clear_head", "end_commit"}

\* log.outstanding counts the open calls; a commit has the log to itself, and
\* one thread runs it; recovery runs before any thread starts.
Threads ==
  /\ outstanding = Cardinality(Active)
  /\ committing = 1 => Active = {}
  /\ \A p \in Procs : pc[p] \in CommitPCs => committing = 1
  /\ \A p, q \in Procs : pc[p] \in CommitPCs /\ pc[q] \in CommitPCs => p = q
  /\ boot # "up" => \A p \in Procs : pc[p] = "user"
  /\ \A p \in Procs : pc[p] \in {"read_wait", "op_wait", "reading", "locked",
                                  "log_write", "logged"} => hold[p] \in Home

\* The loops over log.lh stay inside it.
Loops ==
  /\ boot = "install_trans" => tail < Len(lh)
  /\ \A p \in Procs : pc[p] \in {"write_log", "install_trans"} => tail < Len(lh)
  /\ boot = "read_head" => tail = 0
  /\ \A p \in Procs : pc[p] = "write_head" => tail = 0 /\ lh # <<>>

\* What the open calls may still add to the log, block by block: the blocks of
\* its reservation that a call has not used yet.
Reserved ==
  {r \in Active \X (1..MAXOPBLOCKS) : Cardinality(wset[r[1]]) < r[2]}

\* What is in the log and what may still be added fits into LOGSIZE, and a
\* call's own blocks are in the log as long as the call is open.
Room ==
  /\ Len(lh) + Cardinality(Reserved) <= LOGSIZE
  /\ Len(dhead) <= LOGSIZE
  /\ \A p \in Active : wset[p] \subseteq BlocksOf(lh)
  /\ \A p \in Procs : pc[p] = "log_write" =>
       Cardinality(wset[p] \cup {hold[p]}) <= OpWrites

\* Calls that leave two blocks of their reservation unused, one for the log's
\* header and one because log_write() makes its test before it finds out that
\* the block is logged already; and a log as long as begin_op() believes.  Both
\* hold of the code: its calls write 7 of the 10 blocks at most, and mkfs makes
\* nlog = LOGSIZE.
Headroom == OpWrites + 2 <= MAXOPBLOCKS /\ LOGSIZE <= NLog

\* The invariant whose induction step carries NoPanic and LogFits: the
\* bookkeeping of begin_op(), end_op() and log_write() never loses count.
LogInv ==
  /\ TypeOK /\ Threads /\ Loops /\ Room
  /\ Headroom => NoPanic /\ LogFits /\ Len(dhead) <= NLog - 1

-----------------------------------------------------------------------------
\* A thread starts something new: a call is admitted, or a read begins.
Start == \/ \E p \in Procs : begin_op(p) /\ outstanding' # outstanding
         \/ \E p \in Procs, b \in Home : pc[p] = "user" /\ bget(p, b)

\* If threads stop starting calls and reads, all of them finish and every write
\* becomes durable: no wakeup(&log) is lost, and nobody, the committer included,
\* waits for a buffer or for log space forever.
EventuallyDurable ==
  \/ []<><<Start>>_vars
  \/ <>[](/\ \A p \in Procs : pc[p] = "user"
          /\ Volatile = Durable)
=============================================================================
