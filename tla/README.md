# A TLA+ model of the xv6 kernel

This directory models the kernel in `src/kernel` (xv6 for RISC-V) in TLA+,
checks the models with TLC on small instances, and proves the central
invariants with TLAPS for every instance. `PROJECT.json` has the same facts for
tools: every run, every definition with its source lines, findings and hazards.

Two components are complete enough to rely on: the **redo log** (`log.c`) and the
**process table** (`proc.c`, with the traps and the timer). The rest of the
kernel is in the inventory and in the plan at the end.

## 1. Inventory

| Part | State | Operations | Interacts with | Hard behaviour |
|---|---|---|---|---|
| log (`log.c`) | `log.lh`, `outstanding`, `committing`, on-disk log | `begin_op`, `log_write`, `end_op`, `commit`, recovery | buffer cache, disk, sleep/wakeup | crash between any two writes, unlocked capacity test, pins |
| process table (`proc.c`, `swtch.S`) | `proc[]`, `cpus[]`, per-process locks | `fork`, `exit`, `wait`, `kill`, `sleep`, `wakeup`, `yield`, `scheduler` | traps, everything that sleeps | lost wakeups, lock order, unlocked reads of `parent` |
| traps and timer (`trap.c`) | `ticks`, `tickslock` | `usertrap`, `kerneltrap`, `devintr`, `clockintr` | process table | interrupts at any point where no lock is held |
| process calls (`sysproc.c`) | none | `sys_sleep`, `sys_kill`, ... | process table, `ticks` | tick between test and sleep |
| init (`user/init.c`) | its shell's pid | fork, wait, restart | process table | adopts orphans |
| buffer cache (`bio.c`) | LRU list, reference counts | `bget`, `bread`, `bwrite`, `brelse`, `bpin`, `bunpin` | log, disk | recycling a buffer still needed |
| locks (`spinlock.c`, `sleeplock.c`) | holder, `noff`, `intena` | acquire, release | all | nesting, interrupts |
| disk driver (`virtio_disk.c`) | descriptors, rings | `virtio_disk_rw`, `virtio_disk_intr` | buffer cache | completions against sleepers |
| pipe (`pipe.c`) | ring, two open flags | read, write, close | sleep/wakeup, kill | wrapping indices, close against sleep |
| files (`file.c`, `sysfile.c`) | `ftable`, descriptors | open, dup, close, fork | inodes, pipes | reference counts |
| inodes (`fs.c`) | inode cache, bitmap, directories | `iget`, `iput`, `ilock`, `balloc`, `namex` | log | last reference against unlink |
| memory (`kalloc.c`, `vm.c`, `exec.c`) | free list, page tables | `kalloc`, `uvmalloc`, `uvmcopy`, `exec` | process table | failure half way |
| console, UART | two ring buffers | read, write, interrupt | sleep/wakeup | lock held across a sleep |
| user side (`sh.c`, `umalloc.c`, `mkfs.c`) | parser, free list, image layout | | kernel calls | |

Properties that matter: calls are atomic and durable across crashes; nobody
panics or overruns the log; no wakeup is lost; one CPU per kernel stack; every
process can be waited for; no set of CPUs spins for ever.

## 2. Modules

| Module | Models |
|---|---|
| `TxDisk` | what the log promises: a transactional disk |
| `Log` | `log.c`, with the buffer cache as far as the log depends on it |
| `MCLog` | instances of `Log` |
| `LogProofs` | theorems about `Log` |
| `Proc` | `proc.c`, `trap.c`, `sys_sleep()`, init's loop |
| `MCProc` | instances of `Proc` |
| `ProcTableProofs` | lemmas about `Proc`: types, kernel stacks, locks, families |
| `ProcProofs` | theorems about `Proc` |

**Log.** `pc[p]` says where a kernel thread is in `begin_op()`, its writes,
`end_op()` and `commit()`. A critical section under `log.lock` is one action.
`log_write()` is two (`log_write_check`, `log_write`), because its capacity test
comes before the lock. Every disk write of `commit()` and of recovery is an
action, and `crash` may come between any two; it clears everything but `disk`,
`dlog` and `dhead`. `cache` and `refcnt` are the buffers of home blocks, with
the count modulo `RefMod` as `buf.refcnt` is unsigned; `recycle` is `bget()`
taking an unreferenced buffer for another block. A thread counts its reference
in `bget` and has the buffer only after `bread`, which waits until no other thread
holds it; several threads can have a reference to one buffer. A write of one block
is taken to be atomic.
Left out of `Log`: calls that hold two buffers at once (an indirect block while
`bmap()` allocates or `itrunc()` frees), and the recycling of a buffer that a
thread has or waits for. `bget()` tests the count alone; the two differ only when
the count has wrapped, and that case is left to the model of `bio.c`.

**TxDisk.** A volatile and a durable copy of the blocks and the set of threads
inside a call. The durable copy changes only by becoming equal to the volatile
one, at a moment when no call is open. `Log` maps its state to it by `Durable`
(what a boot from this disk would leave), `Volatile` (what `bread()` returns)
and `Active`.

**Proc.** An action runs from one `acquire()` to the next, or to a context
switch. `lock[s]` is the CPU that holds the lock of slot `s`; a process's lock
passes between it and the scheduler of its CPU when they switch, as in the code.
The reads of `parent` without a lock in `reparent()` and `wait()` are steps of
their own (`reparent`, `wait_scan`), before the steps that take the lock
(`reparent_child`, `wait_next`, `wait_reap`). The test of `p->killed` in `wait()`
and the sleep that follows are two steps (`wait_test`, `wait_sleep`), and a CPU may
run `kill()` between them as far as the locks let it. `exit()` is `exit`,
`exit_parent`, `exit_lock_parent`, `exit_lock`, the loop of `reparent()` and
`exit_zombie`. The
timer interrupts a CPU wherever it holds no lock; on CPU 0 it first runs
`clockintr()` and the loop of `wakeup(&ticks)`, one slot a step. `usertrap` is
the entry of a system call or a fault; after a call the process goes to user code,
or to `exit()` when it has been killed by then (`After`).
init follows `user/init.c`: it forks a shell, waits until that shell is reaped, and exits (a panic) if `fork()` fails
or it is killed.
Left out of `Proc`: pids (`kill()` may meet any slot, since a slot that is not
in use has a pid too: 0, or the one of a `fork()` that had no page for the
trapframe), exit statuses, memory, the interrupts of the UART and the disk, the
return to user space, and the closing of files in `exit()`, which sleeps on other
channels before the steps that are modelled. Loops that take one
lock at a time and stop at the first match may choose any matching slot.

## 3. Runs

| Run | Checks | Instance | Distinct states |
|---|---|---|---|
| `log_crash` | `LogInv`, `DurableWhenQuiet`, `ImplementsTxDisk` | crashes | 1,016,376 |
| `log_capacity` | `NoPanic`, `LogFits` | 2 threads, 6 blocks, 2 writes of 3 reserved | 43,656 |
| `log_live` | `LoggedStayCached`, `ImplementsTxDisk`, `EventuallyDurable` | `FairSpec`, buffers recycled, no crash | 281,878 |
| `proc_table` | `ProcInv`, `NoLostWakeup`, `NoLostKill`, `ParentStable`, `LiveParent` | 3 slots, 3 CPUs, kill and faults | 328,519 |
| `proc_preempt` | `OneStackPerCPU`, `NoSpinCycle` | 3 slots, 2 CPUs, timer | 499,448 |
| `proc_sleep` | `NoMissedTick`, `NoSpinCycle` | 3 slots, 2 CPUs, timer, `sys_sleep` | 717,108 |
| `proc_live` | `WaitReturns` | `FairSpec`, 3 slots, 2 CPUs | 9,661 |

Runs that show a disagreement between the code and what it says of itself:

| Run | Violates | What happens |
|---|---|---|
| `log_unpin` | `LoggedStayCached` | recovery unpins blocks that nobody pinned; the count wraps, and the next logged update of such a block can be recycled before its commit |
| `log_full` | `NoPanic` | `begin_op()` admits calls for `LOGSIZE` blocks, the log has one less |
| `proc_init` | `InitReaps` | a process in `exit()` copies `original_parent`; its parent exits, gives it to init and is reaped, and a new shell takes the slot; the process becomes a zombie and wakes that slot, and init sleeps on beside the zombie |
| `proc_newborn` | `BornAlive` | `kill()` marks a slot that is not in use; the next process there is born killed |
| `proc_deadlock` | `NoSpinCycle` | `exit()` locks its former parent's slot, now its grandchild's, against the lock order |

`log_full` needs calls that write all `MAXOPBLOCKS` blocks they reserve, as
`param.h` says they may; in the same instance two calls can pass the unlocked
test of `log_write()` together and overrun the log (`LogFits`). The calls of this
repository write fewer, and `LogCapacity` below shows that this is what keeps the
kernel safe.
`proc_init` is the race that the comment at `proc.c:327` calls harmless; the zombie
stays until some other process exits. The child is no zombie yet when it is handed
over. A child that is one already can reach a sleeping init too, as `exit()` wakes
init before the hand-over (`proc.c:321`), but that takes four processes (init, a
parent, a process and its zombie child), and TLC does not finish a liveness run
with four slots; no run shows it.
`log_unpin` needs a crash: only recovery unpins what nobody pinned, so
`LoggedStayCached` holds in `log_live`, which has no crash.
`proc_deadlock` needs four processes, so `NoSpinCycle` holds in the runs with
three slots and is not a theorem.

**Bounds.** `RefMod` and `TickMod` are the widths of `buf.refcnt` and `ticks`,
small enough to wrap. Two threads and two blocks make a group of two calls, an
absorbed block and a partly written group; three slots make init, a parent and a
child, or two siblings, with slots reused; three CPUs let all of them run.
`proc_deadlock` has four slots.
`TickMod = 2` lets the clock wrap; `sys_sleep` is called with `n = 1`.
`proc_table`, `proc_live`, `proc_init`, `proc_newborn` and `proc_deadlock` have
no timer; a process is then switched only when it sleeps or exits, and the other
two runs add preemption. CPUs other than CPU 0 are symmetric, as are threads and
blocks in `MCLog`; runs with a liveness property use no symmetry.

**Fairness.** `Log`: a thread that is past the start of a call and awake goes on
(weak fairness), because the scheduler scans all slots and the timer forces
yields. `end_op` has strong fairness: a call touches a bounded number of buffers.
`Proc`: a CPU goes on with the kernel code it is in, and gets a spin-lock that is
free time and again (strong fairness of `Kernel`; a test-and-set lock is no queue,
so this much is assumed of `amoswap`: without it a child that calls `wait()` in a
loop can keep its lock from init for ever). The round-robin scan reaches every
runnable process (strong fairness of `scheduler`). User programs need not do
anything; `proc_live` has as many CPUs as processes that can run beside the
zombie, so it needs no timer. It has three slots: with four, the processes in the
deadlock of `proc_deadlock` never move again.

Every property has a mutant in `PROJECT.json`: a variant of one action, defined
next to it, that changes the code as a plausible bug would and violates the
property.

## 4. Proofs

`LogProofs`, from `LogConstants` alone:

- `LogInvariant`: `Spec => []LogInv`. `outstanding` counts the open calls, one
  thread commits at a time and only while no call is open, loops stay inside
  `log.lh`, and what is logged plus what open calls may still log is at most
  `LOGSIZE`. The last part (`Room`) makes the invariant inductive: `NoPanic` and
  `LogFits` say nothing about the blocks that admitted calls have yet to write.
- `LogCapacity`: if calls leave two blocks of their reservation free (`Headroom`),
  `NoPanic` and `LogFits` hold for every log size. One block pays for the header,
  the other for the test that `log_write()` makes before it knows that a block is
  in the log already. TLC finds one block enough in the instance of
  `log_capacity`.

`ProcTableProofs` and `ProcProofs`, from `ProcConstants` alone:

- `ProcInvariant`: `Spec => []ProcInv`. Next to the properties themselves it needs
  `Locks` (which CPU holds what at each place of `exit()` and `wait()`),
  `Families` (init stays, free slots have no parent), `Exits` (slots that
  `reparent()` has passed are no children) and `Waits` (children that the scan of
  `wait()` has passed are no zombies, and a process about to sleep there is not
  killed). One lemma per conjunct goes through the
  actions; the heart of `WakeupStep` and `WaitsStep` is that a child needs its
  parent's lock to become a zombie and `wait()` holds that lock from scan to sleep.
  `KillStep` rests on the same lock: `kill()` needs it to set `killed`.
  For init this is true of its own shell (`OwnChild`); orphans are another matter,
  as `proc_init` shows.
- `OneCPU`, `WaitLosesNoWakeup`, `WaitLosesNoKill`, `UnlockedParentReads` and `NoOrphans` follow.

Only model-checked: the refinement of `TxDisk`, `DurableWhenQuiet`,
`LoggedStayCached`, `NoMissedTick`, `NoSpinCycle`, and the liveness
properties (TLAPS has no support for fairness and `ENABLED`). What a recursive
definition computes for every input, and modules with RECURSIVE operators, are
out of the prover's reach too; the project has neither so far.

## 5. Not modelled, and the plan

In this order:

1. `Pipe` (ring with wrapping indices, close, killed readers and writers; an
   abstract byte queue that it implements) and `Bio` (LRU list, `bget()` on two
   CPUs, sleep-locks, calls with two buffers, a buffer recycled while held after `log_unpin`).
2. `Virtio` (descriptors, rings, completions) and `Uart`/`Console`.
3. `File` (table, descriptors, fork, close), `Inode` (cache, link counts, block
   allocation, unlink against open, crash leaks), names and paths.
4. `Vm` (`kalloc`, `uvmalloc`, `uvmcopy`, `exec` with failures), `Spinlock`
   (`push_off` nesting), user-side `umalloc` and the shell's parser.
5. Proofs: `ImplementsTxDisk`, `NoMissedTick`, then the inductive
   invariants of the new modules.

Out of scope: boot code, register saving and the interrupt controller
(straight-line hardware set-up), formatting and string functions (no state), the
test programs.
