-------------------------------- MODULE Proc --------------------------------
(***************************************************************************)
(* The process table of kernel/proc.c: fork(), exit(), wait(), kill(),     *)
(* sleep() and wakeup(), yield() and the per-CPU scheduler, with the traps *)
(* and the timer interrupt of kernel/trap.c and sys_sleep() of             *)
(* kernel/sysproc.c.                                                       *)
(*                                                                         *)
(* An action runs from one acquire() to the next one, or to a switch of    *)
(* context.  A spin-lock is held by a CPU, as in kernel/spinlock.c, and a  *)
(* process's lock is handed over between the process and the scheduler of  *)
(* its CPU when they switch.  Reads of another process's parent field are  *)
(* not under its lock, and are steps of their own.                         *)
(*                                                                         *)
(* Loops over the table that take one lock at a time and stop at the first *)
(* match (allocproc(), kill(), scheduler()) choose any slot that matches.  *)
(* Pids are left out: kill() takes the slot whose pid it is given, and a   *)
(* slot that is not in use has one too (0, or the pid of a fork() that had *)
(* no page for the trapframe).                                             *)
(***************************************************************************)
EXTENDS Integers, FiniteSets

CONSTANTS
  NPROC,      \* number of slots of the process table
  CPUs,       \* the CPUs
  Cpu0,       \* the CPU that runs clockintr()
  NoCpu,      \* lock[s] = NoCpu: the lock is free
  TickMod,    \* 2^w for the width w of ticks
  Calls,      \* the traps of user programs: system calls, and "fault"
  Timer       \* whether there are timer interrupts

ASSUME ProcConstants ==
  /\ NPROC \in Nat \ {0} /\ TickMod \in Nat \ {0, 1}
  /\ Cpu0 \in CPUs /\ NoCpu \notin CPUs
  /\ Calls \subseteq {"fork", "exit", "wait", "kill", "sleep", "fault"}
  /\ Timer \in BOOLEAN

Slots    == 1..NPROC
initproc == 1          \* userinit() takes the first slot
None     == 0          \* no process, and the null channel
Ticks    == -1         \* the channel &ticks; wait() sleeps on its own slot

VARIABLES
  state, parent, chan, killed, \* fields of struct proc
  lock,       \* p->lock of each slot: the CPU that holds it
  cpuproc,    \* c->proc of each CPU
  pc,         \* where each process is
  arg,        \* original_parent in exit(), havekids in wait(), ticks0 in sys_sleep()
  idx,        \* the slot that a loop over the process table has reached
  tickslock,  \* the CPU that holds tickslock
  ticks,      \* the clock
  intr, widx, \* the timer interrupt of Cpu0, and its loop in wakeup()
  shell       \* user/init.c: the shell init waits for, None if it must fork one

clock == <<tickslock, ticks, intr, widx>>
vars == <<state, parent, chan, killed, lock, cpuproc, pc, arg, idx, clock, shell>>

Init ==
  /\ state = [s \in Slots |-> IF s = initproc THEN "RUNNABLE" ELSE "UNUSED"]
  /\ parent = [s \in Slots |-> None]
  /\ chan = [s \in Slots |-> None]
  /\ killed = [s \in Slots |-> 0]
  /\ lock = [s \in Slots |-> NoCpu]
  /\ cpuproc = [c \in CPUs |-> None]
  /\ pc = [s \in Slots |-> "user"]
  /\ arg = [s \in Slots |-> 0]
  /\ idx = [s \in Slots |-> 0]
  /\ tickslock = NoCpu /\ ticks = 0
  /\ intr = "off" /\ widx = 1
  /\ shell = None

\* CPU c executes process p, not its scheduler and not an interrupt handler.
Runs(c, p) ==
  /\ cpuproc[c] = p /\ state[p] = "RUNNING"
  /\ c = Cpu0 => intr = "off"

At(c, p, l) == Runs(c, p) /\ pc[p] = l

Goto(p, l) == pc' = [pc EXCEPT ![p] = l]

\* usertrap(), after a system call: a killed process exits, any other one goes
\* back to its program.
After(p) == IF killed[p] = 1 THEN "exit" ELSE "user"

\* p leaves a function of the kernel, whose local variables end with it.
Leave(p, l) ==
  /\ Goto(p, l)
  /\ arg' = [arg EXCEPT ![p] = 0]
  /\ idx' = [idx EXCEPT ![p] = 0]

Return(p) == Leave(p, After(p))

Free(s) == lock[s] = NoCpu

\* CPU c holds no lock, so that its interrupts are enabled.
Interruptible(c) == tickslock # c /\ \A s \in Slots : lock[s] # c

-----------------------------------------------------------------------------
(* The scheduler and the timer.                                            *)

scheduler_keeps_lock(c, p) == \* mutant: a process back in sleep() keeps its lock
  /\ cpuproc[c] = None /\ (c = Cpu0 => intr = "off")
  /\ Free(p) /\ state[p] = "RUNNABLE"
  /\ state' = [state EXCEPT ![p] = "RUNNING"]
  /\ cpuproc' = [cpuproc EXCEPT ![c] = p]
  /\ chan' = [chan EXCEPT ![p] = None]
  /\ lock' = [lock EXCEPT ![p] = IF pc[p] \in {"wait_scan", "sleep_relock"} THEN c ELSE NoCpu]
  /\ UNCHANGED <<parent, killed, pc, arg, idx, clock, shell>>

\* scheduler(): switch to a runnable process, which returns from sched() with
\* its lock held.  After yield() and in forkret() it releases the lock; in
\* sleep() it clears p->chan first, and wait() goes on with the lock held.
scheduler(c, p) ==
  /\ cpuproc[c] = None /\ (c = Cpu0 => intr = "off")
  /\ Free(p) /\ state[p] = "RUNNABLE"
  /\ state' = [state EXCEPT ![p] = "RUNNING"]
  /\ cpuproc' = [cpuproc EXCEPT ![c] = p]
  /\ chan' = [chan EXCEPT ![p] = None]
  /\ lock' = [lock EXCEPT ![p] = IF pc[p] = "wait_scan" THEN c ELSE NoCpu]
  /\ UNCHANGED <<parent, killed, pc, arg, idx, clock, shell>>

\* scheduler(), after swtch(): the process has changed its state and left its
\* lock to the scheduler, which is off the process's stack now.
swtch_back(c, p) ==
  /\ cpuproc[c] = p /\ state[p] # "RUNNING"
  /\ lock' = [lock EXCEPT ![p] = NoCpu]
  /\ cpuproc' = [cpuproc EXCEPT ![c] = None]
  /\ UNCHANGED <<state, parent, chan, killed, pc, arg, idx, clock, shell>>

\* The timer interrupts process p on CPU c; on Cpu0, after clockintr().
TimerTrap(c, p) ==
  /\ cpuproc[c] = p /\ state[p] = "RUNNING" /\ Interruptible(c)
  /\ IF c = Cpu0 THEN intr = "yield" ELSE Timer
  /\ intr' = IF c = Cpu0 THEN "off" ELSE intr
  /\ UNCHANGED <<parent, chan, killed, cpuproc, arg, idx, tickslock, ticks, widx, shell>>

\* usertrap() and kerneltrap(): yield() on a timer interrupt.
yield(c, p) ==
  /\ TimerTrap(c, p) /\ Free(p)
  /\ pc[p] # "user" \/ killed[p] = 0
  /\ lock' = [lock EXCEPT ![p] = c]
  /\ state' = [state EXCEPT ![p] = "RUNNABLE"]
  /\ UNCHANGED pc

\* usertrap() makes a killed process exit before it would yield.
yield_killed(c, p) ==
  /\ TimerTrap(c, p)
  /\ pc[p] = "user" /\ killed[p] = 1
  /\ Goto(p, "exit")
  /\ UNCHANGED <<state, lock>>

\* A timer interrupt reaches Cpu0.
devintr ==
  /\ Timer /\ intr = "off" /\ Interruptible(Cpu0)
  /\ intr' = "clock"
  /\ UNCHANGED <<state, parent, chan, killed, lock, cpuproc, pc, arg, idx,
                 tickslock, ticks, widx, shell>>

\* clockintr(): ticks++ under tickslock, which it holds for the wakeup().
clockintr ==
  /\ intr = "clock" /\ tickslock = NoCpu
  /\ tickslock' = Cpu0
  /\ ticks' = (ticks + 1) % TickMod
  /\ intr' = "wakeup" /\ widx' = 1
  /\ UNCHANGED <<state, parent, chan, killed, lock, cpuproc, pc, arg, idx, shell>>

\* One turn of the loop of wakeup(&ticks), under the lock of the process.
WakeSlot ==
  /\ intr = "wakeup" /\ Free(widx)
  /\ state' = [state EXCEPT ![widx] =
                 IF @ = "SLEEPING" /\ chan[widx] = Ticks THEN "RUNNABLE" ELSE @]
  /\ UNCHANGED <<parent, chan, killed, lock, cpuproc, pc, arg, idx, ticks, shell>>

wakeup ==
  /\ WakeSlot /\ widx < NPROC
  /\ widx' = widx + 1
  /\ UNCHANGED <<tickslock, intr>>

\* After the last turn tickslock is released, and the interrupted process, if
\* there is one, yields.
wakeup_last ==
  /\ WakeSlot /\ widx = NPROC
  /\ widx' = 1 /\ tickslock' = NoCpu
  /\ intr' = IF cpuproc[Cpu0] = None THEN "off" ELSE "yield"

-----------------------------------------------------------------------------
(* System calls.                                                           *)

\* usertrap() on a system call or a fault: a killed process exits instead, and a
\* fault kills.  init runs user/init.c: it forks a shell and waits until that
\* shell has exited.
usertrap(c, p, call) ==
  /\ At(c, p, "user") /\ call \in Calls
  /\ p = initproc => call = IF shell = None THEN "fork" ELSE "wait"
  /\ killed' = [killed EXCEPT ![p] = IF call = "fault" THEN 1 ELSE @]
  /\ Goto(p, IF killed[p] = 1 \/ call = "fault" THEN "exit" ELSE call)
  /\ UNCHANGED <<state, parent, chan, lock, cpuproc, arg, idx, clock, shell>>

\* fork(): allocproc() takes the lock of an UNUSED slot, and everything else
\* happens under it.
fork(c, p, np) ==
  /\ At(c, p, "fork") /\ Free(np) /\ state[np] = "UNUSED"
  /\ parent' = [parent EXCEPT ![np] = p]
  /\ state' = [state EXCEPT ![np] = "RUNNABLE"]
  /\ pc' = [pc EXCEPT ![np] = "user", ![p] = After(p)]
  /\ shell' = IF p = initproc THEN np ELSE shell
  /\ UNCHANGED <<chan, killed, lock, cpuproc, arg, idx, clock>>

\* fork() finds no slot, or no page for the trapframe: the slot stays as it is.
\* user/init.c exits when its fork() fails.
fork_fails(c, p) ==
  /\ At(c, p, "fork")
  /\ Goto(p, IF p = initproc THEN "exit" ELSE After(p))
  /\ UNCHANGED <<state, parent, chan, killed, lock, cpuproc, arg, idx, clock, shell>>

\* fork() has no memory for the page table or for the copy: freeproc().
fork_undone(c, p, np) ==
  /\ At(c, p, "fork") /\ Free(np) /\ state[np] = "UNUSED"
  /\ parent' = [parent EXCEPT ![np] = None]
  /\ chan' = [chan EXCEPT ![np] = None]
  /\ killed' = [killed EXCEPT ![np] = 0]
  /\ Goto(p, IF p = initproc THEN "exit" ELSE After(p))
  /\ UNCHANGED <<state, lock, cpuproc, arg, idx, clock, shell>>

kill_unlocked(c, p, t) == \* mutant: the lock of the slot is not taken
  /\ At(c, p, "kill")
  /\ killed' = [killed EXCEPT ![t] = 1]
  /\ state' = [state EXCEPT ![t] = IF @ = "SLEEPING" THEN "RUNNABLE" ELSE @]
  /\ Goto(p, IF t = p THEN "exit" ELSE After(p))
  /\ UNCHANGED <<parent, chan, lock, cpuproc, arg, idx, clock, shell>>

\* kill(): the slot with that pid, in whatever state it is.
kill(c, p, t) ==
  /\ At(c, p, "kill") /\ Free(t)
  /\ killed' = [killed EXCEPT ![t] = 1]
  /\ state' = [state EXCEPT ![t] = IF @ = "SLEEPING" THEN "RUNNABLE" ELSE @]
  /\ Goto(p, IF t = p THEN "exit" ELSE After(p))
  /\ UNCHANGED <<parent, chan, lock, cpuproc, arg, idx, clock, shell>>

\* kill() finds no slot with that pid.
kill_none(c, p) ==
  /\ At(c, p, "kill")
  /\ Goto(p, After(p))
  /\ UNCHANGED <<state, parent, chan, killed, lock, cpuproc, arg, idx, clock, shell>>

-----------------------------------------------------------------------------
(* exit().                                                                 *)

\* wakeup1(p): the state of p after it, woken if p sleeps in wait().
wakeup1(p) == IF state[p] = "SLEEPING" /\ chan[p] = p THEN "RUNNABLE" ELSE state[p]

\* panic("init exiting"): the CPU loops for ever.
exit_init(c, p) ==
  /\ At(c, p, "exit") /\ p = initproc
  /\ Goto(p, "panic")
  /\ UNCHANGED <<state, parent, chan, killed, lock, cpuproc, arg, idx, clock, shell>>

panic(c, p) == At(c, p, "panic") /\ UNCHANGED vars

\* Wake init, in case a child is about to be given to it.
exit(c, p) ==
  /\ At(c, p, "exit") /\ p # initproc /\ Free(initproc)
  /\ state' = [state EXCEPT ![initproc] = wakeup1(initproc)]
  /\ Goto(p, "exit_parent")
  /\ UNCHANGED <<parent, chan, killed, lock, cpuproc, arg, idx, clock, shell>>

exit_parent_keeps_lock(c, p) == \* mutant: p->lock is not released before the parent's
  /\ At(c, p, "exit_parent") /\ Free(p)
  /\ arg' = [arg EXCEPT ![p] = parent[p]]
  /\ lock' = [lock EXCEPT ![p] = c]
  /\ Goto(p, "exit_lock_parent")
  /\ UNCHANGED <<state, parent, chan, killed, cpuproc, idx, clock, shell>>

exit_parent_leaves(c, p) == \* mutant: a process gives itself to init
  /\ At(c, p, "exit_parent") /\ Free(p)
  /\ arg' = [arg EXCEPT ![p] = parent[p]]
  /\ parent' = [parent EXCEPT ![p] = initproc]
  /\ Goto(p, "exit_lock_parent")
  /\ UNCHANGED <<state, chan, killed, lock, cpuproc, idx, clock, shell>>

\* original_parent = p->parent, under p->lock.
exit_parent(c, p) ==
  /\ At(c, p, "exit_parent") /\ Free(p)
  /\ arg' = [arg EXCEPT ![p] = parent[p]]
  /\ Goto(p, "exit_lock_parent")
  /\ UNCHANGED <<state, parent, chan, killed, lock, cpuproc, idx, clock, shell>>

exit_lock_parent_unlocked(c, p) == \* mutant: the parent's lock is not taken
  /\ At(c, p, "exit_lock_parent") /\ Free(arg[p])
  /\ Goto(p, "exit_lock")
  /\ UNCHANGED <<state, parent, chan, killed, lock, cpuproc, arg, idx, clock, shell>>

exit_lock_parent(c, p) ==
  /\ At(c, p, "exit_lock_parent") /\ Free(arg[p])
  /\ lock' = [lock EXCEPT ![arg[p]] = c]
  /\ Goto(p, "exit_lock")
  /\ UNCHANGED <<state, parent, chan, killed, cpuproc, arg, idx, clock, shell>>

exit_lock(c, p) ==
  /\ At(c, p, "exit_lock") /\ Free(p)
  /\ lock' = [lock EXCEPT ![p] = c]
  /\ idx' = [idx EXCEPT ![p] = 1]
  /\ Goto(p, "reparent")
  /\ UNCHANGED <<state, parent, chan, killed, cpuproc, arg, clock, shell>>

\* reparent() reads the parent field of the next slot, without its lock.
reparent(c, p) ==
  /\ At(c, p, "reparent") /\ idx[p] <= NPROC /\ parent[idx[p]] = p
  /\ Goto(p, "reparent_lock")
  /\ UNCHANGED <<state, parent, chan, killed, lock, cpuproc, arg, idx, clock, shell>>

reparent_skip(c, p) ==
  /\ At(c, p, "reparent") /\ idx[p] <= NPROC /\ parent[idx[p]] # p
  /\ idx' = [idx EXCEPT ![p] = @ + 1]
  /\ UNCHANGED <<state, parent, chan, killed, lock, cpuproc, pc, arg, clock, shell>>

reparent_child_skips(c, p) == \* mutant: the slot after a child is passed over
  /\ At(c, p, "reparent_lock") /\ Free(idx[p])
  /\ parent' = [parent EXCEPT ![idx[p]] = initproc]
  /\ idx' = [idx EXCEPT ![p] = @ + 2]
  /\ Goto(p, "reparent")
  /\ UNCHANGED <<state, chan, killed, lock, cpuproc, arg, clock, shell>>

reparent_child(c, p) ==
  /\ At(c, p, "reparent_lock") /\ Free(idx[p])
  /\ parent' = [parent EXCEPT ![idx[p]] = initproc]
  /\ idx' = [idx EXCEPT ![p] = @ + 1]
  /\ Goto(p, "reparent")
  /\ UNCHANGED <<state, chan, killed, lock, cpuproc, arg, clock, shell>>

exit_zombie_one_short(c, p) == \* mutant: the loop of reparent() ends one slot early
  /\ At(c, p, "reparent") /\ idx[p] >= NPROC
  /\ state' = [state EXCEPT ![arg[p]] = wakeup1(arg[p]), ![p] = "ZOMBIE"]
  /\ lock' = [lock EXCEPT ![arg[p]] = NoCpu]
  /\ Leave(p, "user")
  /\ UNCHANGED <<parent, chan, killed, cpuproc, clock, shell>>

\* Wake the parent, become a zombie, release the parent's lock, and switch to
\* the scheduler with p's own lock held.
exit_zombie(c, p) ==
  /\ At(c, p, "reparent") /\ idx[p] > NPROC
  /\ state' = [state EXCEPT ![arg[p]] = wakeup1(arg[p]), ![p] = "ZOMBIE"]
  /\ lock' = [lock EXCEPT ![arg[p]] = NoCpu]
  /\ Leave(p, "user")
  /\ UNCHANGED <<parent, chan, killed, cpuproc, clock, shell>>

-----------------------------------------------------------------------------
(* wait(), with p->lock held from its start to its end or its sleep.       *)

wait(c, p) ==
  /\ At(c, p, "wait") /\ Free(p)
  /\ lock' = [lock EXCEPT ![p] = c]
  /\ idx' = [idx EXCEPT ![p] = 1]
  /\ Goto(p, "wait_scan")
  /\ UNCHANGED <<state, parent, chan, killed, cpuproc, arg, clock, shell>>

\* Read the parent field of the next slot, without its lock.
wait_scan(c, p) ==
  /\ At(c, p, "wait_scan") /\ idx[p] <= NPROC /\ parent[idx[p]] = p
  /\ Goto(p, "wait_lock")
  /\ UNCHANGED <<state, parent, chan, killed, lock, cpuproc, arg, idx, clock, shell>>

wait_skip(c, p) ==
  /\ At(c, p, "wait_scan") /\ idx[p] <= NPROC /\ parent[idx[p]] # p
  /\ idx' = [idx EXCEPT ![p] = @ + 1]
  /\ UNCHANGED <<state, parent, chan, killed, lock, cpuproc, pc, arg, clock, shell>>

\* havekids = 1, and the child is no zombie.
wait_next(c, p) ==
  /\ At(c, p, "wait_lock") /\ Free(idx[p]) /\ state[idx[p]] # "ZOMBIE"
  /\ arg' = [arg EXCEPT ![p] = 1]
  /\ idx' = [idx EXCEPT ![p] = @ + 1]
  /\ Goto(p, "wait_scan")
  /\ UNCHANGED <<state, parent, chan, killed, lock, cpuproc, clock, shell>>

\* A zombie child: freeproc(), and return its pid.
wait_reap(c, p) ==
  /\ At(c, p, "wait_lock") /\ Free(idx[p]) /\ state[idx[p]] = "ZOMBIE"
  /\ state' = [state EXCEPT ![idx[p]] = "UNUSED"]
  /\ parent' = [parent EXCEPT ![idx[p]] = None]
  /\ chan' = [chan EXCEPT ![idx[p]] = None]
  /\ killed' = [killed EXCEPT ![idx[p]] = 0]
  /\ lock' = [lock EXCEPT ![p] = NoCpu]
  /\ shell' = IF p = initproc /\ idx[p] = shell THEN None ELSE shell
  /\ Return(p)
  /\ UNCHANGED <<cpuproc, clock>>

wait_copyout_retries(c, p) == \* mutant: wait() tries the zombie again
  /\ At(c, p, "wait_lock") /\ Free(idx[p]) /\ state[idx[p]] = "ZOMBIE"
  /\ p # initproc
  /\ Goto(p, "wait_scan")
  /\ UNCHANGED <<state, parent, chan, killed, lock, cpuproc, arg, idx, clock, shell>>

\* copyout() of the exit status fails, and the zombie stays.  init passes no
\* address for the status.
wait_copyout(c, p) ==
  /\ At(c, p, "wait_lock") /\ Free(idx[p]) /\ state[idx[p]] = "ZOMBIE"
  /\ p # initproc
  /\ lock' = [lock EXCEPT ![p] = NoCpu]
  /\ Return(p)
  /\ UNCHANGED <<state, parent, chan, killed, cpuproc, clock, shell>>

\* No children, or killed: return -1.
wait_return(c, p) ==
  /\ At(c, p, "wait_scan") /\ idx[p] > NPROC
  /\ arg[p] = 0 \/ killed[p] = 1
  /\ lock' = [lock EXCEPT ![p] = NoCpu]
  /\ Return(p)
  /\ UNCHANGED <<state, parent, chan, killed, cpuproc, clock, shell>>

\* There is a child and p has not been killed: go on to sleep().
wait_test(c, p) ==
  /\ At(c, p, "wait_scan") /\ idx[p] > NPROC
  /\ arg[p] = 1 /\ killed[p] = 0
  /\ Goto(p, "wait_sleep")
  /\ UNCHANGED <<state, parent, chan, killed, lock, cpuproc, arg, idx, clock, shell>>

wait_sleep_unlocked(c, p) == \* mutant: p->lock is released before the switch
  /\ At(c, p, "wait_sleep")
  /\ state' = [state EXCEPT ![p] = "SLEEPING"]
  /\ chan' = [chan EXCEPT ![p] = p]
  /\ lock' = [lock EXCEPT ![p] = NoCpu]
  /\ idx' = [idx EXCEPT ![p] = 1]
  /\ arg' = [arg EXCEPT ![p] = 0]
  /\ Goto(p, "wait_scan")
  /\ UNCHANGED <<parent, killed, cpuproc, clock, shell>>

\* sleep(p, &p->lock): the lock goes to the scheduler with the switch.
wait_sleep(c, p) ==
  /\ At(c, p, "wait_sleep")
  /\ state' = [state EXCEPT ![p] = "SLEEPING"]
  /\ chan' = [chan EXCEPT ![p] = p]
  /\ idx' = [idx EXCEPT ![p] = 1]
  /\ arg' = [arg EXCEPT ![p] = 0]
  /\ Goto(p, "wait_scan")
  /\ UNCHANGED <<parent, killed, lock, cpuproc, clock, shell>>

-----------------------------------------------------------------------------
(* sys_sleep(1).                                                           *)

SleepTest_unlocked(c, p, ticks0) == \* mutant: tickslock is not kept
  \/ /\ (ticks - ticks0) % TickMod >= 1 \/ killed[p] = 1
     /\ Return(p)
     /\ UNCHANGED tickslock
  \/ /\ (ticks - ticks0) % TickMod < 1 /\ killed[p] = 0
     /\ Goto(p, "sleep_lock")
     /\ arg' = [arg EXCEPT ![p] = ticks0]
     /\ UNCHANGED <<tickslock, idx>>

\* The test of the loop, with tickslock taken by CPU c.
SleepTest(c, p, ticks0) ==
  \/ /\ (ticks - ticks0) % TickMod >= 1 \/ killed[p] = 1
     /\ Return(p)
     /\ UNCHANGED tickslock
  \/ /\ (ticks - ticks0) % TickMod < 1 /\ killed[p] = 0
     /\ Goto(p, "sleep_lock")
     /\ arg' = [arg EXCEPT ![p] = ticks0]
     /\ tickslock' = c
     /\ UNCHANGED idx

sys_sleep(c, p) ==
  /\ At(c, p, "sleep") /\ tickslock = NoCpu
  /\ SleepTest(c, p, ticks)
  /\ UNCHANGED <<state, parent, chan, killed, lock, cpuproc, ticks, intr, widx, shell>>

\* sleep(&ticks, &tickslock): take p->lock, release tickslock, switch.
sleep(c, p) ==
  /\ At(c, p, "sleep_lock") /\ Free(p)
  /\ lock' = [lock EXCEPT ![p] = c]
  /\ tickslock' = NoCpu
  /\ chan' = [chan EXCEPT ![p] = Ticks]
  /\ state' = [state EXCEPT ![p] = "SLEEPING"]
  /\ Goto(p, "sleep_relock")
  /\ UNCHANGED <<parent, killed, cpuproc, arg, idx, ticks, intr, widx, shell>>

\* Back from sleep(): take tickslock again and repeat the test.
sleep_again(c, p) ==
  /\ At(c, p, "sleep_relock") /\ tickslock = NoCpu
  /\ SleepTest(c, p, arg[p])
  /\ UNCHANGED <<state, parent, chan, killed, lock, cpuproc, ticks, intr, widx, shell>>

-----------------------------------------------------------------------------
\* The steps of a process that is in the kernel.
Kernel(c, p) ==
  \/ fork_fails(c, p) \/ kill_none(c, p)
  \/ exit_init(c, p) \/ panic(c, p)
  \/ exit(c, p) \/ exit_parent(c, p) \/ exit_lock_parent(c, p) \/ exit_lock(c, p)
  \/ reparent(c, p) \/ reparent_skip(c, p) \/ reparent_child(c, p) \/ exit_zombie(c, p)
  \/ wait(c, p) \/ wait_scan(c, p) \/ wait_skip(c, p) \/ wait_next(c, p) \/ wait_reap(c, p)
  \/ wait_copyout(c, p) \/ wait_return(c, p) \/ wait_test(c, p) \/ wait_sleep(c, p)
  \/ sys_sleep(c, p) \/ sleep(c, p) \/ sleep_again(c, p)
  \/ swtch_back(c, p)
  \/ \E s \in Slots : fork(c, p, s) \/ fork_undone(c, p, s) \/ kill(c, p, s)

Next ==
  \/ \E c \in CPUs, p \in Slots : scheduler(c, p)
  \/ \E c \in CPUs, p \in Slots :
       /\ cpuproc[c] = p
       /\ \/ yield(c, p) \/ yield_killed(c, p) \/ Kernel(c, p)
          \/ \E call \in Calls : usertrap(c, p, call)
  \/ devintr \/ clockintr \/ wakeup \/ wakeup_last

Spec == Init /\ [][Next]_vars

\* A CPU goes on with the kernel code it is in; one that spins on a lock which is
\* free time and again gets it in the end (of amoswap we assume that much); and
\* the round-robin scans of the CPUs that have no process reach every runnable one.
FairSpec ==
  /\ Spec
  /\ \A c \in CPUs, p \in Slots : SF_vars(Kernel(c, p))
  /\ \A p \in Slots : SF_vars(\E c \in CPUs : scheduler(c, p))

-----------------------------------------------------------------------------
PCs == {"user", "fork", "kill", "panic",
        "exit", "exit_parent", "exit_lock_parent", "exit_lock", "reparent", "reparent_lock",
        "wait", "wait_scan", "wait_lock", "wait_sleep", "sleep", "sleep_lock", "sleep_relock"}

\* The fields of struct proc, the locks and the loops hold values the code can
\* give them.
TypeOK ==
  /\ state \in [Slots -> {"UNUSED", "SLEEPING", "RUNNABLE", "RUNNING", "ZOMBIE"}]
  /\ parent \in [Slots -> Slots \cup {None}]
  /\ chan \in [Slots -> Slots \cup {None, Ticks}]
  /\ killed \in [Slots -> {0, 1}]
  /\ lock \in [Slots -> CPUs \cup {NoCpu}]
  /\ cpuproc \in [CPUs -> Slots \cup {None}]
  /\ pc \in [Slots -> PCs]
  /\ arg \in [Slots -> Nat]
  /\ idx \in [Slots -> 0..NPROC + 1]
  /\ tickslock \in CPUs \cup {NoCpu}
  /\ ticks \in 0..TickMod - 1
  /\ intr \in {"off", "clock", "wakeup", "yield"}
  /\ widx \in Slots
  /\ shell \in Slots \cup {None}

\* A process runs on at most one CPU, and a CPU that is switching away from it
\* still holds its lock, so no other CPU can run on its kernel stack: "It is
\* the process's job to release its lock and then reacquire it before jumping
\* back to us" in scheduler().
OneStackPerCPU ==
  \A c \in CPUs : cpuproc[c] # None =>
    /\ state[cpuproc[c]] # "RUNNING" => lock[cpuproc[c]] = c
    /\ \A d \in CPUs \ {c} : cpuproc[d] # cpuproc[c]

\* p is in the loop of wait(), awake or asleep.
InWait(p) == pc[p] \in {"wait_scan", "wait_lock", "wait_sleep"}

\* A child that p has forked itself.  init also has the children it is given.
OwnChild(p, q) == parent[q] = p /\ (p = initproc => q = shell)

\* wait() "hold[s] p->lock for the whole time to avoid lost wakeups from a
\* child's exit()": no process sleeps in wait() while a child that it has forked
\* is a zombie.  (That it does not hold of the orphans of init is proc_init.)
NoLostWakeup ==
  \A p, q \in Slots :
    ~ (state[p] = "SLEEPING" /\ chan[p] = p /\ OwnChild(p, q) /\ state[q] = "ZOMBIE")

\* kill() is not lost on a process in wait(): wait() tests p->killed and sleeps
\* under p->lock, so a killed process does not sleep there.
NoLostKill ==
  \A p \in Slots : ~ (state[p] = "SLEEPING" /\ chan[p] = p /\ killed[p] = 1)

\* "pp->parent can't change between the check and the acquire()" in reparent(),
\* and the same in wait(): the unlocked read still holds at the acquire().
ParentStable ==
  \A p \in Slots : pc[p] \in {"reparent_lock", "wait_lock"} => parent[idx[p]] = p

\* Every process but init has a parent that can still wait() for it: reparent()
\* hands over all children before the parent is a zombie.
LiveParent ==
  \A q \in Slots \ {initproc} : state[q] # "UNUSED" =>
    /\ parent[q] # None
    /\ state[parent[q]] \notin {"UNUSED", "ZOMBIE"}

\* sleep(): "we can be guaranteed that we won't miss any wakeup".  A process
\* that sleeps on &ticks after its tick has come is still ahead of the loop of
\* the wakeup() of that tick.
NoMissedTick ==
  \A p \in Slots : state[p] = "SLEEPING" /\ chan[p] = Ticks /\ ticks # arg[p] =>
    intr = "wakeup" /\ widx <= p

-----------------------------------------------------------------------------
(* The inductive invariant.                                                *)

\* A running process is on some CPU, which holds the locks that its place in
\* exit() or wait() says; a process that does not run is at no such place.
Locks ==
  /\ \A p \in Slots : state[p] = "RUNNING" => \E c \in CPUs : cpuproc[c] = p
  /\ \A c \in CPUs, p \in Slots : cpuproc[c] = p /\ state[p] = "RUNNING" =>
       /\ InWait(p) \/ pc[p] \in {"reparent", "reparent_lock"} => lock[p] = c
       /\ pc[p] \in {"exit_lock", "reparent", "reparent_lock"} => lock[arg[p]] = c
  /\ \A p \in Slots : state[p] # "RUNNING" =>
       /\ pc[p] \notin {"wait_lock", "wait_sleep", "exit_lock", "reparent", "reparent_lock"}
       /\ pc[p] = "wait_scan" => idx[p] = 1
       /\ state[p] \in {"UNUSED", "ZOMBIE"} => pc[p] = "user"

\* init lives for ever and has no parent; a free slot has none either; and the
\* shell that init waits for is its child.
Families ==
  /\ state[initproc] \notin {"UNUSED", "ZOMBIE"} /\ parent[initproc] = None
  /\ shell # None => parent[shell] = initproc
  /\ \A q \in Slots : /\ state[q] = "UNUSED" => parent[q] = None
                      /\ parent[q] # q

\* exit() keeps the parent it has read unless the process was given to init,
\* and none of the slots that reparent() has passed is a child any more.
Exits ==
  \A p \in Slots :
    /\ pc[p] \in {"exit_parent", "exit_lock_parent", "exit_lock", "reparent", "reparent_lock"}
         => p # initproc
    /\ pc[p] \in {"exit_lock_parent", "exit_lock", "reparent", "reparent_lock"}
         => /\ arg[p] \in Slots \ {p} /\ parent[p] \in {arg[p], initproc}
            /\ p = shell => arg[p] = initproc
    /\ pc[p] \in {"reparent", "reparent_lock"}
         => idx[p] # 0 /\ \A s \in Slots : s < idx[p] => parent[s] # p

\* No child of its own that the scan of wait() has passed is a zombie, and a
\* process that is about to sleep there has not been killed.
Waits ==
  \A p \in Slots :
    /\ InWait(p) =>
         /\ idx[p] # 0
         /\ \A s \in Slots : s < idx[p] /\ OwnChild(p, s) => state[s] # "ZOMBIE"
    /\ pc[p] \in {"wait_lock", "reparent_lock"} => idx[p] \in Slots
    /\ pc[p] = "wait_sleep" => idx[p] > NPROC /\ killed[p] = 0

\* The inductive invariant of the process table.
ProcInv ==
  /\ TypeOK /\ OneStackPerCPU /\ Locks /\ Families /\ LiveParent
  /\ ParentStable /\ Exits /\ Waits /\ NoLostWakeup /\ NoLostKill

-----------------------------------------------------------------------------
(* Deadlock.                                                               *)

\* The lock that CPU c spins on: a slot for p->lock, Ticks for tickslock.
Wants(c) ==
  LET p == cpuproc[c] IN
  IF c = Cpu0 /\ intr = "clock" THEN Ticks
  ELSE IF c = Cpu0 /\ intr = "wakeup" THEN widx
  ELSE IF p = None THEN None
  ELSE IF state[p] # "RUNNING" THEN None
  ELSE IF c = Cpu0 /\ intr = "yield" THEN p
  ELSE IF pc[p] = "exit" /\ p # initproc THEN initproc
  ELSE IF pc[p] \in {"exit_parent", "exit_lock", "wait", "sleep_lock"} THEN p
  ELSE IF pc[p] = "exit_lock_parent" THEN arg[p]
  ELSE IF pc[p] \in {"reparent_lock", "wait_lock"} THEN idx[p]
  ELSE IF pc[p] \in {"sleep", "sleep_relock"} THEN Ticks
  ELSE None

Holder(l) == IF l = Ticks THEN tickslock ELSE lock[l]

\* No CPUs spin for ever on locks that they hold among themselves: the locks
\* are taken parent before child, and tickslock before p->lock.
NoSpinCycle ==
  LET spinning == {c \in CPUs : Wants(c) # None}
  IN  \A S \in SUBSET spinning \ {{}} : \E c \in S : Holder(Wants(c)) \notin S

\* A process that waits while a child that it has forked is a zombie returns from
\* wait().
WaitReturns ==
  \A p \in Slots :
    (InWait(p) /\ \E q \in Slots : OwnChild(p, q) /\ state[q] = "ZOMBIE") ~> ~InWait(p)

\* user/init.c: "this call to wait() returns if the shell exits, or if a
\* parentless process exits."
\* exit() wakes the slot it has copied as original_parent; a process that is given
\* to init after that wakes the wrong one.
InitReaps ==
  \A q \in Slots :
    (InWait(initproc) /\ parent[q] = initproc /\ state[q] = "ZOMBIE") ~> ~InWait(initproc)

\* A process starts its life not killed: killed is "If non-zero, have been
\* killed", and kill() kills "the process with the given pid".
BornAlive ==
  [][\A s \in Slots : state[s] = "UNUSED" /\ state'[s] = "RUNNABLE" => killed'[s] = 0]_vars
=============================================================================
