--------------------------- MODULE ProcTableProofs ---------------------------
(***************************************************************************)
(* First half of the proof of the inductive invariant of the process table *)
(* for any number of slots and CPUs: types, locks, and who is whose child. *)
(*                                                                         *)
(* The conjuncts of ProcInv need each other, so each has a lemma that says *)
(* that a step from a state with ProcInv preserves it.  Each lemma goes    *)
(* through the actions one by one.                                         *)
(***************************************************************************)
EXTENDS Proc, TLAPS

USE ProcConstants DEF ProcConstants

\* The slots of the process table, and the values that are none of them.
LEMMA SlotFacts ==
  /\ initproc \in Slots /\ None \notin Slots /\ Ticks \notin Slots
  /\ initproc # None /\ None \in Nat
  /\ \A s \in Slots : s \in Nat /\ s # 0 /\ s <= NPROC
  /\ \A s \in Nat : s # 0 /\ s <= NPROC => s \in Slots
  BY DEF Slots, initproc, None, Ticks

\* The loop of sys_sleep() goes on to sleep().
GoesToSleep(c, p, t) ==
  /\ Goto(p, "sleep_lock") /\ arg' = [arg EXCEPT ![p] = t]
  /\ tickslock' = c /\ UNCHANGED idx

\* The test of sys_sleep() returns, or goes on with tickslock held.
LEMMA SleepCases ==
  ASSUME NEW c, NEW p, NEW t, SleepTest(c, p, t)
  PROVE  \/ Return(p) /\ UNCHANGED tickslock
         \/ GoesToSleep(c, p, t)
  BY DEF SleepTest, GoesToSleep

\* userinit() leaves a process table that satisfies the invariant.
LEMMA InitProcInv == Init => ProcInv
<1> SUFFICES ASSUME Init PROVE ProcInv
  OBVIOUS
<1> USE SlotFacts DEF Init
<1>1. TypeOK
  BY DEF TypeOK, PCs
<1>2. OneStackPerCPU /\ Locks
  BY DEF OneStackPerCPU, Locks, InWait
<1>3. Families /\ LiveParent /\ ParentStable
  BY DEF Families, LiveParent, ParentStable
<1>4. Exits /\ Waits /\ NoLostWakeup /\ NoLostKill
  BY DEF Exits, Waits, InWait, NoLostWakeup, NoLostKill, OwnChild
<1> QED BY <1>1, <1>2, <1>3, <1>4 DEF ProcInv

\* Every step keeps the fields of struct proc, the locks and the loop counters
\* in range; the loops of reparent() and wait() stay inside the table.
LEMMA TypeStep == ProcInv /\ [Next]_vars => TypeOK'
<1> SUFFICES ASSUME ProcInv, [Next]_vars PROVE TypeOK'
  OBVIOUS
<1> USE SlotFacts DEF ProcInv, clock
<1>1. ASSUME NEW c \in CPUs, NEW p \in Slots, scheduler(c, p) PROVE TypeOK'
  BY <1>1 DEF scheduler, TypeOK, PCs
<1>2. ASSUME NEW c \in CPUs, NEW p \in Slots, swtch_back(c, p) PROVE TypeOK'
  BY <1>2 DEF swtch_back, TypeOK, PCs
<1>3. ASSUME NEW c \in CPUs, NEW p \in Slots, yield(c, p) PROVE TypeOK'
  BY <1>3 DEF yield, TimerTrap, TypeOK, PCs
<1>4. ASSUME NEW c \in CPUs, NEW p \in Slots, yield_killed(c, p) PROVE TypeOK'
  BY <1>4 DEF yield_killed, TimerTrap, Goto, TypeOK, PCs
<1>5. ASSUME devintr PROVE TypeOK'
  BY <1>5 DEF devintr, TypeOK, PCs
<1>6. ASSUME clockintr PROVE TypeOK'
  <2>1. ticks' \in 0..TickMod - 1
    BY <1>6 DEF clockintr, TypeOK
  <2>2. widx' \in Slots
    BY <1>6 DEF clockintr, TypeOK
  <2> QED BY <1>6, <2>1, <2>2 DEF clockintr, TypeOK
<1>7. ASSUME wakeup PROVE TypeOK'
  <2>1. state' \in [Slots -> {"UNUSED", "SLEEPING", "RUNNABLE", "RUNNING", "ZOMBIE"}]
    BY <1>7 DEF wakeup, WakeSlot, TypeOK
  <2>2. widx' \in Slots
    BY <1>7 DEF wakeup, WakeSlot, TypeOK
  <2> QED BY <1>7, <2>1, <2>2 DEF wakeup, WakeSlot, TypeOK
<1>8. ASSUME wakeup_last PROVE TypeOK'
  BY <1>8 DEF wakeup_last, WakeSlot, TypeOK, PCs
<1>9. ASSUME NEW c \in CPUs, NEW p \in Slots, NEW call \in Calls, usertrap(c, p, call)
      PROVE TypeOK'
  BY <1>9 DEF usertrap, At, Runs, Goto, TypeOK, PCs
<1>10. ASSUME NEW c \in CPUs, NEW p \in Slots, NEW s \in Slots, fork(c, p, s)
       PROVE TypeOK'
  BY <1>10 DEF fork, After, At, Runs, TypeOK, PCs
<1>11. ASSUME NEW c \in CPUs, NEW p \in Slots, fork_fails(c, p) PROVE TypeOK'
  BY <1>11 DEF fork_fails, After, At, Runs, Goto, TypeOK, PCs
<1>12. ASSUME NEW c \in CPUs, NEW p \in Slots, NEW s \in Slots, fork_undone(c, p, s)
       PROVE TypeOK'
  BY <1>12 DEF fork_undone, After, At, Runs, Goto, TypeOK, PCs
<1>13. ASSUME NEW c \in CPUs, NEW p \in Slots, NEW s \in Slots, kill(c, p, s)
       PROVE TypeOK'
  BY <1>13 DEF kill, After, At, Runs, Goto, TypeOK, PCs
<1>14. ASSUME NEW c \in CPUs, NEW p \in Slots, kill_none(c, p) PROVE TypeOK'
  BY <1>14 DEF kill_none, After, At, Runs, Goto, TypeOK, PCs
<1>15. ASSUME NEW c \in CPUs, NEW p \in Slots, exit_init(c, p) PROVE TypeOK'
  BY <1>15 DEF exit_init, At, Runs, Goto, TypeOK, PCs
<1>16. ASSUME NEW c \in CPUs, NEW p \in Slots, panic(c, p) PROVE TypeOK'
  BY <1>16 DEF panic, vars, TypeOK, PCs
<1>17. ASSUME NEW c \in CPUs, NEW p \in Slots, exit(c, p) PROVE TypeOK'
  BY <1>17 DEF exit, At, Runs, Goto, wakeup1, TypeOK, PCs
<1>18. ASSUME NEW c \in CPUs, NEW p \in Slots, exit_parent(c, p) PROVE TypeOK'
  <2>1. arg' \in [Slots -> Nat]
    BY <1>18 DEF exit_parent, At, Runs, Goto, TypeOK
  <2>2. pc' \in [Slots -> PCs]
    BY <1>18 DEF exit_parent, At, Runs, Goto, TypeOK, PCs
  <2> QED BY <1>18, <2>1, <2>2 DEF exit_parent, At, Runs, Goto, TypeOK
<1>19. ASSUME NEW c \in CPUs, NEW p \in Slots, exit_lock_parent(c, p) PROVE TypeOK'
  BY <1>19 DEF exit_lock_parent, At, Runs, Goto, TypeOK, PCs
<1>20. ASSUME NEW c \in CPUs, NEW p \in Slots, exit_lock(c, p) PROVE TypeOK'
  BY <1>20 DEF exit_lock, At, Runs, Goto, TypeOK, PCs
<1>21. ASSUME NEW c \in CPUs, NEW p \in Slots, reparent(c, p) PROVE TypeOK'
  BY <1>21 DEF reparent, At, Runs, Goto, TypeOK, PCs
<1>22. ASSUME NEW c \in CPUs, NEW p \in Slots, reparent_skip(c, p) PROVE TypeOK'
  <2>1. idx' \in [Slots -> 0..NPROC + 1]
    BY <1>22 DEF reparent_skip, At, Runs, TypeOK
  <2> QED BY <1>22, <2>1 DEF reparent_skip, At, Runs, TypeOK
<1>23. ASSUME NEW c \in CPUs, NEW p \in Slots, reparent_child(c, p) PROVE TypeOK'
  <2>1. idx' \in [Slots -> 0..NPROC + 1]
    BY <1>23 DEF reparent_child, At, Runs, Goto, TypeOK, Waits, InWait
  <2>2. parent' \in [Slots -> Slots \cup {None}]
    BY <1>23 DEF reparent_child, At, Runs, Goto, TypeOK
  <2>3. pc' \in [Slots -> PCs]
    BY <1>23 DEF reparent_child, At, Runs, Goto, TypeOK, PCs
  <2> QED BY <1>23, <2>1, <2>2, <2>3 DEF reparent_child, At, Runs, Goto, TypeOK
<1>24. ASSUME NEW c \in CPUs, NEW p \in Slots, exit_zombie(c, p) PROVE TypeOK'
  <2>1. state' \in [Slots -> {"UNUSED", "SLEEPING", "RUNNABLE", "RUNNING", "ZOMBIE"}]
    BY <1>24 DEF exit_zombie, At, Runs, Goto, wakeup1, Leave, TypeOK
  <2>2. lock' \in [Slots -> CPUs \cup {NoCpu}]
    BY <1>24 DEF exit_zombie, At, Runs, Goto, wakeup1, Leave, TypeOK
  <2>3. pc' \in [Slots -> PCs]
    BY <1>24 DEF exit_zombie, At, Runs, Goto, wakeup1, Leave, TypeOK, PCs
  <2>4. arg' \in [Slots -> Nat]
    BY <1>24 DEF exit_zombie, At, Runs, Goto, wakeup1, Leave, TypeOK
  <2>5. idx' \in [Slots -> 0..NPROC + 1]
    BY <1>24 DEF exit_zombie, At, Runs, Goto, wakeup1, Leave, TypeOK
  <2> QED BY <1>24, <2>1, <2>2, <2>3, <2>4, <2>5 DEF exit_zombie, At, Runs, Goto,
    wakeup1, Leave, TypeOK
<1>25. ASSUME NEW c \in CPUs, NEW p \in Slots, wait(c, p) PROVE TypeOK'
  BY <1>25 DEF wait, At, Runs, Goto, TypeOK, PCs
<1>26. ASSUME NEW c \in CPUs, NEW p \in Slots, wait_scan(c, p) PROVE TypeOK'
  BY <1>26 DEF wait_scan, At, Runs, Goto, TypeOK, PCs
<1>27. ASSUME NEW c \in CPUs, NEW p \in Slots, wait_skip(c, p) PROVE TypeOK'
  <2>1. idx' \in [Slots -> 0..NPROC + 1]
    BY <1>27 DEF wait_skip, At, Runs, TypeOK
  <2> QED BY <1>27, <2>1 DEF wait_skip, At, Runs, TypeOK
<1>28. ASSUME NEW c \in CPUs, NEW p \in Slots, wait_next(c, p) PROVE TypeOK'
  <2>1. idx' \in [Slots -> 0..NPROC + 1]
    BY <1>28 DEF wait_next, At, Runs, Goto, TypeOK, Waits, InWait
  <2>2. arg' \in [Slots -> Nat]
    BY <1>28 DEF wait_next, At, Runs, Goto, TypeOK
  <2>3. pc' \in [Slots -> PCs]
    BY <1>28 DEF wait_next, At, Runs, Goto, TypeOK, PCs
  <2> QED BY <1>28, <2>1, <2>2, <2>3 DEF wait_next, At, Runs, Goto, TypeOK
<1>29. ASSUME NEW c \in CPUs, NEW p \in Slots, wait_reap(c, p) PROVE TypeOK'
  <2>1. state' \in [Slots -> {"UNUSED", "SLEEPING", "RUNNABLE", "RUNNING", "ZOMBIE"}]
    BY <1>29 DEF wait_reap, At, Runs, Goto, Return, Leave, After, TypeOK
  <2>2. parent' \in [Slots -> Slots \cup {None}]
    BY <1>29 DEF wait_reap, At, Runs, Goto, Return, Leave, After, TypeOK
  <2>3. chan' \in [Slots -> Slots \cup {None, Ticks}]
    BY <1>29 DEF wait_reap, At, Runs, Goto, Return, Leave, After, TypeOK
  <2>4. killed' \in [Slots -> {0, 1}]
    BY <1>29 DEF wait_reap, At, Runs, Goto, Return, Leave, After, TypeOK
  <2>5. pc' \in [Slots -> PCs]
    BY <1>29 DEF wait_reap, At, Runs, Goto, Return, Leave, After, TypeOK, PCs
  <2>6. arg' \in [Slots -> Nat]
    BY <1>29 DEF wait_reap, At, Runs, Goto, Return, Leave, After, TypeOK
  <2>7. idx' \in [Slots -> 0..NPROC + 1]
    BY <1>29 DEF wait_reap, At, Runs, Goto, Return, Leave, After, TypeOK
  <2>8. lock' \in [Slots -> CPUs \cup {NoCpu}]
    BY <1>29 DEF wait_reap, At, Runs, Goto, Return, Leave, After, TypeOK
  <2> QED BY <1>29, <2>1, <2>2, <2>3, <2>4, <2>5, <2>6, <2>7, <2>8 DEF wait_reap, At,
    Runs, Goto, Return, Leave, After, TypeOK
<1>30. ASSUME NEW c \in CPUs, NEW p \in Slots, wait_copyout(c, p) PROVE TypeOK'
  BY <1>30 DEF wait_copyout, At, Runs, Goto, Return, Leave, After, TypeOK, PCs
<1>31. ASSUME NEW c \in CPUs, NEW p \in Slots, wait_return(c, p) PROVE TypeOK'
  BY <1>31 DEF wait_return, At, Runs, Goto, Return, Leave, After, TypeOK, PCs
<1>32. ASSUME NEW c \in CPUs, NEW p \in Slots, wait_sleep(c, p) PROVE TypeOK'
  BY <1>32 DEF wait_sleep, At, Runs, Goto, TypeOK, PCs
<1>33. ASSUME NEW c \in CPUs, NEW p \in Slots, sys_sleep(c, p) PROVE TypeOK'
  <2>1. CASE Return(p) /\ UNCHANGED tickslock
    BY <1>33, <2>1 DEF sys_sleep, At, Runs, Goto, Return, Leave, After, TypeOK, PCs
  <2>2. CASE GoesToSleep(c, p, ticks)
    BY <1>33, <2>2 DEF sys_sleep, At, Runs, Goto, TypeOK, PCs, GoesToSleep
  <2> QED BY <1>33, <2>1, <2>2, SleepCases DEF sys_sleep
<1>34. ASSUME NEW c \in CPUs, NEW p \in Slots, sleep(c, p) PROVE TypeOK'
  BY <1>34 DEF sleep, At, Runs, Goto, TypeOK, PCs
<1>35. ASSUME NEW c \in CPUs, NEW p \in Slots, sleep_again(c, p) PROVE TypeOK'
  <2>1. CASE Return(p) /\ UNCHANGED tickslock
    BY <1>35, <2>1 DEF sleep_again, At, Runs, Goto, Return, Leave, After, TypeOK, PCs
  <2>2. CASE GoesToSleep(c, p, arg[p])
    BY <1>35, <2>2 DEF sleep_again, At, Runs, Goto, TypeOK, PCs, GoesToSleep
  <2> QED BY <1>35, <2>1, <2>2, SleepCases DEF sleep_again
<1>36. CASE UNCHANGED vars
  BY <1>36 DEF vars, TypeOK, PCs
<1>37. ASSUME NEW c \in CPUs, NEW p \in Slots, wait_test(c, p) PROVE TypeOK'
  BY <1>37 DEF wait_test, At, Runs, Goto, TypeOK, PCs
<1> QED BY <1>1, <1>2, <1>3, <1>4, <1>5, <1>6, <1>7, <1>8, <1>9, <1>10, <1>11, <1>12,
    <1>13, <1>14, <1>15, <1>16, <1>17, <1>18, <1>19, <1>20, <1>21, <1>22, <1>23, <1>24,
    <1>25, <1>26, <1>27, <1>28, <1>29, <1>30, <1>31, <1>32, <1>33, <1>34, <1>35,
    <1>36, <1>37, ZenonT(30) DEF Next, Kernel

\* Every step keeps each kernel stack on one CPU: sched() is called with p->lock
\* held, and only the scheduler of that CPU releases it.
LEMMA StackStep == ProcInv /\ [Next]_vars => OneStackPerCPU'
<1> SUFFICES ASSUME ProcInv, [Next]_vars PROVE OneStackPerCPU'
  OBVIOUS
<1> USE SlotFacts DEF ProcInv, clock
<1>1. ASSUME NEW c \in CPUs, NEW p \in Slots, scheduler(c, p) PROVE OneStackPerCPU'
  BY <1>1 DEF scheduler, Free, TypeOK, OneStackPerCPU
<1>2. ASSUME NEW c \in CPUs, NEW p \in Slots, swtch_back(c, p) PROVE OneStackPerCPU'
  BY <1>2 DEF swtch_back, TypeOK, OneStackPerCPU
<1>3. ASSUME NEW c \in CPUs, NEW p \in Slots, yield(c, p) PROVE OneStackPerCPU'
  BY <1>3 DEF yield, TimerTrap, TypeOK, OneStackPerCPU
<1>4. ASSUME NEW c \in CPUs, NEW p \in Slots, yield_killed(c, p) PROVE OneStackPerCPU'
  BY <1>4 DEF yield_killed, TimerTrap, Goto, TypeOK, OneStackPerCPU
<1>5. ASSUME devintr PROVE OneStackPerCPU'
  BY <1>5 DEF devintr, TypeOK, OneStackPerCPU
<1>6. ASSUME clockintr PROVE OneStackPerCPU'
  BY <1>6 DEF clockintr, TypeOK, OneStackPerCPU
<1>7. ASSUME wakeup PROVE OneStackPerCPU'
  BY <1>7 DEF wakeup, WakeSlot, TypeOK, OneStackPerCPU
<1>8. ASSUME wakeup_last PROVE OneStackPerCPU'
  BY <1>8 DEF wakeup_last, WakeSlot, TypeOK, OneStackPerCPU
<1>9. ASSUME NEW c \in CPUs, NEW p \in Slots, NEW call \in Calls, usertrap(c, p, call)
      PROVE OneStackPerCPU'
  BY <1>9 DEF usertrap, At, Runs, Goto, TypeOK, OneStackPerCPU
<1>10. ASSUME NEW c \in CPUs, NEW p \in Slots, NEW s \in Slots, fork(c, p, s)
       PROVE OneStackPerCPU'
  BY <1>10 DEF fork, After, At, Runs, TypeOK, OneStackPerCPU
<1>11. ASSUME NEW c \in CPUs, NEW p \in Slots, fork_fails(c, p) PROVE OneStackPerCPU'
  BY <1>11 DEF fork_fails, After, At, Runs, Goto, TypeOK, OneStackPerCPU
<1>12. ASSUME NEW c \in CPUs, NEW p \in Slots, NEW s \in Slots, fork_undone(c, p, s)
       PROVE OneStackPerCPU'
  BY <1>12 DEF fork_undone, After, At, Runs, Goto, TypeOK, OneStackPerCPU
<1>13. ASSUME NEW c \in CPUs, NEW p \in Slots, NEW s \in Slots, kill(c, p, s)
       PROVE OneStackPerCPU'
  BY <1>13 DEF kill, After, At, Runs, Goto, TypeOK, OneStackPerCPU
<1>14. ASSUME NEW c \in CPUs, NEW p \in Slots, kill_none(c, p) PROVE OneStackPerCPU'
  BY <1>14 DEF kill_none, After, At, Runs, Goto, TypeOK, OneStackPerCPU
<1>15. ASSUME NEW c \in CPUs, NEW p \in Slots, exit_init(c, p) PROVE OneStackPerCPU'
  BY <1>15 DEF exit_init, At, Runs, Goto, TypeOK, OneStackPerCPU
<1>16. ASSUME NEW c \in CPUs, NEW p \in Slots, panic(c, p) PROVE OneStackPerCPU'
  BY <1>16 DEF panic, vars, TypeOK, OneStackPerCPU
<1>17. ASSUME NEW c \in CPUs, NEW p \in Slots, exit(c, p) PROVE OneStackPerCPU'
  BY <1>17 DEF exit, At, Runs, Goto, wakeup1, TypeOK, OneStackPerCPU
<1>18. ASSUME NEW c \in CPUs, NEW p \in Slots, exit_parent(c, p) PROVE OneStackPerCPU'
  BY <1>18 DEF exit_parent, At, Runs, Goto, TypeOK, OneStackPerCPU
<1>19. ASSUME NEW c \in CPUs, NEW p \in Slots, exit_lock_parent(c, p)
       PROVE OneStackPerCPU'
  BY <1>19 DEF exit_lock_parent, At, Runs, Free, Goto, TypeOK, OneStackPerCPU
<1>20. ASSUME NEW c \in CPUs, NEW p \in Slots, exit_lock(c, p) PROVE OneStackPerCPU'
  BY <1>20 DEF exit_lock, At, Runs, Goto, TypeOK, OneStackPerCPU
<1>21. ASSUME NEW c \in CPUs, NEW p \in Slots, reparent(c, p) PROVE OneStackPerCPU'
  BY <1>21 DEF reparent, At, Runs, Goto, TypeOK, OneStackPerCPU
<1>22. ASSUME NEW c \in CPUs, NEW p \in Slots, reparent_skip(c, p) PROVE OneStackPerCPU'
  BY <1>22 DEF reparent_skip, At, Runs, TypeOK, OneStackPerCPU
<1>23. ASSUME NEW c \in CPUs, NEW p \in Slots, reparent_child(c, p)
       PROVE OneStackPerCPU'
  BY <1>23 DEF reparent_child, At, Runs, Goto, TypeOK, OneStackPerCPU
<1>24. ASSUME NEW c \in CPUs, NEW p \in Slots, exit_zombie(c, p) PROVE OneStackPerCPU'
  BY <1>24 DEF exit_zombie, At, Runs, Goto, wakeup1, Leave, TypeOK, OneStackPerCPU,
    Locks, InWait
<1>25. ASSUME NEW c \in CPUs, NEW p \in Slots, wait(c, p) PROVE OneStackPerCPU'
  BY <1>25 DEF wait, At, Runs, Goto, TypeOK, OneStackPerCPU
<1>26. ASSUME NEW c \in CPUs, NEW p \in Slots, wait_scan(c, p) PROVE OneStackPerCPU'
  BY <1>26 DEF wait_scan, At, Runs, Goto, TypeOK, OneStackPerCPU
<1>27. ASSUME NEW c \in CPUs, NEW p \in Slots, wait_skip(c, p) PROVE OneStackPerCPU'
  BY <1>27 DEF wait_skip, At, Runs, TypeOK, OneStackPerCPU
<1>28. ASSUME NEW c \in CPUs, NEW p \in Slots, wait_next(c, p) PROVE OneStackPerCPU'
  BY <1>28 DEF wait_next, At, Runs, Goto, TypeOK, OneStackPerCPU
<1>29. ASSUME NEW c \in CPUs, NEW p \in Slots, wait_reap(c, p) PROVE OneStackPerCPU'
  BY <1>29 DEF wait_reap, At, Runs, Goto, Return, Leave, After, TypeOK, OneStackPerCPU
<1>30. ASSUME NEW c \in CPUs, NEW p \in Slots, wait_copyout(c, p) PROVE OneStackPerCPU'
  BY <1>30 DEF wait_copyout, At, Runs, Goto, Return, Leave, After, TypeOK,
    OneStackPerCPU
<1>31. ASSUME NEW c \in CPUs, NEW p \in Slots, wait_return(c, p) PROVE OneStackPerCPU'
  BY <1>31 DEF wait_return, At, Runs, Goto, Return, Leave, After, TypeOK, OneStackPerCPU
<1>32. ASSUME NEW c \in CPUs, NEW p \in Slots, wait_sleep(c, p) PROVE OneStackPerCPU'
  BY <1>32 DEF wait_sleep, At, Runs, Goto, TypeOK, OneStackPerCPU, Locks, InWait
<1>33. ASSUME NEW c \in CPUs, NEW p \in Slots, sys_sleep(c, p) PROVE OneStackPerCPU'
  <2>1. CASE Return(p) /\ UNCHANGED tickslock
    BY <1>33, <2>1 DEF sys_sleep, At, Runs, Goto, Return, Leave, After, TypeOK,
      OneStackPerCPU
  <2>2. CASE GoesToSleep(c, p, ticks)
    BY <1>33, <2>2 DEF sys_sleep, At, Runs, Goto, TypeOK, OneStackPerCPU, GoesToSleep
  <2> QED BY <1>33, <2>1, <2>2, SleepCases DEF sys_sleep
<1>34. ASSUME NEW c \in CPUs, NEW p \in Slots, sleep(c, p) PROVE OneStackPerCPU'
  BY <1>34 DEF sleep, At, Runs, Goto, TypeOK, OneStackPerCPU
<1>35. ASSUME NEW c \in CPUs, NEW p \in Slots, sleep_again(c, p) PROVE OneStackPerCPU'
  <2>1. CASE Return(p) /\ UNCHANGED tickslock
    BY <1>35, <2>1 DEF sleep_again, At, Runs, Goto, Return, Leave, After, TypeOK,
      OneStackPerCPU
  <2>2. CASE GoesToSleep(c, p, arg[p])
    BY <1>35, <2>2 DEF sleep_again, At, Runs, Goto, TypeOK, OneStackPerCPU, GoesToSleep
  <2> QED BY <1>35, <2>1, <2>2, SleepCases DEF sleep_again
<1>36. CASE UNCHANGED vars
  BY <1>36 DEF vars, TypeOK, OneStackPerCPU
<1>37. ASSUME NEW c \in CPUs, NEW p \in Slots, wait_test(c, p) PROVE OneStackPerCPU'
  BY <1>37 DEF wait_test, At, Runs, Goto, TypeOK, OneStackPerCPU
<1> QED BY <1>1, <1>2, <1>3, <1>4, <1>5, <1>6, <1>7, <1>8, <1>9, <1>10, <1>11, <1>12,
    <1>13, <1>14, <1>15, <1>16, <1>17, <1>18, <1>19, <1>20, <1>21, <1>22, <1>23, <1>24,
    <1>25, <1>26, <1>27, <1>28, <1>29, <1>30, <1>31, <1>32, <1>33, <1>34, <1>35,
    <1>36, <1>37, ZenonT(30) DEF Next, Kernel

\* Every step keeps the locks of exit() and wait() with the CPU that runs the
\* process.
LEMMA LocksStep == ProcInv /\ [Next]_vars => Locks'
<1> SUFFICES ASSUME ProcInv, [Next]_vars PROVE Locks'
  OBVIOUS
<1> USE SlotFacts DEF ProcInv, clock
<1>1. ASSUME NEW c \in CPUs, NEW p \in Slots, scheduler(c, p) PROVE Locks'
  BY <1>1 DEF scheduler, Free, TypeOK, OneStackPerCPU, Locks, InWait
<1>2. ASSUME NEW c \in CPUs, NEW p \in Slots, swtch_back(c, p) PROVE Locks'
  BY <1>2 DEF swtch_back, TypeOK, OneStackPerCPU, Locks, InWait
<1>3. ASSUME NEW c \in CPUs, NEW p \in Slots, yield(c, p) PROVE Locks'
  BY <1>3 DEF yield, TimerTrap, Interruptible, Free, TypeOK, Locks, InWait, Exits
<1>4. ASSUME NEW c \in CPUs, NEW p \in Slots, yield_killed(c, p) PROVE Locks'
  BY <1>4 DEF yield_killed, TimerTrap, Goto, TypeOK, Locks, InWait
<1>5. ASSUME devintr PROVE Locks'
  BY <1>5 DEF devintr, TypeOK, Locks, InWait
<1>6. ASSUME clockintr PROVE Locks'
  BY <1>6 DEF clockintr, TypeOK, Locks, InWait
<1>7. ASSUME wakeup PROVE Locks'
  BY <1>7 DEF wakeup, WakeSlot, TypeOK, Locks, InWait
<1>8. ASSUME wakeup_last PROVE Locks'
  BY <1>8 DEF wakeup_last, WakeSlot, TypeOK, Locks, InWait
<1>9. ASSUME NEW c \in CPUs, NEW p \in Slots, NEW call \in Calls, usertrap(c, p, call)
      PROVE Locks'
  BY <1>9 DEF usertrap, At, Runs, Goto, TypeOK, Locks, InWait
<1>10. ASSUME NEW c \in CPUs, NEW p \in Slots, NEW s \in Slots, fork(c, p, s)
       PROVE Locks'
  BY <1>10 DEF fork, After, At, Runs, TypeOK, Locks, InWait
<1>11. ASSUME NEW c \in CPUs, NEW p \in Slots, fork_fails(c, p) PROVE Locks'
  BY <1>11 DEF fork_fails, After, At, Runs, Goto, TypeOK, Locks, InWait
<1>12. ASSUME NEW c \in CPUs, NEW p \in Slots, NEW s \in Slots, fork_undone(c, p, s)
       PROVE Locks'
  BY <1>12 DEF fork_undone, After, At, Runs, Goto, TypeOK, Locks, InWait
<1>13. ASSUME NEW c \in CPUs, NEW p \in Slots, NEW s \in Slots, kill(c, p, s)
       PROVE Locks'
  BY <1>13 DEF kill, After, At, Runs, Goto, TypeOK, Locks, InWait
<1>14. ASSUME NEW c \in CPUs, NEW p \in Slots, kill_none(c, p) PROVE Locks'
  BY <1>14 DEF kill_none, After, At, Runs, Goto, TypeOK, Locks, InWait
<1>15. ASSUME NEW c \in CPUs, NEW p \in Slots, exit_init(c, p) PROVE Locks'
  BY <1>15 DEF exit_init, At, Runs, Goto, TypeOK, Locks, InWait
<1>16. ASSUME NEW c \in CPUs, NEW p \in Slots, panic(c, p) PROVE Locks'
  BY <1>16 DEF panic, vars, TypeOK, Locks, InWait
<1>17. ASSUME NEW c \in CPUs, NEW p \in Slots, exit(c, p) PROVE Locks'
  BY <1>17 DEF exit, At, Runs, Goto, wakeup1, TypeOK, Locks, InWait
<1>18. ASSUME NEW c \in CPUs, NEW p \in Slots, exit_parent(c, p) PROVE Locks'
  BY <1>18 DEF exit_parent, At, Runs, Goto, TypeOK, Locks, InWait
<1>19. ASSUME NEW c \in CPUs, NEW p \in Slots, exit_lock_parent(c, p) PROVE Locks'
  BY <1>19 DEF exit_lock_parent, At, Runs, Free, Goto, TypeOK, OneStackPerCPU, Locks,
    InWait, Exits
<1>20. ASSUME NEW c \in CPUs, NEW p \in Slots, exit_lock(c, p) PROVE Locks'
  BY <1>20 DEF exit_lock, At, Runs, Free, Goto, TypeOK, Locks, InWait
<1>21. ASSUME NEW c \in CPUs, NEW p \in Slots, reparent(c, p) PROVE Locks'
  BY <1>21 DEF reparent, At, Runs, Goto, TypeOK, Locks, InWait
<1>22. ASSUME NEW c \in CPUs, NEW p \in Slots, reparent_skip(c, p) PROVE Locks'
  BY <1>22 DEF reparent_skip, At, Runs, TypeOK, Locks, InWait
<1>23. ASSUME NEW c \in CPUs, NEW p \in Slots, reparent_child(c, p) PROVE Locks'
  BY <1>23 DEF reparent_child, At, Runs, Goto, TypeOK, Locks, InWait
<1>24. ASSUME NEW c \in CPUs, NEW p \in Slots, exit_zombie(c, p) PROVE Locks'
  BY <1>24 DEF exit_zombie, At, Runs, Goto, wakeup1, Leave, TypeOK, Locks, InWait
<1>25. ASSUME NEW c \in CPUs, NEW p \in Slots, wait(c, p) PROVE Locks'
  BY <1>25 DEF wait, At, Runs, Free, Goto, TypeOK, OneStackPerCPU, Locks, InWait
<1>26. ASSUME NEW c \in CPUs, NEW p \in Slots, wait_scan(c, p) PROVE Locks'
  BY <1>26 DEF wait_scan, At, Runs, Goto, TypeOK, Locks, InWait
<1>27. ASSUME NEW c \in CPUs, NEW p \in Slots, wait_skip(c, p) PROVE Locks'
  BY <1>27 DEF wait_skip, At, Runs, TypeOK, Locks, InWait
<1>28. ASSUME NEW c \in CPUs, NEW p \in Slots, wait_next(c, p) PROVE Locks'
  BY <1>28 DEF wait_next, At, Runs, Goto, TypeOK, Locks, InWait
<1>29. ASSUME NEW c \in CPUs, NEW p \in Slots, wait_reap(c, p) PROVE Locks'
  BY <1>29 DEF wait_reap, At, Runs, Goto, Return, Leave, After, TypeOK, Locks, InWait
<1>30. ASSUME NEW c \in CPUs, NEW p \in Slots, wait_copyout(c, p) PROVE Locks'
  BY <1>30 DEF wait_copyout, At, Runs, Goto, Return, Leave, After, TypeOK, Locks, InWait
<1>31. ASSUME NEW c \in CPUs, NEW p \in Slots, wait_return(c, p) PROVE Locks'
  BY <1>31 DEF wait_return, At, Runs, Goto, Return, Leave, After, TypeOK, Locks, InWait
<1>32. ASSUME NEW c \in CPUs, NEW p \in Slots, wait_sleep(c, p) PROVE Locks'
  BY <1>32 DEF wait_sleep, At, Runs, Goto, TypeOK, Locks, InWait
<1>33. ASSUME NEW c \in CPUs, NEW p \in Slots, sys_sleep(c, p) PROVE Locks'
  <2>1. CASE Return(p) /\ UNCHANGED tickslock
    BY <1>33, <2>1 DEF sys_sleep, At, Runs, Goto, Return, Leave, After, TypeOK, Locks,
      InWait
  <2>2. CASE GoesToSleep(c, p, ticks)
    BY <1>33, <2>2 DEF sys_sleep, At, Runs, Goto, TypeOK, Locks, InWait, GoesToSleep
  <2> QED BY <1>33, <2>1, <2>2, SleepCases DEF sys_sleep
<1>34. ASSUME NEW c \in CPUs, NEW p \in Slots, sleep(c, p) PROVE Locks'
  BY <1>34 DEF sleep, At, Runs, Free, Goto, TypeOK, Locks, InWait
<1>35. ASSUME NEW c \in CPUs, NEW p \in Slots, sleep_again(c, p) PROVE Locks'
  <2>1. CASE Return(p) /\ UNCHANGED tickslock
    BY <1>35, <2>1 DEF sleep_again, At, Runs, Goto, Return, Leave, After, TypeOK, Locks,
      InWait
  <2>2. CASE GoesToSleep(c, p, arg[p])
    BY <1>35, <2>2 DEF sleep_again, At, Runs, Goto, TypeOK, Locks, InWait, GoesToSleep
  <2> QED BY <1>35, <2>1, <2>2, SleepCases DEF sleep_again
<1>36. CASE UNCHANGED vars
  BY <1>36 DEF vars, TypeOK, Locks, InWait
<1>37. ASSUME NEW c \in CPUs, NEW p \in Slots, wait_test(c, p) PROVE Locks'
  BY <1>37 DEF wait_test, At, Runs, Goto, TypeOK, Locks, InWait
<1> QED BY <1>1, <1>2, <1>3, <1>4, <1>5, <1>6, <1>7, <1>8, <1>9, <1>10, <1>11, <1>12,
    <1>13, <1>14, <1>15, <1>16, <1>17, <1>18, <1>19, <1>20, <1>21, <1>22, <1>23, <1>24,
    <1>25, <1>26, <1>27, <1>28, <1>29, <1>30, <1>31, <1>32, <1>33, <1>34, <1>35,
    <1>36, <1>37, ZenonT(30) DEF Next, Kernel

\* Every step keeps init alive and without a parent, and free slots without one.
LEMMA FamiliesStep == ProcInv /\ [Next]_vars => Families'
<1> SUFFICES ASSUME ProcInv, [Next]_vars PROVE Families'
  OBVIOUS
<1> USE SlotFacts DEF ProcInv, clock
<1>1. ASSUME NEW c \in CPUs, NEW p \in Slots, scheduler(c, p) PROVE Families'
  BY <1>1 DEF scheduler, TypeOK, Families
<1>2. ASSUME NEW c \in CPUs, NEW p \in Slots, swtch_back(c, p) PROVE Families'
  BY <1>2 DEF swtch_back, TypeOK, Families
<1>3. ASSUME NEW c \in CPUs, NEW p \in Slots, yield(c, p) PROVE Families'
  BY <1>3 DEF yield, TimerTrap, TypeOK, Families
<1>4. ASSUME NEW c \in CPUs, NEW p \in Slots, yield_killed(c, p) PROVE Families'
  BY <1>4 DEF yield_killed, TimerTrap, Goto, TypeOK, Families
<1>5. ASSUME devintr PROVE Families'
  BY <1>5 DEF devintr, TypeOK, Families
<1>6. ASSUME clockintr PROVE Families'
  BY <1>6 DEF clockintr, TypeOK, Families
<1>7. ASSUME wakeup PROVE Families'
  BY <1>7 DEF wakeup, WakeSlot, TypeOK, Families
<1>8. ASSUME wakeup_last PROVE Families'
  BY <1>8 DEF wakeup_last, WakeSlot, TypeOK, Families
<1>9. ASSUME NEW c \in CPUs, NEW p \in Slots, NEW call \in Calls, usertrap(c, p, call)
      PROVE Families'
  BY <1>9 DEF usertrap, At, Runs, Goto, TypeOK, Families
<1>10. ASSUME NEW c \in CPUs, NEW p \in Slots, NEW s \in Slots, fork(c, p, s)
       PROVE Families'
  BY <1>10 DEF fork, After, At, Runs, TypeOK, Families
<1>11. ASSUME NEW c \in CPUs, NEW p \in Slots, fork_fails(c, p) PROVE Families'
  BY <1>11 DEF fork_fails, After, At, Runs, Goto, TypeOK, Families
<1>12. ASSUME NEW c \in CPUs, NEW p \in Slots, NEW s \in Slots, fork_undone(c, p, s)
       PROVE Families'
  BY <1>12 DEF fork_undone, After, At, Runs, Goto, TypeOK, Families
<1>13. ASSUME NEW c \in CPUs, NEW p \in Slots, NEW s \in Slots, kill(c, p, s)
       PROVE Families'
  BY <1>13 DEF kill, After, At, Runs, Goto, TypeOK, Families
<1>14. ASSUME NEW c \in CPUs, NEW p \in Slots, kill_none(c, p) PROVE Families'
  BY <1>14 DEF kill_none, After, At, Runs, Goto, TypeOK, Families
<1>15. ASSUME NEW c \in CPUs, NEW p \in Slots, exit_init(c, p) PROVE Families'
  BY <1>15 DEF exit_init, At, Runs, Goto, TypeOK, Families
<1>16. ASSUME NEW c \in CPUs, NEW p \in Slots, panic(c, p) PROVE Families'
  BY <1>16 DEF panic, vars, TypeOK, Families
<1>17. ASSUME NEW c \in CPUs, NEW p \in Slots, exit(c, p) PROVE Families'
  BY <1>17 DEF exit, At, Runs, Goto, wakeup1, TypeOK, Families
<1>18. ASSUME NEW c \in CPUs, NEW p \in Slots, exit_parent(c, p) PROVE Families'
  BY <1>18 DEF exit_parent, At, Runs, Goto, TypeOK, Families
<1>19. ASSUME NEW c \in CPUs, NEW p \in Slots, exit_lock_parent(c, p) PROVE Families'
  BY <1>19 DEF exit_lock_parent, At, Runs, Goto, TypeOK, Families
<1>20. ASSUME NEW c \in CPUs, NEW p \in Slots, exit_lock(c, p) PROVE Families'
  BY <1>20 DEF exit_lock, At, Runs, Goto, TypeOK, Families
<1>21. ASSUME NEW c \in CPUs, NEW p \in Slots, reparent(c, p) PROVE Families'
  BY <1>21 DEF reparent, At, Runs, Goto, TypeOK, Families
<1>22. ASSUME NEW c \in CPUs, NEW p \in Slots, reparent_skip(c, p) PROVE Families'
  BY <1>22 DEF reparent_skip, At, Runs, TypeOK, Families
<1>23. ASSUME NEW c \in CPUs, NEW p \in Slots, reparent_child(c, p) PROVE Families'
  BY <1>23 DEF reparent_child, At, Runs, Goto, TypeOK, Families, ParentStable
<1>24. ASSUME NEW c \in CPUs, NEW p \in Slots, exit_zombie(c, p) PROVE Families'
  BY <1>24 DEF exit_zombie, At, Runs, Goto, wakeup1, Leave, TypeOK, Families, Exits
<1>25. ASSUME NEW c \in CPUs, NEW p \in Slots, wait(c, p) PROVE Families'
  BY <1>25 DEF wait, At, Runs, Goto, TypeOK, Families
<1>26. ASSUME NEW c \in CPUs, NEW p \in Slots, wait_scan(c, p) PROVE Families'
  BY <1>26 DEF wait_scan, At, Runs, Goto, TypeOK, Families
<1>27. ASSUME NEW c \in CPUs, NEW p \in Slots, wait_skip(c, p) PROVE Families'
  BY <1>27 DEF wait_skip, At, Runs, TypeOK, Families
<1>28. ASSUME NEW c \in CPUs, NEW p \in Slots, wait_next(c, p) PROVE Families'
  BY <1>28 DEF wait_next, At, Runs, Goto, TypeOK, Families
<1>29. ASSUME NEW c \in CPUs, NEW p \in Slots, wait_reap(c, p) PROVE Families'
  BY <1>29 DEF wait_reap, At, Runs, Goto, Return, Leave, After, TypeOK, Families,
    ParentStable, Waits, InWait
<1>30. ASSUME NEW c \in CPUs, NEW p \in Slots, wait_copyout(c, p) PROVE Families'
  BY <1>30 DEF wait_copyout, At, Runs, Goto, Return, Leave, After, TypeOK, Families
<1>31. ASSUME NEW c \in CPUs, NEW p \in Slots, wait_return(c, p) PROVE Families'
  BY <1>31 DEF wait_return, At, Runs, Goto, Return, Leave, After, TypeOK, Families
<1>32. ASSUME NEW c \in CPUs, NEW p \in Slots, wait_sleep(c, p) PROVE Families'
  BY <1>32 DEF wait_sleep, At, Runs, Goto, TypeOK, Families
<1>33. ASSUME NEW c \in CPUs, NEW p \in Slots, sys_sleep(c, p) PROVE Families'
  <2>1. CASE Return(p) /\ UNCHANGED tickslock
    BY <1>33, <2>1 DEF sys_sleep, At, Runs, Goto, Return, Leave, After, TypeOK, Families
  <2>2. CASE GoesToSleep(c, p, ticks)
    BY <1>33, <2>2 DEF sys_sleep, At, Runs, Goto, TypeOK, Families, GoesToSleep
  <2> QED BY <1>33, <2>1, <2>2, SleepCases DEF sys_sleep
<1>34. ASSUME NEW c \in CPUs, NEW p \in Slots, sleep(c, p) PROVE Families'
  BY <1>34 DEF sleep, At, Runs, Goto, TypeOK, Families
<1>35. ASSUME NEW c \in CPUs, NEW p \in Slots, sleep_again(c, p) PROVE Families'
  <2>1. CASE Return(p) /\ UNCHANGED tickslock
    BY <1>35, <2>1 DEF sleep_again, At, Runs, Goto, Return, Leave, After, TypeOK,
      Families
  <2>2. CASE GoesToSleep(c, p, arg[p])
    BY <1>35, <2>2 DEF sleep_again, At, Runs, Goto, TypeOK, Families, GoesToSleep
  <2> QED BY <1>35, <2>1, <2>2, SleepCases DEF sleep_again
<1>36. CASE UNCHANGED vars
  BY <1>36 DEF vars, TypeOK, Families
<1>37. ASSUME NEW c \in CPUs, NEW p \in Slots, wait_test(c, p) PROVE Families'
  BY <1>37 DEF wait_test, At, Runs, Goto, TypeOK, Families
<1> QED BY <1>1, <1>2, <1>3, <1>4, <1>5, <1>6, <1>7, <1>8, <1>9, <1>10, <1>11, <1>12,
    <1>13, <1>14, <1>15, <1>16, <1>17, <1>18, <1>19, <1>20, <1>21, <1>22, <1>23, <1>24,
    <1>25, <1>26, <1>27, <1>28, <1>29, <1>30, <1>31, <1>32, <1>33, <1>34, <1>35,
    <1>36, <1>37, ZenonT(30) DEF Next, Kernel

\* Every step keeps a living parent for every process: exit_zombie comes after
\* reparent() has passed all slots, so the new zombie has no children.
LEMMA LiveParentStep == ProcInv /\ [Next]_vars => LiveParent'
<1> SUFFICES ASSUME ProcInv, [Next]_vars PROVE LiveParent'
  OBVIOUS
<1> USE SlotFacts DEF ProcInv, clock
<1>1. ASSUME NEW c \in CPUs, NEW p \in Slots, scheduler(c, p) PROVE LiveParent'
  BY <1>1 DEF scheduler, TypeOK, LiveParent
<1>2. ASSUME NEW c \in CPUs, NEW p \in Slots, swtch_back(c, p) PROVE LiveParent'
  BY <1>2 DEF swtch_back, TypeOK, LiveParent
<1>3. ASSUME NEW c \in CPUs, NEW p \in Slots, yield(c, p) PROVE LiveParent'
  BY <1>3 DEF yield, TimerTrap, TypeOK, LiveParent
<1>4. ASSUME NEW c \in CPUs, NEW p \in Slots, yield_killed(c, p) PROVE LiveParent'
  BY <1>4 DEF yield_killed, TimerTrap, Goto, TypeOK, LiveParent
<1>5. ASSUME devintr PROVE LiveParent'
  BY <1>5 DEF devintr, TypeOK, LiveParent
<1>6. ASSUME clockintr PROVE LiveParent'
  BY <1>6 DEF clockintr, TypeOK, LiveParent
<1>7. ASSUME wakeup PROVE LiveParent'
  BY <1>7 DEF wakeup, WakeSlot, TypeOK, LiveParent
<1>8. ASSUME wakeup_last PROVE LiveParent'
  BY <1>8 DEF wakeup_last, WakeSlot, TypeOK, LiveParent
<1>9. ASSUME NEW c \in CPUs, NEW p \in Slots, NEW call \in Calls, usertrap(c, p, call)
      PROVE LiveParent'
  BY <1>9 DEF usertrap, At, Runs, Goto, TypeOK, LiveParent
<1>10. ASSUME NEW c \in CPUs, NEW p \in Slots, NEW s \in Slots, fork(c, p, s)
       PROVE LiveParent'
  BY <1>10 DEF fork, After, At, Runs, TypeOK, LiveParent
<1>11. ASSUME NEW c \in CPUs, NEW p \in Slots, fork_fails(c, p) PROVE LiveParent'
  BY <1>11 DEF fork_fails, After, At, Runs, Goto, TypeOK, LiveParent
<1>12. ASSUME NEW c \in CPUs, NEW p \in Slots, NEW s \in Slots, fork_undone(c, p, s)
       PROVE LiveParent'
  BY <1>12 DEF fork_undone, After, At, Runs, Goto, TypeOK, LiveParent
<1>13. ASSUME NEW c \in CPUs, NEW p \in Slots, NEW s \in Slots, kill(c, p, s)
       PROVE LiveParent'
  BY <1>13 DEF kill, After, At, Runs, Goto, TypeOK, LiveParent
<1>14. ASSUME NEW c \in CPUs, NEW p \in Slots, kill_none(c, p) PROVE LiveParent'
  BY <1>14 DEF kill_none, After, At, Runs, Goto, TypeOK, LiveParent
<1>15. ASSUME NEW c \in CPUs, NEW p \in Slots, exit_init(c, p) PROVE LiveParent'
  BY <1>15 DEF exit_init, At, Runs, Goto, TypeOK, LiveParent
<1>16. ASSUME NEW c \in CPUs, NEW p \in Slots, panic(c, p) PROVE LiveParent'
  BY <1>16 DEF panic, vars, TypeOK, LiveParent
<1>17. ASSUME NEW c \in CPUs, NEW p \in Slots, exit(c, p) PROVE LiveParent'
  BY <1>17 DEF exit, At, Runs, Goto, wakeup1, TypeOK, LiveParent
<1>18. ASSUME NEW c \in CPUs, NEW p \in Slots, exit_parent(c, p) PROVE LiveParent'
  BY <1>18 DEF exit_parent, At, Runs, Goto, TypeOK, LiveParent
<1>19. ASSUME NEW c \in CPUs, NEW p \in Slots, exit_lock_parent(c, p) PROVE LiveParent'
  BY <1>19 DEF exit_lock_parent, At, Runs, Goto, TypeOK, LiveParent
<1>20. ASSUME NEW c \in CPUs, NEW p \in Slots, exit_lock(c, p) PROVE LiveParent'
  BY <1>20 DEF exit_lock, At, Runs, Goto, TypeOK, LiveParent
<1>21. ASSUME NEW c \in CPUs, NEW p \in Slots, reparent(c, p) PROVE LiveParent'
  BY <1>21 DEF reparent, At, Runs, Goto, TypeOK, LiveParent
<1>22. ASSUME NEW c \in CPUs, NEW p \in Slots, reparent_skip(c, p) PROVE LiveParent'
  BY <1>22 DEF reparent_skip, At, Runs, TypeOK, LiveParent
<1>23. ASSUME NEW c \in CPUs, NEW p \in Slots, reparent_child(c, p) PROVE LiveParent'
  BY <1>23 DEF reparent_child, At, Runs, Goto, TypeOK, LiveParent, Families
<1>24. ASSUME NEW c \in CPUs, NEW p \in Slots, exit_zombie(c, p) PROVE LiveParent'
  BY <1>24 DEF exit_zombie, At, Runs, Goto, wakeup1, Leave, TypeOK, LiveParent, Exits
<1>25. ASSUME NEW c \in CPUs, NEW p \in Slots, wait(c, p) PROVE LiveParent'
  BY <1>25 DEF wait, At, Runs, Goto, TypeOK, LiveParent
<1>26. ASSUME NEW c \in CPUs, NEW p \in Slots, wait_scan(c, p) PROVE LiveParent'
  BY <1>26 DEF wait_scan, At, Runs, Goto, TypeOK, LiveParent
<1>27. ASSUME NEW c \in CPUs, NEW p \in Slots, wait_skip(c, p) PROVE LiveParent'
  BY <1>27 DEF wait_skip, At, Runs, TypeOK, LiveParent
<1>28. ASSUME NEW c \in CPUs, NEW p \in Slots, wait_next(c, p) PROVE LiveParent'
  BY <1>28 DEF wait_next, At, Runs, Goto, TypeOK, LiveParent
<1>29. ASSUME NEW c \in CPUs, NEW p \in Slots, wait_reap(c, p) PROVE LiveParent'
  BY <1>29 DEF wait_reap, At, Runs, Goto, Return, Leave, After, TypeOK, LiveParent
<1>30. ASSUME NEW c \in CPUs, NEW p \in Slots, wait_copyout(c, p) PROVE LiveParent'
  BY <1>30 DEF wait_copyout, At, Runs, Goto, Return, Leave, After, TypeOK, LiveParent
<1>31. ASSUME NEW c \in CPUs, NEW p \in Slots, wait_return(c, p) PROVE LiveParent'
  BY <1>31 DEF wait_return, At, Runs, Goto, Return, Leave, After, TypeOK, LiveParent
<1>32. ASSUME NEW c \in CPUs, NEW p \in Slots, wait_sleep(c, p) PROVE LiveParent'
  BY <1>32 DEF wait_sleep, At, Runs, Goto, TypeOK, LiveParent
<1>33. ASSUME NEW c \in CPUs, NEW p \in Slots, sys_sleep(c, p) PROVE LiveParent'
  <2>1. CASE Return(p) /\ UNCHANGED tickslock
    BY <1>33, <2>1 DEF sys_sleep, At, Runs, Goto, Return, Leave, After, TypeOK,
      LiveParent
  <2>2. CASE GoesToSleep(c, p, ticks)
    BY <1>33, <2>2 DEF sys_sleep, At, Runs, Goto, TypeOK, LiveParent, GoesToSleep
  <2> QED BY <1>33, <2>1, <2>2, SleepCases DEF sys_sleep
<1>34. ASSUME NEW c \in CPUs, NEW p \in Slots, sleep(c, p) PROVE LiveParent'
  BY <1>34 DEF sleep, At, Runs, Goto, TypeOK, LiveParent
<1>35. ASSUME NEW c \in CPUs, NEW p \in Slots, sleep_again(c, p) PROVE LiveParent'
  <2>1. CASE Return(p) /\ UNCHANGED tickslock
    BY <1>35, <2>1 DEF sleep_again, At, Runs, Goto, Return, Leave, After, TypeOK,
      LiveParent
  <2>2. CASE GoesToSleep(c, p, arg[p])
    BY <1>35, <2>2 DEF sleep_again, At, Runs, Goto, TypeOK, LiveParent, GoesToSleep
  <2> QED BY <1>35, <2>1, <2>2, SleepCases DEF sleep_again
<1>36. CASE UNCHANGED vars
  BY <1>36 DEF vars, TypeOK, LiveParent
<1>37. ASSUME NEW c \in CPUs, NEW p \in Slots, wait_test(c, p) PROVE LiveParent'
  BY <1>37 DEF wait_test, At, Runs, Goto, TypeOK, LiveParent
<1> QED BY <1>1, <1>2, <1>3, <1>4, <1>5, <1>6, <1>7, <1>8, <1>9, <1>10, <1>11, <1>12,
    <1>13, <1>14, <1>15, <1>16, <1>17, <1>18, <1>19, <1>20, <1>21, <1>22, <1>23, <1>24,
    <1>25, <1>26, <1>27, <1>28, <1>29, <1>30, <1>31, <1>32, <1>33, <1>34, <1>35,
    <1>36, <1>37, ZenonT(30) DEF Next, Kernel
=============================================================================
