----------------------------- MODULE ProcProofs -----------------------------
(***************************************************************************)
(* Second half of the proof of the inductive invariant of the process      *)
(* table: the unlocked reads, exit() and wait(), and the sleep in wait();  *)
(* then the invariant and the properties that follow from it.              *)
(***************************************************************************)
EXTENDS ProcTableProofs

USE ProcConstants DEF ProcConstants

\* Every step keeps what the unlocked reads of reparent() and wait() have seen:
\* only the parent itself changes the field, or takes the slot away.
LEMMA ParentStableStep == ProcInv /\ [Next]_vars => ParentStable'
<1> SUFFICES ASSUME ProcInv, [Next]_vars PROVE ParentStable'
  OBVIOUS
<1> USE SlotFacts DEF ProcInv, clock
<1>1. ASSUME NEW c \in CPUs, NEW p \in Slots, scheduler(c, p) PROVE ParentStable'
  BY <1>1 DEF scheduler, TypeOK, ParentStable
<1>2. ASSUME NEW c \in CPUs, NEW p \in Slots, swtch_back(c, p) PROVE ParentStable'
  BY <1>2 DEF swtch_back, TypeOK, ParentStable
<1>3. ASSUME NEW c \in CPUs, NEW p \in Slots, yield(c, p) PROVE ParentStable'
  BY <1>3 DEF yield, TimerTrap, TypeOK, ParentStable
<1>4. ASSUME NEW c \in CPUs, NEW p \in Slots, yield_killed(c, p) PROVE ParentStable'
  BY <1>4 DEF yield_killed, TimerTrap, Goto, TypeOK, ParentStable
<1>5. ASSUME devintr PROVE ParentStable'
  BY <1>5 DEF devintr, TypeOK, ParentStable
<1>6. ASSUME clockintr PROVE ParentStable'
  BY <1>6 DEF clockintr, TypeOK, ParentStable
<1>7. ASSUME wakeup PROVE ParentStable'
  BY <1>7 DEF wakeup, WakeSlot, TypeOK, ParentStable
<1>8. ASSUME wakeup_last PROVE ParentStable'
  BY <1>8 DEF wakeup_last, WakeSlot, TypeOK, ParentStable
<1>9. ASSUME NEW c \in CPUs, NEW p \in Slots, NEW call \in Calls, usertrap(c, p, call)
      PROVE ParentStable'
  BY <1>9 DEF usertrap, At, Runs, Goto, TypeOK, ParentStable
<1>10. ASSUME NEW c \in CPUs, NEW p \in Slots, NEW s \in Slots, fork(c, p, s)
       PROVE ParentStable'
  BY <1>10 DEF fork, After, At, Runs, TypeOK, ParentStable, Families
<1>11. ASSUME NEW c \in CPUs, NEW p \in Slots, fork_fails(c, p) PROVE ParentStable'
  BY <1>11 DEF fork_fails, After, At, Runs, Goto, TypeOK, ParentStable
<1>12. ASSUME NEW c \in CPUs, NEW p \in Slots, NEW s \in Slots, fork_undone(c, p, s)
       PROVE ParentStable'
  BY <1>12 DEF fork_undone, After, At, Runs, Goto, TypeOK, ParentStable, Families
<1>13. ASSUME NEW c \in CPUs, NEW p \in Slots, NEW s \in Slots, kill(c, p, s)
       PROVE ParentStable'
  BY <1>13 DEF kill, After, At, Runs, Goto, TypeOK, ParentStable
<1>14. ASSUME NEW c \in CPUs, NEW p \in Slots, kill_none(c, p) PROVE ParentStable'
  BY <1>14 DEF kill_none, After, At, Runs, Goto, TypeOK, ParentStable
<1>15. ASSUME NEW c \in CPUs, NEW p \in Slots, exit_init(c, p) PROVE ParentStable'
  BY <1>15 DEF exit_init, At, Runs, Goto, TypeOK, ParentStable
<1>16. ASSUME NEW c \in CPUs, NEW p \in Slots, panic(c, p) PROVE ParentStable'
  BY <1>16 DEF panic, vars, TypeOK, ParentStable
<1>17. ASSUME NEW c \in CPUs, NEW p \in Slots, exit(c, p) PROVE ParentStable'
  BY <1>17 DEF exit, At, Runs, Goto, wakeup1, TypeOK, ParentStable
<1>18. ASSUME NEW c \in CPUs, NEW p \in Slots, exit_parent(c, p) PROVE ParentStable'
  BY <1>18 DEF exit_parent, At, Runs, Goto, TypeOK, ParentStable
<1>19. ASSUME NEW c \in CPUs, NEW p \in Slots, exit_lock_parent(c, p)
       PROVE ParentStable'
  BY <1>19 DEF exit_lock_parent, At, Runs, Goto, TypeOK, ParentStable
<1>20. ASSUME NEW c \in CPUs, NEW p \in Slots, exit_lock(c, p) PROVE ParentStable'
  BY <1>20 DEF exit_lock, At, Runs, Goto, TypeOK, ParentStable
<1>21. ASSUME NEW c \in CPUs, NEW p \in Slots, reparent(c, p) PROVE ParentStable'
  BY <1>21 DEF reparent, At, Runs, Goto, TypeOK, ParentStable
<1>22. ASSUME NEW c \in CPUs, NEW p \in Slots, reparent_skip(c, p) PROVE ParentStable'
  BY <1>22 DEF reparent_skip, At, Runs, TypeOK, ParentStable
<1>23. ASSUME NEW c \in CPUs, NEW p \in Slots, reparent_child(c, p) PROVE ParentStable'
  BY <1>23 DEF reparent_child, At, Runs, Goto, TypeOK, ParentStable
<1>24. ASSUME NEW c \in CPUs, NEW p \in Slots, exit_zombie(c, p) PROVE ParentStable'
  BY <1>24 DEF exit_zombie, At, Runs, Goto, wakeup1, Leave, TypeOK, ParentStable
<1>25. ASSUME NEW c \in CPUs, NEW p \in Slots, wait(c, p) PROVE ParentStable'
  BY <1>25 DEF wait, At, Runs, Goto, TypeOK, ParentStable
<1>26. ASSUME NEW c \in CPUs, NEW p \in Slots, wait_scan(c, p) PROVE ParentStable'
  BY <1>26 DEF wait_scan, At, Runs, Goto, TypeOK, ParentStable
<1>27. ASSUME NEW c \in CPUs, NEW p \in Slots, wait_skip(c, p) PROVE ParentStable'
  BY <1>27 DEF wait_skip, At, Runs, TypeOK, ParentStable
<1>28. ASSUME NEW c \in CPUs, NEW p \in Slots, wait_next(c, p) PROVE ParentStable'
  BY <1>28 DEF wait_next, At, Runs, Goto, TypeOK, ParentStable
<1>29. ASSUME NEW c \in CPUs, NEW p \in Slots, wait_reap(c, p) PROVE ParentStable'
  BY <1>29 DEF wait_reap, At, Runs, Goto, Return, Leave, After, TypeOK, ParentStable
<1>30. ASSUME NEW c \in CPUs, NEW p \in Slots, wait_copyout(c, p) PROVE ParentStable'
  BY <1>30 DEF wait_copyout, At, Runs, Goto, Return, Leave, After, TypeOK, ParentStable
<1>31. ASSUME NEW c \in CPUs, NEW p \in Slots, wait_return(c, p) PROVE ParentStable'
  BY <1>31 DEF wait_return, At, Runs, Goto, Return, Leave, After, TypeOK, ParentStable
<1>32. ASSUME NEW c \in CPUs, NEW p \in Slots, wait_sleep(c, p) PROVE ParentStable'
  BY <1>32 DEF wait_sleep, At, Runs, Goto, TypeOK, ParentStable
<1>33. ASSUME NEW c \in CPUs, NEW p \in Slots, sys_sleep(c, p) PROVE ParentStable'
  <2>1. CASE Return(p) /\ UNCHANGED tickslock
    BY <1>33, <2>1 DEF sys_sleep, At, Runs, Goto, Return, Leave, After, TypeOK,
      ParentStable
  <2>2. CASE GoesToSleep(c, p, ticks)
    BY <1>33, <2>2 DEF sys_sleep, At, Runs, Goto, TypeOK, ParentStable, GoesToSleep
  <2> QED BY <1>33, <2>1, <2>2, SleepCases DEF sys_sleep
<1>34. ASSUME NEW c \in CPUs, NEW p \in Slots, sleep(c, p) PROVE ParentStable'
  BY <1>34 DEF sleep, At, Runs, Goto, TypeOK, ParentStable
<1>35. ASSUME NEW c \in CPUs, NEW p \in Slots, sleep_again(c, p) PROVE ParentStable'
  <2>1. CASE Return(p) /\ UNCHANGED tickslock
    BY <1>35, <2>1 DEF sleep_again, At, Runs, Goto, Return, Leave, After, TypeOK,
      ParentStable
  <2>2. CASE GoesToSleep(c, p, arg[p])
    BY <1>35, <2>2 DEF sleep_again, At, Runs, Goto, TypeOK, ParentStable, GoesToSleep
  <2> QED BY <1>35, <2>1, <2>2, SleepCases DEF sleep_again
<1>36. CASE UNCHANGED vars
  BY <1>36 DEF vars, TypeOK, ParentStable
<1>37. ASSUME NEW c \in CPUs, NEW p \in Slots, wait_test(c, p) PROVE ParentStable'
  BY <1>37 DEF wait_test, At, Runs, Goto, TypeOK, ParentStable
<1> QED BY <1>1, <1>2, <1>3, <1>4, <1>5, <1>6, <1>7, <1>8, <1>9, <1>10, <1>11, <1>12,
    <1>13, <1>14, <1>15, <1>16, <1>17, <1>18, <1>19, <1>20, <1>21, <1>22, <1>23, <1>24,
    <1>25, <1>26, <1>27, <1>28, <1>29, <1>30, <1>31, <1>32, <1>33, <1>34, <1>35,
    <1>36, <1>37, ZenonT(30) DEF Next, Kernel

\* Every step keeps the bookkeeping of exit(): the parent it has read, and the
\* slots that reparent() has passed.
LEMMA ExitsStep == ProcInv /\ [Next]_vars => Exits'
<1> SUFFICES ASSUME ProcInv, [Next]_vars PROVE Exits'
  OBVIOUS
<1> USE SlotFacts DEF ProcInv, clock
<1>1. ASSUME NEW c \in CPUs, NEW p \in Slots, scheduler(c, p) PROVE Exits'
  BY <1>1 DEF scheduler, TypeOK, Exits
<1>2. ASSUME NEW c \in CPUs, NEW p \in Slots, swtch_back(c, p) PROVE Exits'
  BY <1>2 DEF swtch_back, TypeOK, Exits
<1>3. ASSUME NEW c \in CPUs, NEW p \in Slots, yield(c, p) PROVE Exits'
  BY <1>3 DEF yield, TimerTrap, TypeOK, Exits
<1>4. ASSUME NEW c \in CPUs, NEW p \in Slots, yield_killed(c, p) PROVE Exits'
  BY <1>4 DEF yield_killed, TimerTrap, Goto, TypeOK, Exits
<1>5. ASSUME devintr PROVE Exits'
  BY <1>5 DEF devintr, TypeOK, Exits
<1>6. ASSUME clockintr PROVE Exits'
  BY <1>6 DEF clockintr, TypeOK, Exits
<1>7. ASSUME wakeup PROVE Exits'
  BY <1>7 DEF wakeup, WakeSlot, TypeOK, Exits
<1>8. ASSUME wakeup_last PROVE Exits'
  BY <1>8 DEF wakeup_last, WakeSlot, TypeOK, Exits
<1>9. ASSUME NEW c \in CPUs, NEW p \in Slots, NEW call \in Calls, usertrap(c, p, call)
      PROVE Exits'
  BY <1>9 DEF usertrap, At, Runs, Goto, TypeOK, Exits
<1>10. ASSUME NEW c \in CPUs, NEW p \in Slots, NEW s \in Slots, fork(c, p, s)
       PROVE Exits'
  BY <1>10 DEF fork, After, At, Runs, TypeOK, Exits
<1>11. ASSUME NEW c \in CPUs, NEW p \in Slots, fork_fails(c, p) PROVE Exits'
  BY <1>11 DEF fork_fails, After, At, Runs, Goto, TypeOK, Exits
<1>12. ASSUME NEW c \in CPUs, NEW p \in Slots, NEW s \in Slots, fork_undone(c, p, s)
       PROVE Exits'
  BY <1>12 DEF fork_undone, After, At, Runs, Goto, TypeOK, Exits, Locks, InWait
<1>13. ASSUME NEW c \in CPUs, NEW p \in Slots, NEW s \in Slots, kill(c, p, s)
       PROVE Exits'
  BY <1>13 DEF kill, After, At, Runs, Goto, TypeOK, Exits
<1>14. ASSUME NEW c \in CPUs, NEW p \in Slots, kill_none(c, p) PROVE Exits'
  BY <1>14 DEF kill_none, After, At, Runs, Goto, TypeOK, Exits
<1>15. ASSUME NEW c \in CPUs, NEW p \in Slots, exit_init(c, p) PROVE Exits'
  BY <1>15 DEF exit_init, At, Runs, Goto, TypeOK, Exits
<1>16. ASSUME NEW c \in CPUs, NEW p \in Slots, panic(c, p) PROVE Exits'
  BY <1>16 DEF panic, vars, TypeOK, Exits
<1>17. ASSUME NEW c \in CPUs, NEW p \in Slots, exit(c, p) PROVE Exits'
  BY <1>17 DEF exit, At, Runs, Goto, wakeup1, TypeOK, Exits
<1>18. ASSUME NEW c \in CPUs, NEW p \in Slots, exit_parent(c, p) PROVE Exits'
  BY <1>18 DEF exit_parent, At, Runs, Goto, TypeOK, Exits, Families, LiveParent
<1>19. ASSUME NEW c \in CPUs, NEW p \in Slots, exit_lock_parent(c, p) PROVE Exits'
  BY <1>19 DEF exit_lock_parent, At, Runs, Goto, TypeOK, Exits
<1>20. ASSUME NEW c \in CPUs, NEW p \in Slots, exit_lock(c, p) PROVE Exits'
  BY <1>20 DEF exit_lock, At, Runs, Goto, TypeOK, Exits
<1>21. ASSUME NEW c \in CPUs, NEW p \in Slots, reparent(c, p) PROVE Exits'
  BY <1>21 DEF reparent, At, Runs, Goto, TypeOK, Exits
<1>22. ASSUME NEW c \in CPUs, NEW p \in Slots, reparent_skip(c, p) PROVE Exits'
  <2>1. idx[p] \in Nat /\ idx'[p] = idx[p] + 1 /\ \A q \in Slots \ {p} : idx'[q] = idx[q]
    BY <1>22 DEF reparent_skip, At, Runs, TypeOK
  <2>2. \A s \in Slots : s < idx'[p] => s < idx[p] \/ s = idx[p]
    BY <2>1
  <2>3. idx'[p] # 0
    BY <2>1
  <2> QED BY <1>22, <2>1, <2>2, <2>3 DEF reparent_skip, At, Runs, TypeOK, Exits
<1>23. ASSUME NEW c \in CPUs, NEW p \in Slots, reparent_child(c, p) PROVE Exits'
  <2>1. idx[p] \in Nat /\ idx'[p] = idx[p] + 1 /\ \A q \in Slots \ {p} : idx'[q] = idx[q]
    BY <1>23 DEF reparent_child, At, Runs, Goto, TypeOK
  <2>2. \A s \in Slots : s < idx'[p] => s < idx[p] \/ s = idx[p]
    BY <2>1
  <2>3. idx'[p] # 0
    BY <2>1
  <2> QED BY <1>23, <2>1, <2>2, <2>3 DEF reparent_child, At, Runs, Goto, TypeOK, Exits
<1>24. ASSUME NEW c \in CPUs, NEW p \in Slots, exit_zombie(c, p) PROVE Exits'
  BY <1>24 DEF exit_zombie, At, Runs, Goto, wakeup1, Leave, TypeOK, Exits
<1>25. ASSUME NEW c \in CPUs, NEW p \in Slots, wait(c, p) PROVE Exits'
  BY <1>25 DEF wait, At, Runs, Goto, TypeOK, Exits
<1>26. ASSUME NEW c \in CPUs, NEW p \in Slots, wait_scan(c, p) PROVE Exits'
  BY <1>26 DEF wait_scan, At, Runs, Goto, TypeOK, Exits
<1>27. ASSUME NEW c \in CPUs, NEW p \in Slots, wait_skip(c, p) PROVE Exits'
  BY <1>27 DEF wait_skip, At, Runs, TypeOK, Exits
<1>28. ASSUME NEW c \in CPUs, NEW p \in Slots, wait_next(c, p) PROVE Exits'
  BY <1>28 DEF wait_next, At, Runs, Goto, TypeOK, Exits
<1>29. ASSUME NEW c \in CPUs, NEW p \in Slots, wait_reap(c, p) PROVE Exits'
  BY <1>29 DEF wait_reap, At, Runs, Goto, Return, Leave, After, TypeOK, Exits, Locks,
    InWait
<1>30. ASSUME NEW c \in CPUs, NEW p \in Slots, wait_copyout(c, p) PROVE Exits'
  BY <1>30 DEF wait_copyout, At, Runs, Goto, Return, Leave, After, TypeOK, Exits
<1>31. ASSUME NEW c \in CPUs, NEW p \in Slots, wait_return(c, p) PROVE Exits'
  BY <1>31 DEF wait_return, At, Runs, Goto, Return, Leave, After, TypeOK, Exits
<1>32. ASSUME NEW c \in CPUs, NEW p \in Slots, wait_sleep(c, p) PROVE Exits'
  BY <1>32 DEF wait_sleep, At, Runs, Goto, TypeOK, Exits
<1>33. ASSUME NEW c \in CPUs, NEW p \in Slots, sys_sleep(c, p) PROVE Exits'
  <2>1. CASE Return(p) /\ UNCHANGED tickslock
    BY <1>33, <2>1 DEF sys_sleep, At, Runs, Goto, Return, Leave, After, TypeOK, Exits
  <2>2. CASE GoesToSleep(c, p, ticks)
    BY <1>33, <2>2 DEF sys_sleep, At, Runs, Goto, TypeOK, Exits, GoesToSleep
  <2> QED BY <1>33, <2>1, <2>2, SleepCases DEF sys_sleep
<1>34. ASSUME NEW c \in CPUs, NEW p \in Slots, sleep(c, p) PROVE Exits'
  BY <1>34 DEF sleep, At, Runs, Goto, TypeOK, Exits
<1>35. ASSUME NEW c \in CPUs, NEW p \in Slots, sleep_again(c, p) PROVE Exits'
  <2>1. CASE Return(p) /\ UNCHANGED tickslock
    BY <1>35, <2>1 DEF sleep_again, At, Runs, Goto, Return, Leave, After, TypeOK, Exits
  <2>2. CASE GoesToSleep(c, p, arg[p])
    BY <1>35, <2>2 DEF sleep_again, At, Runs, Goto, TypeOK, Exits, GoesToSleep
  <2> QED BY <1>35, <2>1, <2>2, SleepCases DEF sleep_again
<1>36. CASE UNCHANGED vars
  BY <1>36 DEF vars, TypeOK, Exits
<1>37. ASSUME NEW c \in CPUs, NEW p \in Slots, wait_test(c, p) PROVE Exits'
  BY <1>37 DEF wait_test, At, Runs, Goto, TypeOK, Exits
<1> QED BY <1>1, <1>2, <1>3, <1>4, <1>5, <1>6, <1>7, <1>8, <1>9, <1>10, <1>11, <1>12,
    <1>13, <1>14, <1>15, <1>16, <1>17, <1>18, <1>19, <1>20, <1>21, <1>22, <1>23, <1>24,
    <1>25, <1>26, <1>27, <1>28, <1>29, <1>30, <1>31, <1>32, <1>33, <1>34, <1>35,
    <1>36, <1>37, ZenonT(30) DEF Next, Kernel

\* Every step keeps the scan of wait() true: a child that becomes a zombie needs
\* the lock of its parent, which wait() holds.
LEMMA WaitsStep == ProcInv /\ [Next]_vars => Waits'
<1> SUFFICES ASSUME ProcInv, [Next]_vars PROVE Waits'
  OBVIOUS
<1> USE SlotFacts DEF ProcInv, clock
<1>1. ASSUME NEW c \in CPUs, NEW p \in Slots, scheduler(c, p) PROVE Waits'
  BY <1>1 DEF scheduler, TypeOK, Waits, InWait, OwnChild
<1>2. ASSUME NEW c \in CPUs, NEW p \in Slots, swtch_back(c, p) PROVE Waits'
  BY <1>2 DEF swtch_back, TypeOK, Waits, InWait, OwnChild
<1>3. ASSUME NEW c \in CPUs, NEW p \in Slots, yield(c, p) PROVE Waits'
  BY <1>3 DEF yield, TimerTrap, TypeOK, Waits, InWait, OwnChild
<1>4. ASSUME NEW c \in CPUs, NEW p \in Slots, yield_killed(c, p) PROVE Waits'
  BY <1>4 DEF yield_killed, TimerTrap, Goto, TypeOK, Waits, InWait, OwnChild
<1>5. ASSUME devintr PROVE Waits'
  BY <1>5 DEF devintr, TypeOK, Waits, InWait, OwnChild
<1>6. ASSUME clockintr PROVE Waits'
  BY <1>6 DEF clockintr, TypeOK, Waits, InWait, OwnChild
<1>7. ASSUME wakeup PROVE Waits'
  BY <1>7 DEF wakeup, WakeSlot, TypeOK, Waits, InWait, OwnChild
<1>8. ASSUME wakeup_last PROVE Waits'
  BY <1>8 DEF wakeup_last, WakeSlot, TypeOK, Waits, InWait, OwnChild
<1>9. ASSUME NEW c \in CPUs, NEW p \in Slots, NEW call \in Calls, usertrap(c, p, call)
      PROVE Waits'
  BY <1>9 DEF usertrap, At, Runs, Goto, TypeOK, Waits, InWait, OwnChild
<1>10. ASSUME NEW c \in CPUs, NEW p \in Slots, NEW s \in Slots, fork(c, p, s)
       PROVE Waits'
  BY <1>10 DEF fork, After, At, Runs, TypeOK, Waits, InWait, OwnChild
<1>11. ASSUME NEW c \in CPUs, NEW p \in Slots, fork_fails(c, p) PROVE Waits'
  BY <1>11 DEF fork_fails, After, At, Runs, Goto, TypeOK, Waits, InWait, OwnChild
<1>12. ASSUME NEW c \in CPUs, NEW p \in Slots, NEW s \in Slots, fork_undone(c, p, s)
       PROVE Waits'
  BY <1>12 DEF fork_undone, After, At, Runs, Goto, TypeOK, Waits, InWait, OwnChild
<1>13. ASSUME NEW c \in CPUs, NEW p \in Slots, NEW s \in Slots, kill(c, p, s)
       PROVE Waits'
  <2>1. pc[s] # "wait_sleep"
    <3> SUFFICES ASSUME pc[s] = "wait_sleep" PROVE FALSE
      OBVIOUS
    <3>1. state[s] = "RUNNING"
      BY DEF Locks
    <3>2. PICK d \in CPUs : cpuproc[d] = s
      BY <3>1 DEF Locks
    <3>3. lock[s] = d
      BY <3>1, <3>2 DEF Locks, InWait
    <3> QED BY <1>13, <3>3 DEF kill, Free
  <2> QED BY <1>13, <2>1 DEF kill, After, At, Runs, Goto, TypeOK, Waits, InWait, OwnChild
<1>14. ASSUME NEW c \in CPUs, NEW p \in Slots, kill_none(c, p) PROVE Waits'
  BY <1>14 DEF kill_none, After, At, Runs, Goto, TypeOK, Waits, InWait, OwnChild
<1>15. ASSUME NEW c \in CPUs, NEW p \in Slots, exit_init(c, p) PROVE Waits'
  BY <1>15 DEF exit_init, At, Runs, Goto, TypeOK, Waits, InWait, OwnChild
<1>16. ASSUME NEW c \in CPUs, NEW p \in Slots, panic(c, p) PROVE Waits'
  BY <1>16 DEF panic, vars, TypeOK, Waits, InWait, OwnChild
<1>17. ASSUME NEW c \in CPUs, NEW p \in Slots, exit(c, p) PROVE Waits'
  BY <1>17 DEF exit, At, Runs, Goto, wakeup1, TypeOK, Waits, InWait, OwnChild
<1>18. ASSUME NEW c \in CPUs, NEW p \in Slots, exit_parent(c, p) PROVE Waits'
  BY <1>18 DEF exit_parent, At, Runs, Goto, TypeOK, Waits, InWait, OwnChild
<1>19. ASSUME NEW c \in CPUs, NEW p \in Slots, exit_lock_parent(c, p) PROVE Waits'
  BY <1>19 DEF exit_lock_parent, At, Runs, Goto, TypeOK, Waits, InWait, OwnChild
<1>20. ASSUME NEW c \in CPUs, NEW p \in Slots, exit_lock(c, p) PROVE Waits'
  BY <1>20 DEF exit_lock, At, Runs, Goto, TypeOK, Waits, InWait, OwnChild
<1>21. ASSUME NEW c \in CPUs, NEW p \in Slots, reparent(c, p) PROVE Waits'
  BY <1>21 DEF reparent, At, Runs, Goto, TypeOK, Waits, InWait, OwnChild, Exits
<1>22. ASSUME NEW c \in CPUs, NEW p \in Slots, reparent_skip(c, p) PROVE Waits'
  BY <1>22 DEF reparent_skip, At, Runs, TypeOK, Waits, InWait, OwnChild
<1>23. ASSUME NEW c \in CPUs, NEW p \in Slots, reparent_child(c, p) PROVE Waits'
  BY <1>23 DEF reparent_child, At, Runs, Goto, TypeOK, Waits, InWait, OwnChild,
    ParentStable, Families, Exits
<1>24. ASSUME NEW c \in CPUs, NEW p \in Slots, exit_zombie(c, p) PROVE Waits'
  BY <1>24 DEF exit_zombie, At, Runs, Goto, wakeup1, Leave, TypeOK, Waits, OwnChild,
    Locks, InWait, Exits
<1>25. ASSUME NEW c \in CPUs, NEW p \in Slots, wait(c, p) PROVE Waits'
  BY <1>25 DEF wait, At, Runs, Goto, TypeOK, Waits, InWait, OwnChild
<1>26. ASSUME NEW c \in CPUs, NEW p \in Slots, wait_scan(c, p) PROVE Waits'
  BY <1>26 DEF wait_scan, At, Runs, Goto, TypeOK, Waits, InWait, OwnChild
<1>27. ASSUME NEW c \in CPUs, NEW p \in Slots, wait_skip(c, p) PROVE Waits'
  <2>1. idx[p] \in Nat /\ idx'[p] = idx[p] + 1 /\ \A q \in Slots \ {p} : idx'[q] = idx[q]
    BY <1>27 DEF wait_skip, At, Runs, TypeOK
  <2>2. \A s \in Slots : s < idx'[p] => s < idx[p] \/ s = idx[p]
    BY <2>1
  <2>3. idx'[p] # 0
    BY <2>1
  <2> QED BY <1>27, <2>1, <2>2, <2>3 DEF wait_skip, At, Runs, TypeOK, Waits, InWait,
    OwnChild
<1>28. ASSUME NEW c \in CPUs, NEW p \in Slots, wait_next(c, p) PROVE Waits'
  <2>1. idx[p] \in Nat /\ idx'[p] = idx[p] + 1 /\ \A q \in Slots \ {p} : idx'[q] = idx[q]
    BY <1>28 DEF wait_next, At, Runs, Goto, TypeOK
  <2>2. \A s \in Slots : s < idx'[p] => s < idx[p] \/ s = idx[p]
    BY <2>1
  <2>3. idx'[p] # 0
    BY <2>1
  <2> QED BY <1>28, <2>1, <2>2, <2>3 DEF wait_next, At, Runs, Goto, TypeOK, Waits,
    InWait, OwnChild
<1>29. ASSUME NEW c \in CPUs, NEW p \in Slots, wait_reap(c, p) PROVE Waits'
  BY <1>29 DEF wait_reap, At, Runs, Goto, Return, Leave, After, TypeOK, Waits, InWait,
    OwnChild
<1>30. ASSUME NEW c \in CPUs, NEW p \in Slots, wait_copyout(c, p) PROVE Waits'
  BY <1>30 DEF wait_copyout, At, Runs, Goto, Return, Leave, After, TypeOK, Waits,
    InWait, OwnChild
<1>31. ASSUME NEW c \in CPUs, NEW p \in Slots, wait_return(c, p) PROVE Waits'
  BY <1>31 DEF wait_return, At, Runs, Goto, Return, Leave, After, TypeOK, Waits, InWait,
    OwnChild
<1>32. ASSUME NEW c \in CPUs, NEW p \in Slots, wait_sleep(c, p) PROVE Waits'
  BY <1>32 DEF wait_sleep, At, Runs, Goto, TypeOK, Waits, InWait, OwnChild
<1>33. ASSUME NEW c \in CPUs, NEW p \in Slots, sys_sleep(c, p) PROVE Waits'
  <2>1. CASE Return(p) /\ UNCHANGED tickslock
    BY <1>33, <2>1 DEF sys_sleep, At, Runs, Goto, Return, Leave, After, TypeOK, Waits,
      InWait, OwnChild
  <2>2. CASE GoesToSleep(c, p, ticks)
    BY <1>33, <2>2 DEF sys_sleep, At, Runs, Goto, TypeOK, Waits, InWait, OwnChild,
      GoesToSleep
  <2> QED BY <1>33, <2>1, <2>2, SleepCases DEF sys_sleep
<1>34. ASSUME NEW c \in CPUs, NEW p \in Slots, sleep(c, p) PROVE Waits'
  BY <1>34 DEF sleep, At, Runs, Goto, TypeOK, Waits, InWait, OwnChild
<1>35. ASSUME NEW c \in CPUs, NEW p \in Slots, sleep_again(c, p) PROVE Waits'
  <2>1. CASE Return(p) /\ UNCHANGED tickslock
    BY <1>35, <2>1 DEF sleep_again, At, Runs, Goto, Return, Leave, After, TypeOK, Waits,
      InWait, OwnChild
  <2>2. CASE GoesToSleep(c, p, arg[p])
    BY <1>35, <2>2 DEF sleep_again, At, Runs, Goto, TypeOK, Waits, InWait, OwnChild,
      GoesToSleep
  <2> QED BY <1>35, <2>1, <2>2, SleepCases DEF sleep_again
<1>36. CASE UNCHANGED vars
  BY <1>36 DEF vars, TypeOK, Waits, InWait, OwnChild
<1>37. ASSUME NEW c \in CPUs, NEW p \in Slots, wait_test(c, p) PROVE Waits'
  BY <1>37 DEF wait_test, At, Runs, Goto, TypeOK, Waits, InWait, OwnChild
<1> QED BY <1>1, <1>2, <1>3, <1>4, <1>5, <1>6, <1>7, <1>8, <1>9, <1>10, <1>11, <1>12,
    <1>13, <1>14, <1>15, <1>16, <1>17, <1>18, <1>19, <1>20, <1>21, <1>22, <1>23, <1>24,
    <1>25, <1>26, <1>27, <1>28, <1>29, <1>30, <1>31, <1>32, <1>33, <1>34, <1>35,
    <1>36, <1>37, ZenonT(30) DEF Next, Kernel

\* No step leaves a process asleep in wait() with a zombie child: it falls asleep
\* after a scan that found none, and exit() wakes it with the step that makes
\* the zombie.
LEMMA WakeupStep == ProcInv /\ [Next]_vars => NoLostWakeup'
<1> SUFFICES ASSUME ProcInv, [Next]_vars PROVE NoLostWakeup'
  OBVIOUS
<1> USE SlotFacts DEF ProcInv, clock
<1>1. ASSUME NEW c \in CPUs, NEW p \in Slots, scheduler(c, p) PROVE NoLostWakeup'
  BY <1>1 DEF scheduler, TypeOK, NoLostWakeup, OwnChild
<1>2. ASSUME NEW c \in CPUs, NEW p \in Slots, swtch_back(c, p) PROVE NoLostWakeup'
  BY <1>2 DEF swtch_back, TypeOK, NoLostWakeup, OwnChild
<1>3. ASSUME NEW c \in CPUs, NEW p \in Slots, yield(c, p) PROVE NoLostWakeup'
  BY <1>3 DEF yield, TimerTrap, TypeOK, NoLostWakeup, OwnChild
<1>4. ASSUME NEW c \in CPUs, NEW p \in Slots, yield_killed(c, p) PROVE NoLostWakeup'
  BY <1>4 DEF yield_killed, TimerTrap, Goto, TypeOK, NoLostWakeup, OwnChild
<1>5. ASSUME devintr PROVE NoLostWakeup'
  BY <1>5 DEF devintr, TypeOK, NoLostWakeup, OwnChild
<1>6. ASSUME clockintr PROVE NoLostWakeup'
  BY <1>6 DEF clockintr, TypeOK, NoLostWakeup, OwnChild
<1>7. ASSUME wakeup PROVE NoLostWakeup'
  BY <1>7 DEF wakeup, WakeSlot, TypeOK, NoLostWakeup, OwnChild
<1>8. ASSUME wakeup_last PROVE NoLostWakeup'
  BY <1>8 DEF wakeup_last, WakeSlot, TypeOK, NoLostWakeup, OwnChild
<1>9. ASSUME NEW c \in CPUs, NEW p \in Slots, NEW call \in Calls, usertrap(c, p, call)
      PROVE NoLostWakeup'
  BY <1>9 DEF usertrap, At, Runs, Goto, TypeOK, NoLostWakeup, OwnChild
<1>10. ASSUME NEW c \in CPUs, NEW p \in Slots, NEW s \in Slots, fork(c, p, s)
       PROVE NoLostWakeup'
  BY <1>10 DEF fork, After, At, Runs, TypeOK, NoLostWakeup, OwnChild
<1>11. ASSUME NEW c \in CPUs, NEW p \in Slots, fork_fails(c, p) PROVE NoLostWakeup'
  BY <1>11 DEF fork_fails, After, At, Runs, Goto, TypeOK, NoLostWakeup, OwnChild
<1>12. ASSUME NEW c \in CPUs, NEW p \in Slots, NEW s \in Slots, fork_undone(c, p, s)
       PROVE NoLostWakeup'
  BY <1>12 DEF fork_undone, After, At, Runs, Goto, TypeOK, NoLostWakeup, OwnChild
<1>13. ASSUME NEW c \in CPUs, NEW p \in Slots, NEW s \in Slots, kill(c, p, s)
       PROVE NoLostWakeup'
  BY <1>13 DEF kill, After, At, Runs, Goto, TypeOK, NoLostWakeup, OwnChild
<1>14. ASSUME NEW c \in CPUs, NEW p \in Slots, kill_none(c, p) PROVE NoLostWakeup'
  BY <1>14 DEF kill_none, After, At, Runs, Goto, TypeOK, NoLostWakeup, OwnChild
<1>15. ASSUME NEW c \in CPUs, NEW p \in Slots, exit_init(c, p) PROVE NoLostWakeup'
  BY <1>15 DEF exit_init, At, Runs, Goto, TypeOK, NoLostWakeup, OwnChild
<1>16. ASSUME NEW c \in CPUs, NEW p \in Slots, panic(c, p) PROVE NoLostWakeup'
  BY <1>16 DEF panic, vars, TypeOK, NoLostWakeup, OwnChild
<1>17. ASSUME NEW c \in CPUs, NEW p \in Slots, exit(c, p) PROVE NoLostWakeup'
  BY <1>17 DEF exit, At, Runs, Goto, wakeup1, TypeOK, NoLostWakeup, OwnChild
<1>18. ASSUME NEW c \in CPUs, NEW p \in Slots, exit_parent(c, p) PROVE NoLostWakeup'
  BY <1>18 DEF exit_parent, At, Runs, Goto, TypeOK, NoLostWakeup, OwnChild
<1>19. ASSUME NEW c \in CPUs, NEW p \in Slots, exit_lock_parent(c, p)
       PROVE NoLostWakeup'
  BY <1>19 DEF exit_lock_parent, At, Runs, Goto, TypeOK, NoLostWakeup, OwnChild
<1>20. ASSUME NEW c \in CPUs, NEW p \in Slots, exit_lock(c, p) PROVE NoLostWakeup'
  BY <1>20 DEF exit_lock, At, Runs, Goto, TypeOK, NoLostWakeup, OwnChild
<1>21. ASSUME NEW c \in CPUs, NEW p \in Slots, reparent(c, p) PROVE NoLostWakeup'
  BY <1>21 DEF reparent, At, Runs, Goto, TypeOK, NoLostWakeup, OwnChild
<1>22. ASSUME NEW c \in CPUs, NEW p \in Slots, reparent_skip(c, p) PROVE NoLostWakeup'
  BY <1>22 DEF reparent_skip, At, Runs, TypeOK, NoLostWakeup, OwnChild
<1>23. ASSUME NEW c \in CPUs, NEW p \in Slots, reparent_child(c, p) PROVE NoLostWakeup'
  BY <1>23 DEF reparent_child, At, Runs, Goto, TypeOK, NoLostWakeup, OwnChild,
    ParentStable, Families, Exits, Waits, InWait
<1>24. ASSUME NEW c \in CPUs, NEW p \in Slots, exit_zombie(c, p) PROVE NoLostWakeup'
  BY <1>24 DEF exit_zombie, At, Runs, Goto, wakeup1, Leave, TypeOK, NoLostWakeup,
    OwnChild, Exits
<1>25. ASSUME NEW c \in CPUs, NEW p \in Slots, wait(c, p) PROVE NoLostWakeup'
  BY <1>25 DEF wait, At, Runs, Goto, TypeOK, NoLostWakeup, OwnChild
<1>26. ASSUME NEW c \in CPUs, NEW p \in Slots, wait_scan(c, p) PROVE NoLostWakeup'
  BY <1>26 DEF wait_scan, At, Runs, Goto, TypeOK, NoLostWakeup, OwnChild
<1>27. ASSUME NEW c \in CPUs, NEW p \in Slots, wait_skip(c, p) PROVE NoLostWakeup'
  BY <1>27 DEF wait_skip, At, Runs, TypeOK, NoLostWakeup, OwnChild
<1>28. ASSUME NEW c \in CPUs, NEW p \in Slots, wait_next(c, p) PROVE NoLostWakeup'
  BY <1>28 DEF wait_next, At, Runs, Goto, TypeOK, NoLostWakeup, OwnChild
<1>29. ASSUME NEW c \in CPUs, NEW p \in Slots, wait_reap(c, p) PROVE NoLostWakeup'
  BY <1>29 DEF wait_reap, At, Runs, Goto, Return, Leave, After, TypeOK, NoLostWakeup,
    OwnChild
<1>30. ASSUME NEW c \in CPUs, NEW p \in Slots, wait_copyout(c, p) PROVE NoLostWakeup'
  BY <1>30 DEF wait_copyout, At, Runs, Goto, Return, Leave, After, TypeOK, NoLostWakeup,
    OwnChild
<1>31. ASSUME NEW c \in CPUs, NEW p \in Slots, wait_return(c, p) PROVE NoLostWakeup'
  BY <1>31 DEF wait_return, At, Runs, Goto, Return, Leave, After, TypeOK, NoLostWakeup,
    OwnChild
<1>32. ASSUME NEW c \in CPUs, NEW p \in Slots, wait_sleep(c, p) PROVE NoLostWakeup'
  BY <1>32 DEF wait_sleep, At, Runs, Goto, TypeOK, NoLostWakeup, OwnChild, Waits, InWait
<1>33. ASSUME NEW c \in CPUs, NEW p \in Slots, sys_sleep(c, p) PROVE NoLostWakeup'
  <2>1. CASE Return(p) /\ UNCHANGED tickslock
    BY <1>33, <2>1 DEF sys_sleep, At, Runs, Goto, Return, Leave, After, TypeOK,
      NoLostWakeup, OwnChild
  <2>2. CASE GoesToSleep(c, p, ticks)
    BY <1>33, <2>2 DEF sys_sleep, At, Runs, Goto, TypeOK, NoLostWakeup, OwnChild,
      GoesToSleep
  <2> QED BY <1>33, <2>1, <2>2, SleepCases DEF sys_sleep
<1>34. ASSUME NEW c \in CPUs, NEW p \in Slots, sleep(c, p) PROVE NoLostWakeup'
  BY <1>34 DEF sleep, At, Runs, Goto, TypeOK, NoLostWakeup, OwnChild
<1>35. ASSUME NEW c \in CPUs, NEW p \in Slots, sleep_again(c, p) PROVE NoLostWakeup'
  <2>1. CASE Return(p) /\ UNCHANGED tickslock
    BY <1>35, <2>1 DEF sleep_again, At, Runs, Goto, Return, Leave, After, TypeOK,
      NoLostWakeup, OwnChild
  <2>2. CASE GoesToSleep(c, p, arg[p])
    BY <1>35, <2>2 DEF sleep_again, At, Runs, Goto, TypeOK, NoLostWakeup, OwnChild,
      GoesToSleep
  <2> QED BY <1>35, <2>1, <2>2, SleepCases DEF sleep_again
<1>36. CASE UNCHANGED vars
  BY <1>36 DEF vars, TypeOK, NoLostWakeup, OwnChild
<1>37. ASSUME NEW c \in CPUs, NEW p \in Slots, wait_test(c, p) PROVE NoLostWakeup'
  BY <1>37 DEF wait_test, At, Runs, Goto, TypeOK, NoLostWakeup, OwnChild
<1> QED BY <1>1, <1>2, <1>3, <1>4, <1>5, <1>6, <1>7, <1>8, <1>9, <1>10, <1>11, <1>12,
    <1>13, <1>14, <1>15, <1>16, <1>17, <1>18, <1>19, <1>20, <1>21, <1>22, <1>23, <1>24,
    <1>25, <1>26, <1>27, <1>28, <1>29, <1>30, <1>31, <1>32, <1>33, <1>34, <1>35,
    <1>36, <1>37, ZenonT(30) DEF Next, Kernel

\* No step leaves a killed process asleep in wait(): kill() needs p->lock, which
\* wait() holds from its test of p->killed to the switch, and wakes a sleeper.
LEMMA KillStep == ProcInv /\ [Next]_vars => NoLostKill'
<1> SUFFICES ASSUME ProcInv, [Next]_vars PROVE NoLostKill'
  OBVIOUS
<1> USE SlotFacts DEF ProcInv, clock
<1>1. ASSUME NEW c \in CPUs, NEW p \in Slots, scheduler(c, p) PROVE NoLostKill'
  BY <1>1 DEF scheduler, TypeOK, NoLostKill
<1>2. ASSUME NEW c \in CPUs, NEW p \in Slots, swtch_back(c, p) PROVE NoLostKill'
  BY <1>2 DEF swtch_back, TypeOK, NoLostKill
<1>3. ASSUME NEW c \in CPUs, NEW p \in Slots, yield(c, p) PROVE NoLostKill'
  BY <1>3 DEF yield, TimerTrap, TypeOK, NoLostKill
<1>4. ASSUME NEW c \in CPUs, NEW p \in Slots, yield_killed(c, p) PROVE NoLostKill'
  BY <1>4 DEF yield_killed, TimerTrap, Goto, TypeOK, NoLostKill
<1>5. ASSUME devintr PROVE NoLostKill'
  BY <1>5 DEF devintr, TypeOK, NoLostKill
<1>6. ASSUME clockintr PROVE NoLostKill'
  BY <1>6 DEF clockintr, TypeOK, NoLostKill
<1>7. ASSUME wakeup PROVE NoLostKill'
  BY <1>7 DEF wakeup, WakeSlot, TypeOK, NoLostKill
<1>8. ASSUME wakeup_last PROVE NoLostKill'
  BY <1>8 DEF wakeup_last, WakeSlot, TypeOK, NoLostKill
<1>9. ASSUME NEW c \in CPUs, NEW p \in Slots, NEW call \in Calls, usertrap(c, p, call)
      PROVE NoLostKill'
  BY <1>9 DEF usertrap, At, Runs, Goto, TypeOK, NoLostKill
<1>10. ASSUME NEW c \in CPUs, NEW p \in Slots, NEW s \in Slots, fork(c, p, s)
       PROVE NoLostKill'
  BY <1>10 DEF fork, After, At, Runs, TypeOK, NoLostKill
<1>11. ASSUME NEW c \in CPUs, NEW p \in Slots, fork_fails(c, p) PROVE NoLostKill'
  BY <1>11 DEF fork_fails, After, At, Runs, Goto, TypeOK, NoLostKill
<1>12. ASSUME NEW c \in CPUs, NEW p \in Slots, NEW s \in Slots, fork_undone(c, p, s)
       PROVE NoLostKill'
  BY <1>12 DEF fork_undone, After, At, Runs, Goto, TypeOK, NoLostKill
<1>13. ASSUME NEW c \in CPUs, NEW p \in Slots, NEW s \in Slots, kill(c, p, s)
       PROVE NoLostKill'
  BY <1>13 DEF kill, After, At, Runs, Goto, TypeOK, NoLostKill
<1>14. ASSUME NEW c \in CPUs, NEW p \in Slots, kill_none(c, p) PROVE NoLostKill'
  BY <1>14 DEF kill_none, After, At, Runs, Goto, TypeOK, NoLostKill
<1>15. ASSUME NEW c \in CPUs, NEW p \in Slots, exit_init(c, p) PROVE NoLostKill'
  BY <1>15 DEF exit_init, At, Runs, Goto, TypeOK, NoLostKill
<1>16. ASSUME NEW c \in CPUs, NEW p \in Slots, panic(c, p) PROVE NoLostKill'
  BY <1>16 DEF panic, vars, TypeOK, NoLostKill
<1>17. ASSUME NEW c \in CPUs, NEW p \in Slots, exit(c, p) PROVE NoLostKill'
  BY <1>17 DEF exit, At, Runs, Goto, wakeup1, TypeOK, NoLostKill
<1>18. ASSUME NEW c \in CPUs, NEW p \in Slots, exit_parent(c, p) PROVE NoLostKill'
  BY <1>18 DEF exit_parent, At, Runs, Goto, TypeOK, NoLostKill
<1>19. ASSUME NEW c \in CPUs, NEW p \in Slots, exit_lock_parent(c, p)
       PROVE NoLostKill'
  BY <1>19 DEF exit_lock_parent, At, Runs, Goto, TypeOK, NoLostKill
<1>20. ASSUME NEW c \in CPUs, NEW p \in Slots, exit_lock(c, p) PROVE NoLostKill'
  BY <1>20 DEF exit_lock, At, Runs, Goto, TypeOK, NoLostKill
<1>21. ASSUME NEW c \in CPUs, NEW p \in Slots, reparent(c, p) PROVE NoLostKill'
  BY <1>21 DEF reparent, At, Runs, Goto, TypeOK, NoLostKill
<1>22. ASSUME NEW c \in CPUs, NEW p \in Slots, reparent_skip(c, p) PROVE NoLostKill'
  BY <1>22 DEF reparent_skip, At, Runs, TypeOK, NoLostKill
<1>23. ASSUME NEW c \in CPUs, NEW p \in Slots, reparent_child(c, p) PROVE NoLostKill'
  BY <1>23 DEF reparent_child, At, Runs, Goto, TypeOK, NoLostKill
<1>24. ASSUME NEW c \in CPUs, NEW p \in Slots, exit_zombie(c, p) PROVE NoLostKill'
  BY <1>24 DEF exit_zombie, At, Runs, Goto, wakeup1, Leave, TypeOK, NoLostKill
<1>25. ASSUME NEW c \in CPUs, NEW p \in Slots, wait(c, p) PROVE NoLostKill'
  BY <1>25 DEF wait, At, Runs, Goto, TypeOK, NoLostKill
<1>26. ASSUME NEW c \in CPUs, NEW p \in Slots, wait_scan(c, p) PROVE NoLostKill'
  BY <1>26 DEF wait_scan, At, Runs, Goto, TypeOK, NoLostKill
<1>27. ASSUME NEW c \in CPUs, NEW p \in Slots, wait_skip(c, p) PROVE NoLostKill'
  BY <1>27 DEF wait_skip, At, Runs, TypeOK, NoLostKill
<1>28. ASSUME NEW c \in CPUs, NEW p \in Slots, wait_next(c, p) PROVE NoLostKill'
  BY <1>28 DEF wait_next, At, Runs, Goto, TypeOK, NoLostKill
<1>29. ASSUME NEW c \in CPUs, NEW p \in Slots, wait_reap(c, p) PROVE NoLostKill'
  BY <1>29 DEF wait_reap, At, Runs, Goto, Return, Leave, After, TypeOK, NoLostKill
<1>30. ASSUME NEW c \in CPUs, NEW p \in Slots, wait_copyout(c, p) PROVE NoLostKill'
  BY <1>30 DEF wait_copyout, At, Runs, Goto, Return, Leave, After, TypeOK, NoLostKill
<1>31. ASSUME NEW c \in CPUs, NEW p \in Slots, wait_return(c, p) PROVE NoLostKill'
  BY <1>31 DEF wait_return, At, Runs, Goto, Return, Leave, After, TypeOK, NoLostKill
<1>32. ASSUME NEW c \in CPUs, NEW p \in Slots, wait_sleep(c, p) PROVE NoLostKill'
  BY <1>32 DEF wait_sleep, At, Runs, Goto, TypeOK, NoLostKill, Waits, InWait
<1>33. ASSUME NEW c \in CPUs, NEW p \in Slots, sys_sleep(c, p) PROVE NoLostKill'
  <2>1. CASE Return(p) /\ UNCHANGED tickslock
    BY <1>33, <2>1 DEF sys_sleep, At, Runs, Goto, Return, Leave, After, TypeOK,
      NoLostKill
  <2>2. CASE GoesToSleep(c, p, ticks)
    BY <1>33, <2>2 DEF sys_sleep, At, Runs, Goto, TypeOK, NoLostKill,
      GoesToSleep
  <2> QED BY <1>33, <2>1, <2>2, SleepCases DEF sys_sleep
<1>34. ASSUME NEW c \in CPUs, NEW p \in Slots, sleep(c, p) PROVE NoLostKill'
  BY <1>34 DEF sleep, At, Runs, Goto, TypeOK, NoLostKill
<1>35. ASSUME NEW c \in CPUs, NEW p \in Slots, sleep_again(c, p) PROVE NoLostKill'
  <2>1. CASE Return(p) /\ UNCHANGED tickslock
    BY <1>35, <2>1 DEF sleep_again, At, Runs, Goto, Return, Leave, After, TypeOK,
      NoLostKill
  <2>2. CASE GoesToSleep(c, p, arg[p])
    BY <1>35, <2>2 DEF sleep_again, At, Runs, Goto, TypeOK, NoLostKill,
      GoesToSleep
  <2> QED BY <1>35, <2>1, <2>2, SleepCases DEF sleep_again
<1>36. CASE UNCHANGED vars
  BY <1>36 DEF vars, TypeOK, NoLostKill
<1>37. ASSUME NEW c \in CPUs, NEW p \in Slots, wait_test(c, p) PROVE NoLostKill'
  BY <1>37 DEF wait_test, At, Runs, Goto, TypeOK, NoLostKill
<1> QED BY <1>1, <1>2, <1>3, <1>4, <1>5, <1>6, <1>7, <1>8, <1>9, <1>10, <1>11, <1>12,
    <1>13, <1>14, <1>15, <1>16, <1>17, <1>18, <1>19, <1>20, <1>21, <1>22, <1>23, <1>24,
    <1>25, <1>26, <1>27, <1>28, <1>29, <1>30, <1>31, <1>32, <1>33, <1>34, <1>35,
    <1>36, <1>37, ZenonT(30) DEF Next, Kernel

-----------------------------------------------------------------------------
\* The invariant of the process table holds in every reachable state, whatever
\* processes, CPUs and timer interrupts do and in whatever order.
THEOREM ProcInvariant == Spec => []ProcInv
<1>1. Init => ProcInv
  BY InitProcInv
<1>2. ProcInv /\ [Next]_vars => ProcInv'
  BY TypeStep, StackStep, LocksStep, FamiliesStep, LiveParentStep, ParentStableStep,
     ExitsStep, WaitsStep, WakeupStep, KillStep DEF ProcInv
<1> QED BY <1>1, <1>2, PTL DEF Spec

\* Two CPUs are never on one kernel stack: the lock hand-over between sched() and
\* scheduler() is sound.
THEOREM OneCPU == Spec => []OneStackPerCPU
<1>1. ProcInv => OneStackPerCPU
  BY DEF ProcInv
<1> QED BY <1>1, ProcInvariant, PTL

\* wait() loses no wakeup of the exit() of a child that the process has forked.
THEOREM WaitLosesNoWakeup == Spec => []NoLostWakeup
<1>1. ProcInv => NoLostWakeup
  BY DEF ProcInv
<1> QED BY <1>1, ProcInvariant, PTL

\* wait() loses no kill(): a process that is killed while it waits does not sleep.
THEOREM WaitLosesNoKill == Spec => []NoLostKill
<1>1. ProcInv => NoLostKill
  BY DEF ProcInv
<1> QED BY <1>1, ProcInvariant, PTL

\* The unlocked reads of pp->parent in reparent() and np->parent in wait() are
\* still true when the lock has been taken.
THEOREM UnlockedParentReads == Spec => []ParentStable
<1>1. ProcInv => ParentStable
  BY DEF ProcInv
<1> QED BY <1>1, ProcInvariant, PTL

\* No chain of exits leaves a process without a parent that can wait() for it.
THEOREM NoOrphans == Spec => []LiveParent
<1>1. ProcInv => LiveParent
  BY DEF ProcInv
<1> QED BY <1>1, ProcInvariant, PTL
=============================================================================
