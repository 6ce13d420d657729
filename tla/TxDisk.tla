------------------------------- MODULE TxDisk -------------------------------
(***************************************************************************)
(* What the logging layer of kernel/log.c promises to the file system.     *)
(* Blocks have a volatile content, which running system calls read and     *)
(* write, and a durable one, which is what the next boot finds.  System    *)
(* calls bracket their writes by begin_op() and end_op().  The durable     *)
(* contents change in one way only: while no system call is inside its     *)
(* bracket, all volatile contents become durable at once.                  *)
(***************************************************************************)
CONSTANTS Procs,    \* the kernel threads that run file-system calls
          Home,     \* the home blocks: every block outside the log
          Data,     \* block contents
          Blank     \* the content of each block in a fresh mkfs image

VARIABLES durable,  \* [Home -> Data], what the next boot recovers
          volatile, \* [Home -> Data], what bread() returns
          active    \* the threads between begin_op() and end_op()

absVars == <<durable, volatile, active>>

AbsInit ==
  /\ durable = [b \in Home |-> Blank]
  /\ volatile = durable
  /\ active = {}

Begin(p) ==
  /\ p \notin active
  /\ active' = active \cup {p}
  /\ UNCHANGED <<durable, volatile>>

Write(p, b, d) ==
  /\ p \in active
  /\ volatile' = [volatile EXCEPT ![b] = d]
  /\ UNCHANGED <<durable, active>>

End(p) ==
  /\ p \in active
  /\ active' = active \ {p}
  /\ UNCHANGED <<durable, volatile>>

Commit ==
  /\ active = {}
  /\ durable' = volatile
  /\ UNCHANGED <<volatile, active>>

Crash ==
  /\ volatile' = durable
  /\ active' = {}
  /\ UNCHANGED durable

AbsNext ==
  \/ \E p \in Procs : Begin(p) \/ End(p)
  \/ \E p \in Procs, b \in Home, d \in Data : Write(p, b, d)
  \/ Commit
  \/ Crash

AbsSpec == AbsInit /\ [][AbsNext]_absVars
=============================================================================
