----------------------------- MODULE Descriptors -----------------------------
(***************************************************************************)
(* The process's table of file descriptors, as the calls socket(2),        *)
(* open(2) and close(2) of the library change it.  A table is a function   *)
(* from descriptors to their owner: Free, or whoever asked for it.         *)
(***************************************************************************)
EXTENDS Integers

CONSTANT MaxFd    \* the largest descriptor of the process (RLIMIT_NOFILE - 1)

ASSUME MaxFdAssumption == MaxFd \in Nat

Fds  == 0 .. MaxFd
NoFd == -1
Free == "free"

(* The descriptor the next socket() or open() returns: the lowest free one, *)
(* as a set that is empty when the table is full.                           *)
Lowest(fd) ==
  {d \in Fds : fd[d] = Free /\ \A e \in Fds : e < d => fd[e] # Free}

HasRoom(fd) == \E d \in Fds : fd[d] = Free

IsOpen(fd, d) == d \in Fds /\ fd[d] # Free

(* close(d): EBADF on a descriptor that is not open leaves the table alone. *)
AfterClose(fd, d) ==
  IF IsOpen(fd, d) THEN [fd EXCEPT ![d] = Free] ELSE fd
=============================================================================
