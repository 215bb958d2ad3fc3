------------------------------- MODULE GetPid -------------------------------
(***************************************************************************)
(* The pid allocator of kern/process/proc.c.  Between calls get_pid keeps  *)
(* the last pid it gave and a bound next_safe up to which no pid is in use,*)
(* so that most calls need not walk proc_list.                             *)
(*                                                                         *)
(* do_fork calls it with interrupts off; the walk is cut into its turns    *)
(* here, with nothing between them.                                        *)
(***************************************************************************)
EXTENDS Integers, Sequences, SequencesExt

CONSTANTS MAX_PID,
          MaxListed   \* processes in proc_list: MAX_PROCESS - 1, idleproc is not in it

\* static_assert(MAX_PID > MAX_PROCESS)
ASSUME PidAssumption ==
  /\ MAX_PID \in Nat /\ MaxListed \in Nat
  /\ MAX_PID > MaxListed + 1 /\ MAX_PID > 1

VARIABLES proc_list,   \* the pids of the processes in the list, the newest first
          last_pid, next_safe,
          le,          \* the entry the walk looks at next; 0 outside get_pid
          restarts     \* history: how often the walk began again in this call

pidVars == <<proc_list, last_pid, next_safe, le, restarts>>

Pid == 1..MAX_PID - 1

PidTypeOK ==
  /\ proc_list \in Seq(Pid)
  /\ last_pid \in 1..MAX_PID
  /\ next_safe \in 1..MAX_PID
  /\ le \in 0..Len(proc_list) + 1
  /\ restarts \in Nat

PidInit ==
  /\ proc_list = <<>>
  /\ last_pid = MAX_PID /\ next_safe = MAX_PID
  /\ le = 0 /\ restarts = 0

-----------------------------------------------------------------------------
\* Mutant: last_pid may reach next_safe.
StillSafeToo(pid) == pid <= next_safe

\* pid < next_safe: no process that was looked at has it.
StillSafe(pid) == pid < next_safe

\* Mutant: the walk that begins again does so from the first pid.
AgainFromFirst(pid) == 1

\* The candidate of a walk that begins again, which the end of the pids wraps.
AgainFrom(pid) == IF pid >= MAX_PID THEN 1 ELSE pid

\* get_pid begins: the next pid is free, or the list must be walked.
GetPid ==
  /\ le = 0 /\ Len(proc_list) < MaxListed
  /\ last_pid' = IF last_pid + 1 >= MAX_PID THEN 1 ELSE last_pid + 1
  /\ IF last_pid + 1 < MAX_PID /\ StillSafe(last_pid + 1)
       THEN le' = Len(proc_list) + 1 /\ UNCHANGED next_safe
       ELSE le' = 1 /\ next_safe' = MAX_PID
  /\ restarts' = 0
  /\ UNCHANGED proc_list

Walking == le \in DOMAIN proc_list

\* The pid is taken: try the one after it, from the begin of the list if that may be
\* taken by a process that was looked at before.
Taken ==
  /\ Walking /\ proc_list[le] = last_pid
  /\ IF StillSafe(last_pid + 1)
       THEN last_pid' = last_pid + 1 /\ le' = le + 1 /\ UNCHANGED <<next_safe, restarts>>
       ELSE /\ last_pid' = AgainFrom(last_pid + 1)
            /\ next_safe' = MAX_PID
            /\ le' = 1 /\ restarts' = restarts + 1
  /\ UNCHANGED proc_list

\* Another pid is a bound if it is a smaller one than the bound so far.
Other ==
  /\ Walking /\ proc_list[le] # last_pid
  /\ next_safe' = IF proc_list[le] > last_pid /\ next_safe > proc_list[le]
                    THEN proc_list[le] ELSE next_safe
  /\ le' = le + 1
  /\ UNCHANGED <<proc_list, last_pid, restarts>>

\* get_pid is back; hash_proc and set_links.
Linked ==
  /\ le = Len(proc_list) + 1
  /\ proc_list' = <<last_pid>> \o proc_list
  /\ le' = 0
  /\ restarts' = 0
  /\ UNCHANGED <<last_pid, next_safe>>

\* remove_links of any process but init, the oldest.
Unlinked(i) ==
  /\ le = 0 /\ i \in 1..Len(proc_list) - 1
  /\ proc_list' = RemoveAt(proc_list, i)
  /\ UNCHANGED <<last_pid, next_safe, le, restarts>>

PidNext == GetPid \/ Taken \/ Other \/ Linked \/ \E i \in DOMAIN proc_list : Unlinked(i)

PidSpec == PidInit /\ [][PidNext]_pidVars

-----------------------------------------------------------------------------
\* Between calls no process has a pid between the two numbers that are kept; during
\* a walk none of those looked at has the candidate or one up to the bound.
NoneBetween ==
  \A i \in DOMAIN proc_list :
    /\ le = 0 => ~(last_pid < proc_list[i] /\ proc_list[i] < next_safe)
    /\ i < le => ~(last_pid <= proc_list[i] /\ proc_list[i] < next_safe)

\* The pid that get_pid returns is nobody's, after any number of forks and exits and
\* of wraps at MAX_PID.
FreshPid ==
  le = Len(proc_list) + 1 => last_pid \in Pid /\ last_pid \notin ToSet(proc_list)

\* No two processes have one pid, ever.
PidsDistinct == IsInjective(proc_list)

\* The walk does not begin again for ever: at most once for each process.
WalkEnds == restarts <= Len(proc_list)

\* What get_pid keeps between calls is right, and so are the pids it gives.
PidInv == PidTypeOK /\ NoneBetween /\ FreshPid /\ PidsDistinct
=============================================================================
