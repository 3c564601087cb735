------------------------------ MODULE MCKernel ------------------------------
(* Instances of Kernel for TLC: the workloads its configurations choose.   *)
EXTENDS Kernel

\* Threads and mutexes; nobody waits for a process.
ThreadCalls ==
    {"exit", "thread_create", "thread_exit", "thread_join", "mutex_create",
     "mutex_lock", "mutex_unlock"}

\* Processes: creation, death and join.
ProcessCalls ==
    {"exit", "thread_exit", "create_process", "join_process", "unknown"}

\* Processes with several threads that wait for processes.
GroupCalls ==
    {"exit", "thread_create", "create_process", "join_process"}
=============================================================================
