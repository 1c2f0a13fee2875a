----------------------------- MODULE MCKernel -----------------------------
(* Values of the constants of Kernel for TLC.                              *)
EXTENDS Kernel

(* What kernel_main creates.                                               *)
OnePriority == [priority : {0}, preemptible : {TRUE}]
TwoPriorities == [priority : {0, 1}, preemptible : {TRUE}]
ThreeKinds == TwoPriorities \cup [priority : {0}, preemptible : {FALSE}]

(* Arguments of kernel calls: pids in use, pids of free slots, the idle    *)
(* task, the wildcards.                                                    *)
NoPids == {}
UserPids == 1 .. TASK_COUNT - 1
UserOrigins == {PID_NO_TASK, PID_ALL_TASKS} \cup UserPids
AllDests == {PID_ALL_TASKS} \cup 0 .. TASK_COUNT

(* At 2 ticks per 3 milliseconds these sleeps last 0, 0, 1 and 2 ticks.    *)
Naps == {-1, 0, 1, 3}
============================================================================
