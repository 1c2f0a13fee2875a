------------------------------- MODULE Task -------------------------------
(***************************************************************************)
(* The task table and the ready queues of the kernel (kernel/task.c).      *)
(*                                                                         *)
(* A task is named by its index in ptable. Each field of task_t that the   *)
(* scheduler uses is a function on the table; the singly linked list that  *)
(* starts at queue_head[p] and ends at queue_tail[p] is the sequence       *)
(* queue[p] (module ReadyList models the pointers and is shown to          *)
(* implement it). The operations are conjuncts of the actions of module    *)
(* Kernel: every one of them runs with interrupts disabled.                *)
(***************************************************************************)
EXTENDS Integers, Sequences, SequencesExt

CONSTANTS TASK_COUNT,             \* number of slots of ptable
          LOWEST_TASK_PRIORITY,   \* priorities are 0 .. LOWEST_TASK_PRIORITY
          TASK_DEFAULT_QUANTUM,   \* clock ticks a preemptible task may run
          NULL

ASSUME TaskAssumption ==
    /\ TASK_COUNT \in Nat \ {0}
    /\ LOWEST_TASK_PRIORITY \in Nat
    /\ TASK_DEFAULT_QUANTUM \in Nat \ {0}

Tasks == 0 .. TASK_COUNT - 1

ASSUME NullAssumption == NULL \notin Tasks

Priority == 0 .. LOWEST_TASK_PRIORITY

(* Two values below every pid; the code uses INT32_MIN and INT32_MIN + 1.  *)
PID_NO_TASK   == -2
PID_ALL_TASKS == -1

(* create_kernel_task for the idle task finds the first slot of an empty   *)
(* table.                                                                  *)
idle_task == 0

VARIABLES pid, priority, flags, ticks_left,      \* fields of ptable[t]
          queue,                                 \* queue_head / queue_tail / next_ready
          reschedule_needed, next_task, current_task, pid_count

tableVars == <<pid, priority, pid_count>>
readyVars == <<queue, reschedule_needed>>
taskVars  == <<tableVars, readyVars, flags, ticks_left, next_task, current_task>>

TaskFlags == {"PREEMPTIBLE", "AFTER_SWITCH"}

TaskTypeOK ==
    /\ pid \in [Tasks -> {PID_NO_TASK} \cup 0 .. TASK_COUNT - 1]
    /\ priority \in [Tasks -> Priority]
    /\ flags \in [Tasks -> SUBSET TaskFlags]
    /\ ticks_left \in [Tasks -> 0 .. TASK_DEFAULT_QUANTUM]
    /\ queue \in [Priority -> Seq(Tasks)]
    /\ reschedule_needed \in BOOLEAN
    /\ next_task \in Tasks \cup {NULL}
    /\ current_task \in Tasks \cup {NULL}
    /\ pid_count \in 0 .. TASK_COUNT

---------------------------------------------------------------------------
(* multitasking_init: an empty table, empty queues, and the idle task in   *)
(* slot 0 with pid 0. The idle task is never put in a ready queue.         *)
multitasking_init ==
    /\ pid = [t \in Tasks |-> IF t = idle_task THEN 0 ELSE PID_NO_TASK]
    /\ priority = [t \in Tasks |-> LOWEST_TASK_PRIORITY]
    /\ flags = [t \in Tasks |-> {}]
    /\ ticks_left = [t \in Tasks |-> IF t = idle_task THEN TASK_DEFAULT_QUANTUM ELSE 0]
    /\ queue = [p \in Priority |-> <<>>]
    /\ reschedule_needed = TRUE
    /\ next_task = NULL
    /\ current_task = NULL
    /\ pid_count = 1

(* find_task: the two wildcard pids name no task.                          *)
Owns(t, p) == p \notin {PID_ALL_TASKS, PID_NO_TASK} /\ pid[t] = p
find_task(p) == IF \E t \in Tasks : Owns(t, p)
                THEN CHOOSE t \in Tasks : Owns(t, p)
                ELSE NULL

(* create_kernel_task takes the first free slot, in the case that the      *)
(* priority is valid, a slot is free and kmalloc finds a stack; tsk is     *)
(* what it returns. In the other cases it returns NULL and changes         *)
(* nothing. The reset of the message fields is in module Message.          *)
FreeSlot(t) == pid[t] = PID_NO_TASK

create_kernel_task(tsk, prio) ==
    /\ prio \in Priority
    /\ FreeSlot(tsk) /\ \A u \in 0 .. tsk - 1 : ~FreeSlot(u)
    /\ pid' = [pid EXCEPT ![tsk] = pid_count]
    /\ pid_count' = pid_count + 1
    /\ priority' = [priority EXCEPT ![tsk] = prio]
    /\ ticks_left' = [ticks_left EXCEPT ![tsk] = TASK_DEFAULT_QUANTUM]

(* The flags of a task made by create_kernel_task(...) and then            *)
(* setPreemptible(tsk, preemptible).                                       *)
setPreemptible(preemptible) == IF preemptible THEN {"PREEMPTIBLE"} ELSE {}

---------------------------------------------------------------------------
(* The ready queues. An operator whose name ends in a fault (for instance  *)
(* enqueue_task_no_reschedule) is a faulty variant of the one that follows *)
(* it, used to show that a property would notice the fault.                *)

enqueue_task_no_reschedule(tsk) ==
    /\ queue' = [queue EXCEPT ![priority[tsk]] = Append(@, tsk)]
    /\ UNCHANGED reschedule_needed

enqueue_task(tsk) ==
    /\ queue' = [queue EXCEPT ![priority[tsk]] = Append(@, tsk)]
    /\ reschedule_needed' = TRUE

(* dequeue_task removes the task from the queue of its priority and asks   *)
(* for a new scheduling decision only if that decision named the task. A   *)
(* task that is not in the queue is left alone.                            *)
dequeue_task_no_reschedule(tsk) ==
    /\ queue' = [queue EXCEPT ![priority[tsk]] = RemoveFirst(@, tsk)]
    /\ UNCHANGED reschedule_needed

dequeue_task(tsk) ==
    /\ queue' = [queue EXCEPT ![priority[tsk]] = RemoveFirst(@, tsk)]
    /\ reschedule_needed' =
          \/ reschedule_needed
          \/ Contains(queue[priority[tsk]], tsk) /\ tsk \in {current_task, next_task}

block_task(tsk) == dequeue_task(tsk)
unblock_task(tsk) == enqueue_task(tsk)

(* preempt: dequeue_task(current_task) and then enqueue_task(current_task) *)
preempt ==
    /\ queue' = [queue EXCEPT ![priority[current_task]] =
                    Append(RemoveFirst(@, current_task), current_task)]
    /\ reschedule_needed' = TRUE

(* The task the loop of scheduler() stops at: the head of the first queue  *)
(* that is not empty, or the idle task.                                    *)
Picks(tsk) ==
    \/ /\ \A p \in Priority : queue[p] = <<>>
       /\ tsk = idle_task
    \/ \E p \in Priority :
          /\ queue[p] # <<>>
          /\ \A q \in 0 .. p - 1 : queue[q] = <<>>
          /\ tsk = Head(queue[p])

(* scheduler: tsk is next_task when it returns.                            *)
scheduler(tsk) ==
    /\ IF reschedule_needed THEN Picks(tsk) ELSE tsk = next_task
    /\ next_task' = tsk
    /\ reschedule_needed' = FALSE
============================================================================
