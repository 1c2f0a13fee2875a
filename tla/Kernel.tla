------------------------------- MODULE Kernel -----------------------------
(***************************************************************************)
(* The multitasking kernel: boot, kernel calls, the clock interrupt and    *)
(* the switch to the next task (kernel/main.c, kernel/i386/i386.S), over   *)
(* the components Task, Clock and Message.                                 *)
(*                                                                         *)
(* pc says who has the processor:                                          *)
(*   "boot"    kernel_main, before its call of resume()                    *)
(*   "task"    current_task, with interrupts enabled (nested_intr = -1)    *)
(*   "timer"   the loop of timer_callback (nested_intr = 0)                *)
(*   "resume"  a handler has returned to the label resume                  *)
(* The kernel runs with interrupts disabled, so that a clock interrupt and *)
(* a kernel call only start in "task"; what a task does between two kernel *)
(* calls leaves the state of the kernel alone.                             *)
(***************************************************************************)
EXTENDS Clock, Message

CONSTANTS TaskKinds,              \* the tasks kernel_main may create
          DestPids,               \* arguments of the send call
          OriginPids              \* arguments of the receive call

ASSUME KernelAssumption ==
    /\ TaskKinds \subseteq [priority : Priority, preemptible : BOOLEAN]
    /\ DestPids \subseteq Int
    /\ OriginPids \subseteq Int

VARIABLES pc,
          eax                     \* eax in the saved context of each task

vars == <<taskVars, clockVars, messageVars, pc, eax>>

KernelTypeOK ==
    /\ pc \in {"boot", "task", "timer", "resume"}
    /\ eax \in [Tasks -> Int]

(* Every variable has a value of its C type, and the linked lists are      *)
(* finite lists of entries of ptable.                                      *)
TypeOK == TaskTypeOK /\ ClockTypeOK /\ MessageTypeOK /\ KernelTypeOK

Created == {t \in Tasks : pid[t] # PID_NO_TASK}

---------------------------------------------------------------------------
(* Boot. The state kernel_early leaves, and the two kinds of statements of *)
(* kernel_main: create_kernel_task(...) with setPreemptible(...), and      *)
(* enqueue_task(...) of a task created before. The priorities are valid    *)
(* and the initial heap holds all the stacks, so no call returns NULL      *)
(* while the table has a free slot.                                        *)
Init ==
    /\ multitasking_init
    /\ clock_setup
    /\ message_init
    /\ pc = "boot"
    /\ eax = [t \in Tasks |-> 0]

InQueue(t) == \E p \in Priority : Contains(queue[p], t)

CreateTask(tsk, kind) ==
    /\ pc = "boot"
    /\ \A t \in Tasks : ~InQueue(t)
    /\ create_kernel_task(tsk, kind.priority)
    /\ flags' = [flags EXCEPT ![tsk] = setPreemptible(kind.preemptible)]
    /\ message_reset(tsk)
    /\ eax' = [eax EXCEPT ![tsk] = 0]
    /\ UNCHANGED <<readyVars, next_task, current_task, clockVars, pc>>

StartTask(tsk) ==
    /\ pc = "boot"
    /\ tsk \in Created \ {idle_task}
    /\ ~InQueue(tsk)
    /\ enqueue_task(tsk)
    /\ UNCHANGED <<tableVars, flags, ticks_left, next_task, current_task,
                   clockVars, messageVars, pc, eax>>

BootDone ==
    /\ pc = "boot"
    /\ \A t \in Created \ {idle_task} : InQueue(t)
    /\ pc' = "resume"
    /\ UNCHANGED <<taskVars, clockVars, messageVars, eax>>

---------------------------------------------------------------------------
(* Kernel calls: handle_kernel_call for a call of the running task. The    *)
(* idle task makes none. Only a task that has used the message it last     *)
(* received makes a call, as task3 does in main.c.                         *)
Caller == 
    /\ pc = "task"
    /\ current_task # idle_task
    /\ mess[current_task] = ZeroMessage

Return(result) ==
    /\ eax' = [eax EXCEPT ![current_task] = result]
    /\ pc' = "resume"

SleepCall(ms) ==
    /\ Caller
    /\ \/ sleep_ms(ms)
       \/ ms <= 0 /\ UNCHANGED <<readyVars, clockVars>>
    /\ Return(0)
    /\ UNCHANGED <<tableVars, flags, ticks_left, next_task, current_task, messageVars>>

PreemptCall ==
    /\ Caller
    /\ preempt
    /\ Return(0)
    /\ UNCHANGED <<tableVars, flags, ticks_left, next_task, current_task,
                   clockVars, messageVars>>

GetPidCall ==
    /\ Caller
    /\ Return(pid[current_task])
    /\ UNCHANGED <<taskVars, clockVars, messageVars>>

SendCall(dest_pid, num) ==
    /\ Caller
    /\ \E result \in {0, -1} :
          /\ message_send(current_task, dest_pid,
                          [pid |-> pid[current_task], num |-> num], result)
          /\ Return(result)
    /\ UNCHANGED <<tableVars, ticks_left, next_task, current_task, clockVars>>

ReceiveCall(origin_pid) ==
    /\ Caller
    /\ \E result \in {0, -1} :
          /\ message_receive(current_task, origin_pid, result)
          /\ Return(result)
    /\ UNCHANGED <<tableVars, ticks_left, next_task, current_task, clockVars>>

(* A call number that handle_kernel_call does not know.                    *)
UnknownCall ==
    /\ Caller
    /\ Return(0)
    /\ UNCHANGED <<taskVars, clockVars, messageVars>>

(* A task reads the message in its buffer and clears the buffer.           *)
UseMessage ==
    /\ pc = "task"
    /\ mess[current_task] # ZeroMessage
    /\ mess' = [mess EXCEPT ![current_task] = ZeroMessage]
    /\ UNCHANGED <<taskVars, clockVars, message_buffer, message_ptr, message_flags,
                   message_send_to, message_rec_pid, message_q, pc, eax>>

---------------------------------------------------------------------------
(* The clock interrupt.                                                    *)
TimerTick ==
    /\ pc = "task"
    /\ timer_callback
    /\ pc' = "timer"
    /\ UNCHANGED <<tableVars, flags, next_task, current_task, timers, messageVars, eax>>

WakeExpired ==
    /\ pc = "timer"
    /\ HeadExpired
    /\ WakeHead
    /\ UNCHANGED <<tableVars, flags, ticks_left, next_task, current_task,
                   clock_ticks, messageVars, pc, eax>>

TimerDone ==
    /\ pc = "timer"
    /\ ~HeadExpired
    /\ pc' = "resume"
    /\ UNCHANGED <<taskVars, clockVars, messageVars, eax>>

---------------------------------------------------------------------------
(* resume: scheduler(), the switch to next_task, after_context_switch().   *)
after_context_switch(tsk) ==
    \/ /\ "AFTER_SWITCH" \in flags[tsk]
       /\ flags' = [flags EXCEPT ![tsk] = @ \ {"AFTER_SWITCH"}]
       /\ \/ message_deliver(tsk) /\ eax' = [eax EXCEPT ![tsk] = 0]
          \/ "DELIVERING" \notin message_flags[tsk] /\ UNCHANGED <<messageVars, eax>>
    \/ /\ "AFTER_SWITCH" \notin flags[tsk]
       /\ UNCHANGED <<flags, messageVars, eax>>

Resume ==
    /\ pc = "resume"
    /\ \E tsk \in Tasks :
          /\ scheduler(tsk)
          /\ current_task' = tsk
          /\ after_context_switch(tsk)
    /\ pc' = "task"
    /\ UNCHANGED <<tableVars, queue, ticks_left, clockVars>>

---------------------------------------------------------------------------
Boot ==
    \/ \E tsk \in Tasks, kind \in TaskKinds : CreateTask(tsk, kind)
    \/ \E tsk \in Tasks : StartTask(tsk)
    \/ BootDone

KernelCall ==
    \/ \E ms \in SleepTimes : SleepCall(ms)
    \/ PreemptCall
    \/ GetPidCall
    \/ \E dest_pid \in DestPids, num \in Numbers : SendCall(dest_pid, num)
    \/ \E origin_pid \in OriginPids : ReceiveCall(origin_pid)
    \/ UnknownCall

InKernel == WakeExpired \/ TimerDone \/ Resume

Next == Boot \/ KernelCall \/ UseMessage \/ TimerTick \/ InKernel

Spec == Init /\ [][Next]_vars

(* A handler that has started reaches the task it resumes. The clock       *)
(* interrupt needs strong fairness: the running task may leave "task"      *)
(* again and again by kernel calls, but the request stays pending in the   *)
(* interrupt controller and is taken as soon as interrupts are enabled.    *)
Fairness == WF_vars(Boot) /\ WF_vars(InKernel) /\ SF_vars(TimerTick)

FairSpec == Spec /\ Fairness

---------------------------------------------------------------------------
(* Where a task can be.                                                    *)
Sending(t) == \E d \in Tasks : Contains(message_q[d], t)
Receiving(t) == "RECEIVING" \in message_flags[t]

(* No list holds a task twice, and a task is only in the ready queue of    *)
(* its own priority and in the list of the task it sends to: enqueue_task, *)
(* sleep_ms and message_send write the task's only link field, so that a   *)
(* task linked twice would cut a list or close it to a ring.               *)
ReadyOnce ==
    \A p \in Priority :
        /\ IsInjective(queue[p])
        /\ \A t \in Tasks : Contains(queue[p], t) => priority[t] = p

TimersOnce == \A i, j \in DOMAIN timers : timers[i].tsk = timers[j].tsk => i = j

SendersOnce ==
    \A d \in Tasks :
        /\ IsInjective(message_q[d])
        /\ \A t \in Tasks : Contains(message_q[d], t) <=>
              "SENDING" \in message_flags[t] /\ message_send_to[t] = d

LinkedOnce == ReadyOnce /\ TimersOnce /\ SendersOnce

(* A task is ready, asleep, waiting to send or waiting to receive, and     *)
(* never two of these; once kernel_main has handed over to the scheduler   *)
(* no task is lost: each one is in one of the four. The idle task is in    *)
(* none.                                                                   *)
Placed(t) == InQueue(t) \/ t \in Sleeping \/ Sending(t) \/ Receiving(t)

OnePlace ==
    /\ \A t \in Tasks :
          /\ InQueue(t) => t \notin Sleeping /\ ~Sending(t) /\ ~Receiving(t)
          /\ t \in Sleeping => ~Sending(t) /\ ~Receiving(t)
          /\ Sending(t) => ~Receiving(t)
          /\ Placed(t) => t \in Created \ {idle_task}
    /\ pc # "boot" => \A t \in Created \ {idle_task} : Placed(t)

(* A task only runs when it is the head of the first queue that is not     *)
(* empty, and the idle task only when no task is ready. scheduler() skips  *)
(* its search when reschedule_needed is false: the decision it then reuses *)
(* is never out of date.                                                   *)
RunsFirstReady == pc = "task" => Picks(current_task)

(* The facts about the task table and the cached scheduling decision that  *)
(* make the properties of this section inductive.                          *)
TableInv ==
    /\ pid_count >= 1
    /\ \A t \in Tasks :
          /\ pid[t] = IF t < pid_count THEN t ELSE PID_NO_TASK
          /\ "PREEMPTIBLE" \in flags[t] => ticks_left[t] >= 1 /\ t # idle_task
          /\ "SENDING" \in message_flags[t] => message_send_to[t] \in Tasks

BootInv ==
    pc = "boot" =>
        reschedule_needed /\ timers = <<>> /\ \A t \in Tasks : message_flags[t] = {}

DecisionInv ==
    /\ pc = "task" => ~reschedule_needed
    /\ ~reschedule_needed => next_task = current_task /\ Picks(current_task)
    /\ pc \in {"task", "timer"} => current_task \in Created

(* A sender and a receiver that match never both wait: message_receive     *)
(* looks for a waiting sender before it blocks, message_send for a waiting *)
(* receiver.                                                               *)
NoLostWakeup ==
    \A d \in Tasks : Receiving(d) =>
        \A i \in DOMAIN message_q[d] : ~Wanted(d, message_rec_pid[d], i)

(* A message copied to the table entry of its receiver is handed on before *)
(* the receiver runs: the receiver is ready, marked for                    *)
(* after_context_switch, and message_ptr still says where its buffer is. A *)
(* running task never has a call to the message system half done.          *)
DeliveryPending ==
    /\ \A t \in Tasks :
          /\ "DELIVERING" \in message_flags[t] <=> "AFTER_SWITCH" \in flags[t]
          /\ "DELIVERING" \in message_flags[t] => InQueue(t) /\ ~Receiving(t)
          /\ message_ptr[t] = MESS <=>
                message_flags[t] \cap {"RECEIVING", "DELIVERING"} # {}
    /\ pc = "task" => message_flags[current_task] = {}

(* The inductive invariant of the kernel.                                  *)
IInv ==
    /\ TypeOK /\ TableInv /\ BootInv /\ LinkedOnce /\ OnePlace
    /\ DecisionInv /\ DeliveryPending /\ NoLostWakeup

(* sleep_ms keeps the timer list in the order of timer_expire, which is    *)
(* why the loop of timer_callback may stop at the first task that has not  *)
(* expired.                                                                *)
TimersSorted ==
    \A i, j \in DOMAIN timers :
        i < j => timers[i].timer_expire <= timers[j].timer_expire

(* The ticks a sleeping task still has to wait, through a wrap of the      *)
(* clock.                                                                  *)
Remaining(i) == (timers[i].timer_expire - clock_ticks) % WORD

(* No task sleeps longer than it asked for: whenever a task runs, every    *)
(* sleeping task has a tick to wait and at most the longest sleep. (A wake *)
(* up missed at its tick would next come a full period of the clock        *)
(* later.)                                                                 *)
NeverOversleeps ==
    pc = "task" =>
        \A i \in DOMAIN timers :
            \E ms \in SleepTimes : ms > 0 /\ Remaining(i) \in 1 .. ticks(ms)

(* No task sleeps shorter than it asked for.                               *)
SleepsFullTime ==
    [][\A i \in DOMAIN timers :
          (\A j \in DOMAIN timers' : timers'[j].tsk # timers[i].tsk)
             => Remaining(i) = 0]_vars

(* Seen by the tasks, the kernel is the atomic mailbox of module Mailbox:  *)
(* no message is lost, duplicated, overtaken by a later one that fits, or  *)
(* given to a task that did not ask for it, although it is kept in the     *)
(* table entry of its sender or of its receiver, is overwritten there by   *)
(* later calls, and reaches the receiver's buffer only when that task is   *)
(* next switched to.                                                       *)
Box == [d \in Tasks |-> [i \in DOMAIN message_q[d] |-> message_buffer[message_q[d][i]]]]
Want == [d \in Tasks |-> IF Receiving(d) THEN message_rec_pid[d] ELSE PID_NO_TASK]
Inbox == [d \in Tasks |-> IF "DELIVERING" \in message_flags[d]
                          THEN message_buffer[d] ELSE mess[d]]

MB == INSTANCE Mailbox WITH
        Procs <- Tasks, AnyProc <- PID_ALL_TASKS, None <- PID_NO_TASK,
        Origins <- OriginPids \ {PID_NO_TASK}, Zero <- ZeroMessage,
        box <- Box, want <- Want, inbox <- Inbox
ImplementsMailbox == MB!Spec

(* Round robin: a ready task gets the processor, unless a task of higher   *)
(* priority, or one of its own that is not preemptible, may keep it.       *)
Undisputed(t) ==
    /\ pc # "boot"
    /\ \A u \in Created \ {idle_task} :
          \/ priority[u] > priority[t]
          \/ priority[u] = priority[t] /\ "PREEMPTIBLE" \in flags[u]

ReadyRuns ==
    \A t \in Tasks : InQueue(t) /\ Undisputed(t) ~> (pc = "task" /\ current_task = t)

(* A sleeping task becomes ready.                                          *)
SleeperWakes == \A t \in Tasks : t \in Sleeping ~> InQueue(t)
============================================================================
