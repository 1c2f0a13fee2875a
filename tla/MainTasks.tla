------------------------------ MODULE MainTasks ---------------------------
(***************************************************************************)
(* The four tasks that kernel_main starts (kernel/main.c), run by the      *)
(* kernel of module Kernel. task1, task2 and task3 are a test of the       *)
(* message system: every statement is printed with the time step at which  *)
(* it should happen, and task3 compares each message it receives with the  *)
(* one it expects. Here the programs are sequences of statements with      *)
(* those times and those expectations.                                     *)
(***************************************************************************)
EXTENDS Kernel

CONSTANT STEP_MS                  \* milliseconds per time step

ASSUME MainAssumption == STEP_MS \in Nat \ {0} /\ TASK_COUNT >= 5

VARIABLE ip                       \* ip[t]: the statement task t is at

mainVars == <<vars, ip>>

Wait(at, n) == [op |-> "wait", at |-> at, steps |-> n]
SendTo(at, dest, n) == [op |-> "send", at |-> at, dest |-> dest, num |-> n]
Receive(at, origin) == [op |-> "receive", at |-> at, origin |-> origin]
Expect(at, p, n) == [op |-> "expect", at |-> at, message |-> [pid |-> p, num |-> n]]
Loop(at) == [op |-> "loop", at |-> at]

task1 == << Wait(0, 1), SendTo(1, 3, 1), Wait(3, 2), SendTo(5, 3, 2), Wait(8, 2),
            SendTo(10, 3, 3), Wait(10, 1), SendTo(11, 3, 4), Loop(13) >>

task2 == << Wait(0, 2), SendTo(2, 3, 1), Wait(4, 2), SendTo(6, 3, 2), Wait(7, 5),
            SendTo(12, 3, 3), Loop(12) >>

task3 == << Wait(0, 3), Receive(3, PID_ALL_TASKS), Expect(3, 1, 1),
            Wait(3, 1), Receive(4, PID_ALL_TASKS), Expect(4, 2, 1),
            Wait(4, 3), Receive(7, 2), Expect(7, 2, 2),
            Wait(7, 1), Receive(8, 1), Expect(8, 1, 2),
            Wait(8, 1), Receive(9, PID_ALL_TASKS), Expect(10, 1, 3),
            Receive(10, 2), Expect(12, 2, 3),
            Wait(12, 1), Receive(13, 1), Expect(13, 1, 4), Loop(13) >>

Program == <<task1, task2, task3>>

(* task4 shows a counter and waits one step, for ever.                     *)
Statement(t) == IF t = 4 THEN Wait(0, 1) ELSE Program[t][ip[t]]
Done(t) == t # 4 /\ Statement(t).op = "loop"

MainKind(t) == [priority |-> 1, preemptible |-> t = 4]

---------------------------------------------------------------------------
MainInit == Init /\ ip = [t \in 1 .. 4 |-> 1]

(* kernel_main: create four tasks, enqueue them in order, resume().        *)
kernel_main ==
    /\ \/ \E t \in 1 .. 4 : CreateTask(t, MainKind(t))
       \/ /\ {1, 2, 3, 4} \subseteq Created
          /\ \/ \E t \in 1 .. 4 : (\A u \in 1 .. t - 1 : InQueue(u)) /\ StartTask(t)
             \/ BootDone
    /\ UNCHANGED ip

(* The running task executes its statement.                                *)
Step(t) ==
    /\ pc = "task" /\ current_task = t
    /\ LET s == Statement(t) IN
       \/ s.op = "wait" /\ SleepCall(s.steps * STEP_MS)
       \/ s.op = "send" /\ SendCall(s.dest, s.num)
       \/ s.op = "receive" /\ ReceiveCall(s.origin)
       \/ s.op = "expect" /\ UseMessage
       \/ s.op = "loop" /\ PreemptCall
    /\ ip' = IF t = 4 \/ Done(t) THEN ip ELSE [ip EXCEPT ![t] = @ + 1]

(* Statements take no time worth speaking of next to a clock tick: the     *)
(* clock only ticks when no ready task has anything left to do but loop.   *)
Tick ==
    /\ \A t \in 1 .. 4 : InQueue(t) => Done(t)
    /\ TimerTick
    /\ UNCHANGED ip

KernelStep == InKernel /\ UNCHANGED ip

MainNext == kernel_main \/ (\E t \in 1 .. 4 : Step(t)) \/ Tick \/ KernelStep

MainSpec ==
    /\ MainInit
    /\ [][MainNext]_mainVars
    /\ WF_mainVars(kernel_main \/ (\E t \in 1 .. 4 : Step(t)) \/ KernelStep)
    /\ SF_mainVars(Tick)

---------------------------------------------------------------------------
(* The test goes as main.c says. Each statement of task1, task2 and task3  *)
(* starts at the time step of the timeline at the head of the file, which  *)
(* the tasks print; and what task3 checks after each receive is so: the    *)
(* message is the one it expects, and the receive call returned 0.         *)
ExpectedMessages ==
    /\ \A t \in 1 .. 3 :
           pc = "task" /\ current_task = t /\ ~Done(t)
               => clock_ticks = Statement(t).at * ticks(STEP_MS)
    /\ pc = "task" /\ current_task = 3 /\ Statement(3).op = "expect"
           => mess[3] = Statement(3).message /\ eax[3] = 0

(* The test ends: the three tasks reach their final loop.                  *)
TestEnds == <>(\A t \in 1 .. 3 : Done(t))
============================================================================
