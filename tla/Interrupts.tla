----------------------------- MODULE Interrupts ---------------------------
(***************************************************************************)
(* Interrupt dispatch: the handlers of interrupts and exceptions           *)
(* (i386/interrupts.c), the two interrupt controllers they are programmed  *)
(* through (i386/pic.c), and the entry code that tells a spurious          *)
(* interrupt from a real one (i386/i386.S).                                *)
(*                                                                         *)
(* The controllers are external hardware. A device requests its interrupt  *)
(* and may withdraw the request; the controller raises INT for a request   *)
(* that is not masked, and when the processor acknowledges INT with no     *)
(* request left, it answers with the lowest priority, 7 of the controller, *)
(* without marking it in service. The second controller is connected to    *)
(* line 2 of the first.                                                    *)
(*                                                                         *)
(* Interrupts are off while the kernel boots and while an interrupt is     *)
(* handled. irq_set_handler sets the handler and then clears the mask, and *)
(* a task that calls it can be interrupted between the two.                *)
(***************************************************************************)
EXTENDS Integers, FiniteSets

CONSTANTS Lines,                  \* interrupts of the devices, 0 .. 15
          SetLines,               \* interrupts handlers are set for
          Exceptions,             \* exceptions handlers are set for
          MAX_CALLS,              \* calls that set or clear handlers
          NULL

ASSUME InterruptsAssumption ==
    /\ Lines \subseteq 0 .. 15 /\ SetLines \subseteq Lines /\ 0 \in Lines /\ 2 \notin Lines
    /\ MAX_CALLS \in Nat
    /\ NULL \notin {"unhandled IRQ!", "unhandled exception!"}
    /\ NULL \notin [op : {"set", "clear"}, irq : Lines]

VARIABLES mask0, mask1,           \* masked lines of the controllers
          irr,                    \* requested interrupts
          isr0, isr1,             \* lines in service
          intr,                   \* the INT line of the processor
          irq_handlers, exception_handlers,   \* which have a handler
          booting,
          call,                   \* the call of irq_set_handler or irq_clear_handler under way
          cpu,                    \* the interrupt being handled
          panic,                  \* why the kernel panicked
          calls

picVars == <<mask0, mask1, irr, isr0, isr1, intr>>
handlerVars == <<irq_handlers, exception_handlers, booting, call, calls>>
vars == <<picVars, handlerVars, cpu, panic>>

None == [at |-> "none", irq |-> 0]
InterruptsOn == ~booting /\ cpu = None /\ panic = NULL
KernelRuns == cpu = None /\ panic = NULL

---------------------------------------------------------------------------
(* The controllers.                                                        *)
Rank(line) == IF line < 2 THEN line ELSE IF line < 8 THEN line + 8 ELSE line - 6
InService == isr0 \cup {line + 8 : line \in isr1}
Unmasked(line) ==
    IF line < 8 THEN line \notin mask0 ELSE 2 \notin mask0 /\ line - 8 \notin mask1
Deliverable == {line \in irr : Unmasked(line) /\ \A s \in InService : Rank(line) < Rank(s)}

Request(line) ==
    /\ line \notin irr
    /\ irr' = irr \cup {line}
    /\ UNCHANGED <<mask0, mask1, isr0, isr1, intr, handlerVars, cpu, panic>>

(* The timer keeps its request until it is served.                         *)
Withdraw(line) ==
    /\ line \in irr \ {0}
    /\ irr' = irr \ {line}
    /\ UNCHANGED <<mask0, mask1, isr0, isr1, intr, handlerVars, cpu, panic>>

RaiseINT ==
    /\ ~intr /\ Deliverable # {}
    /\ intr' = TRUE
    /\ UNCHANGED <<mask0, mask1, irr, isr0, isr1, handlerVars, cpu, panic>>

(* The processor acknowledges INT and enters the code of the interrupt.    *)
Acknowledge ==
    /\ InterruptsOn /\ intr
    /\ intr' = FALSE
    /\ IF Deliverable = {}
       THEN cpu' = [at |-> "entry", irq |-> 7] /\ UNCHANGED <<irr, isr0, isr1>>
       ELSE \E line \in Deliverable :
                /\ \A m \in Deliverable : Rank(line) <= Rank(m)
                /\ cpu' = [at |-> "entry", irq |-> line]
                /\ irr' = irr \ {line}
                /\ isr0' = isr0 \cup {IF line < 8 THEN line ELSE 2}
                /\ isr1' = isr1 \cup (IF line < 8 THEN {} ELSE {line - 8})
    /\ UNCHANGED <<mask0, mask1, handlerVars, panic>>

(* An end of interrupt ends the line of highest priority in service.       *)
Highest(isr) == {n \in isr : \A m \in isr : n <= m}

---------------------------------------------------------------------------
(* The kernel.                                                             *)
kpanic(why) == panic' = why

(* The entry code of interrupt 7 asks the controller whether it is in      *)
(* service and returns when it is not; the others call irq_handler.        *)
Enter_no_check(irq) == TRUE
Enter(irq) == irq = 7 => 7 \in isr0

InterruptEntry ==
    /\ cpu.at = "entry"
    /\ cpu' = IF Enter(cpu.irq) THEN [cpu EXCEPT !.at = "handler"] ELSE None
    /\ UNCHANGED <<picVars, handlerVars, panic>>

irq_handler ==
    /\ cpu.at = "handler"
    /\ IF cpu.irq \in irq_handlers
       THEN cpu' = [cpu EXCEPT !.at = "eoi"] /\ UNCHANGED panic
       ELSE cpu' = None /\ kpanic("unhandled IRQ!")
    /\ UNCHANGED <<picVars, handlerVars>>

pic_eoi_swapped(irq) ==
    /\ isr1' = isr1 \ Highest(isr1)
    /\ isr0' = IF irq > 7 THEN isr0 \ Highest(isr0) ELSE isr0

pic_eoi(irq) ==
    /\ isr1' = IF irq > 7 THEN isr1 \ Highest(isr1) ELSE isr1
    /\ isr0' = isr0 \ Highest(isr0)

EndOfInterrupt ==
    /\ cpu.at = "eoi"
    /\ pic_eoi(cpu.irq)
    /\ cpu' = None
    /\ UNCHANGED <<mask0, mask1, irr, intr, handlerVars, panic>>

---------------------------------------------------------------------------
pic_set_mask_clears(irq) ==
    IF irq < 8 THEN mask0' = mask0 \ {irq} /\ UNCHANGED mask1
    ELSE mask1' = mask1 \ {irq - 8} /\ UNCHANGED mask0

pic_set_mask(irq) ==
    IF irq < 8 THEN mask0' = mask0 \cup {irq} /\ UNCHANGED mask1
    ELSE mask1' = mask1 \cup {irq - 8} /\ UNCHANGED mask0

pic_clear_mask_sets(irq) == mask0' = mask0 \cup {irq} /\ UNCHANGED mask1

(* Both branches of pic_clear_mask use the first controller.               *)
pic_clear_mask(irq) ==
    /\ mask0' = mask0 \ {IF irq < 8 THEN irq ELSE irq - 8}
    /\ UNCHANGED mask1

irq_set_handler(irq) ==
    /\ KernelRuns /\ call = NULL /\ calls < MAX_CALLS
    /\ irq_handlers' = irq_handlers \cup {irq}
    /\ call' = [op |-> "set", irq |-> irq] /\ calls' = calls + 1
    /\ UNCHANGED <<picVars, exception_handlers, booting, cpu, panic>>

(* The handler is gone before the line is masked, so this is only called   *)
(* while interrupts are off.                                               *)
irq_clear_handler(irq) ==
    /\ KernelRuns /\ booting /\ call = NULL /\ calls < MAX_CALLS
    /\ irq_handlers' = irq_handlers \ {irq}
    /\ call' = [op |-> "clear", irq |-> irq] /\ calls' = calls + 1
    /\ UNCHANGED <<picVars, exception_handlers, booting, cpu, panic>>

(* The second half of irq_set_handler and irq_clear_handler.               *)
UpdateMask ==
    /\ KernelRuns /\ call # NULL
    /\ IF call.op = "set" THEN pic_clear_mask(call.irq) ELSE pic_set_mask(call.irq)
    /\ call' = NULL
    /\ UNCHANGED <<irr, isr0, isr1, intr, irq_handlers, exception_handlers, booting, calls,
                   cpu, panic>>

exception_set_handler(n) ==
    /\ KernelRuns /\ call = NULL
    /\ exception_handlers' = exception_handlers \cup {n}
    /\ UNCHANGED <<picVars, irq_handlers, booting, call, calls, cpu, panic>>

exception_clear_handler(n) ==
    /\ KernelRuns /\ call = NULL
    /\ exception_handlers' = exception_handlers \ {n}
    /\ UNCHANGED <<picVars, irq_handlers, booting, call, calls, cpu, panic>>

(* An instruction of a task causes an exception.                           *)
exception_handler(n) ==
    /\ InterruptsOn
    /\ IF n \in exception_handlers THEN UNCHANGED panic ELSE kpanic("unhandled exception!")
    /\ UNCHANGED <<picVars, handlerVars, cpu>>

(* The first task starts with interrupts on.                               *)
StartTasks ==
    /\ booting /\ call = NULL
    /\ booting' = FALSE
    /\ UNCHANGED <<picVars, irq_handlers, exception_handlers, call, calls, cpu, panic>>

(* arch_init_interrupts: no handlers, and pic_init masks every line.       *)
Init ==
    /\ mask0 = 0 .. 7 /\ mask1 = 0 .. 7
    /\ irr = {} /\ isr0 = {} /\ isr1 = {} /\ intr = FALSE
    /\ irq_handlers = {} /\ exception_handlers = {}
    /\ booting = TRUE /\ call = NULL /\ calls = 0 /\ cpu = None /\ panic = NULL

Interrupt == RaiseINT \/ Acknowledge \/ InterruptEntry \/ irq_handler \/ EndOfInterrupt

Next ==
    \/ \E line \in Lines : Request(line) \/ Withdraw(line)
    \/ Interrupt
    \/ \E line \in SetLines : irq_set_handler(line) \/ irq_clear_handler(line)
    \/ UpdateMask
    \/ \E n \in Exceptions : \/ exception_set_handler(n)
                             \/ exception_clear_handler(n)
                             \/ exception_handler(n)
    \/ StartTasks

(* The hardware and the kernel keep running; devices need not.             *)
Fairness == WF_vars(RaiseINT) /\ WF_vars(Acknowledge)
            /\ WF_vars(InterruptEntry \/ irq_handler \/ EndOfInterrupt)
Spec == Init /\ [][Next]_vars /\ Fairness

---------------------------------------------------------------------------
(* An interrupt is never delivered without a handler for it ("unhandled    *)
(* IRQ!"): not when a handler is set while the device already requests,    *)
(* not when it is cleared while a request is on its way to the processor,  *)
(* and not when a device withdraws its request.                            *)
NoUnhandledIRQ == panic # "unhandled IRQ!"

(* irq_handler runs only for an interrupt that a device requested, so that *)
(* the end of interrupt it sends is not that of another one.               *)
OnlyRequested == cpu.at \in {"handler", "eoi"} => cpu.irq \in InService

(* A task never runs with an interrupt still in service, which would hold  *)
(* back all interrupts of lower priority for ever.                         *)
NoneLeftInService == cpu = None /\ panic = NULL => InService = {}

(* Once its handler is installed, a request of the timer is handled.       *)
TimerServed ==
    (0 \in irr /\ 0 \in irq_handlers /\ ~booting /\ call = NULL)
        ~> (panic # NULL \/ (cpu.at = "eoi" /\ cpu.irq = 0))
============================================================================
