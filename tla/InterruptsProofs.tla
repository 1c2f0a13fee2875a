------------------------- MODULE InterruptsProofs -------------------------
(***************************************************************************)
(* Proofs about module Interrupts, for all sets of device lines, handlers  *)
(* and exceptions.                                                         *)
(***************************************************************************)
EXTENDS Interrupts, TLAPS

Calls == [op : {"set", "clear"}, irq : SetLines]
Stages == {"none", "entry", "handler", "eoi"}

TypeOK ==
    /\ mask0 \subseteq 0 .. 7 /\ mask1 = 0 .. 7
    /\ irr \subseteq Lines
    /\ isr0 \subseteq 0 .. 7 /\ isr1 \subseteq 0 .. 7
    /\ call \in Calls \cup {NULL}
    /\ cpu \in [at : Stages, irq : 0 .. 15] /\ (cpu.at = "none" <=> cpu = None)
    /\ panic \in {NULL, "unhandled IRQ!", "unhandled exception!"}

(* The controllers serve exactly the given interrupt.                      *)
Serving(irq) ==
    /\ irq < 8 => isr0 = {irq} /\ isr1 = {}
    /\ irq >= 8 => isr0 = {2} /\ isr1 = {irq - 8}

(* What is in service is what the processor handles; only at the entry of  *)
(* interrupt 7 may it be nothing. A call that clears a handler, and boot,  *)
(* leave the processor alone.                                              *)
ServiceInv ==
    /\ cpu = None /\ panic = NULL => isr0 = {} /\ isr1 = {}
    /\ cpu # None => ~booting /\ panic = NULL
    /\ cpu.at = "entry" => \/ Serving(cpu.irq)
                           \/ cpu.irq = 7 /\ isr0 = {} /\ isr1 = {}
    /\ cpu.at \in {"handler", "eoi"} => Serving(cpu.irq)

(* A line that is not masked has a handler, but for the moment at boot     *)
(* when its handler is cleared and the line is not yet masked; and so has  *)
(* the interrupt being served.                                             *)
HandlerInv ==
    /\ call # NULL => IF call.op = "set" THEN call.irq \in irq_handlers ELSE booting
    /\ \A line \in (0 .. 7) \ mask0 :
          line \in irq_handlers \/ (call # NULL /\ call.op = "clear" /\ call.irq = line)
    /\ cpu # None /\ Serving(cpu.irq) => cpu.irq \in irq_handlers
    /\ NoUnhandledIRQ

---------------------------------------------------------------------------
(* Acknowledging INT starts the service of one deliverable interrupt, or   *)
(* of none.                                                                *)
LEMMA AcknowledgeEffect ==
    ASSUME TypeOK, ServiceInv, Acknowledge
    PROVE  \/ /\ cpu' = [at |-> "entry", irq |-> 7]
              /\ isr0' = {} /\ isr1' = {} /\ irr' = irr
           \/ \E line \in Deliverable : /\ line \in Lines /\ line \in 0 .. 15
                                        /\ cpu' = [at |-> "entry", irq |-> line]
                                        /\ irr' = irr \ {line}
                                        /\ Serving(line)'
  <1>1. isr0 = {} /\ isr1 = {}
    BY DEF Acknowledge, InterruptsOn, ServiceInv
  <1>2. CASE Deliverable = {}
    BY <1>1, <1>2 DEF Acknowledge
  <1>3. CASE Deliverable # {}
    <2>1. Deliverable \subseteq Lines /\ Lines \subseteq 0 .. 15
      BY InterruptsAssumption DEF Deliverable, TypeOK
    <2>2. PICK line \in Deliverable :
             /\ cpu' = [at |-> "entry", irq |-> line]
             /\ irr' = irr \ {line}
             /\ isr0' = isr0 \cup {IF line < 8 THEN line ELSE 2}
             /\ isr1' = isr1 \cup (IF line < 8 THEN {} ELSE {line - 8})
      BY <1>3 DEF Acknowledge
    <2>3. CASE line < 8
      <3>1. isr0' = {line} /\ isr1' = {} /\ ~(line >= 8)
        BY <1>1, <2>1, <2>2, <2>3
      <3> QED
        BY <2>1, <2>2, <2>3, <3>1 DEF Serving
    <2>4. CASE ~(line < 8)
      <3>1. isr0' = {2} /\ isr1' = {line - 8}
        BY <1>1, <2>1, <2>2, <2>4
      <3> QED
        BY <2>1, <2>2, <2>4, <3>1 DEF Serving
    <2> QED
      BY <2>3, <2>4
  <1> QED
    BY <1>2, <1>3

---------------------------------------------------------------------------
(* The types and what is in service, whichever lines handlers are set for. *)
SInv == TypeOK /\ ServiceInv

LEMMA NoneType == None \in [at : Stages, irq : 0 .. 15]
  BY DEF None, Stages

LEMMA SInvInit == Init => SInv
  <1> SUFFICES ASSUME Init PROVE SInv
    OBVIOUS
  <1>1. cpu.at = "none" /\ cpu = None /\ cpu \in [at : Stages, irq : 0 .. 15]
    BY DEF Init, None, Stages
  <1>2. TypeOK
    BY <1>1 DEF Init, TypeOK
  <1>3. ServiceInv
    BY <1>1 DEF Init, ServiceInv
  <1> QED
    BY <1>2, <1>3 DEF SInv

(* A step that leaves service and processor alone.                         *)
LEMMA QuietStep ==
    ASSUME SInv, UNCHANGED <<isr0, isr1, cpu>>,
           mask0' \subseteq 0 .. 7, mask1' = mask1, irr' \subseteq Lines,
           call' \in Calls \cup {NULL}, booting' => booting,
           \/ panic' = panic
           \/ panic' = "unhandled exception!" /\ cpu = None
    PROVE  SInv'
  <1>1. CASE panic' = panic
    <2>1. TypeOK'
      BY <1>1 DEF SInv, TypeOK, None
    <2>2. ServiceInv'
      BY <1>1 DEF SInv, ServiceInv, Serving, None
    <2> QED
      BY <2>1, <2>2 DEF SInv
  <1>2. CASE panic' = "unhandled exception!" /\ cpu = None
    <2>1. TypeOK'
      BY <1>2 DEF SInv, TypeOK, None
    <2>2. panic' # NULL /\ cpu.at = "none"
      BY <1>2, InterruptsAssumption DEF None
    <2>3. ServiceInv'
      BY <1>2, <2>2 DEF ServiceInv, None
    <2> QED
      BY <2>1, <2>3 DEF SInv
  <1> QED
    BY <1>1, <1>2

(* The processor goes on with the interrupt it serves.                     *)
LEMMA StageStep ==
    ASSUME TypeOK, cpu # None, ~booting, panic = NULL, Serving(cpu.irq),
           UNCHANGED <<mask0, mask1, irr, isr0, isr1, booting, call, panic>>,
           NEW stage \in {"handler", "eoi"}, cpu' = [cpu EXCEPT !.at = stage]
    PROVE  SInv'
  <1>1. /\ cpu'.at = stage /\ cpu'.irq = cpu.irq
        /\ cpu' \in [at : Stages, irq : 0 .. 15]
    BY DEF TypeOK, Stages
  <1>2. cpu' # None
    BY <1>1 DEF None
  <1>3. TypeOK'
    BY <1>1, <1>2 DEF TypeOK, Stages, None
  <1>4. ServiceInv'
    BY <1>1, <1>2 DEF ServiceInv, Serving, None
  <1> QED
    BY <1>3, <1>4 DEF SInv

(* The processor leaves the interrupt: nothing is in service, or the       *)
(* kernel panicked.                                                        *)
LEMMA LeaveStep ==
    ASSUME TypeOK, UNCHANGED <<mask0, mask1, irr, booting, call>>, cpu' = None,
           \/ isr0' = {} /\ isr1' = {} /\ panic' = panic
           \/ UNCHANGED <<isr0, isr1>> /\ panic' = "unhandled IRQ!"
    PROVE  SInv'
  <1>a. cpu' = None /\ cpu'.at = "none"
    BY DEF None
  <1>1. cpu'.at = "none" /\ cpu' = None /\ cpu' \in [at : Stages, irq : 0 .. 15]
    BY <1>a, NoneType, Zenon
  <1>2. isr0' \subseteq 0 .. 7 /\ isr1' \subseteq 0 .. 7
    BY DEF TypeOK
  <1>3. TypeOK'
    BY <1>1, <1>2 DEF TypeOK, Stages, None
  <1>4. panic' = "unhandled IRQ!" => panic' # NULL
    BY InterruptsAssumption
  <1>5. ServiceInv'
    BY <1>1, <1>4 DEF ServiceInv, None
  <1> QED
    BY <1>3, <1>5 DEF SInv

LEMMA SInvNext == SInv /\ [Next]_vars => SInv'
  <1> SUFFICES ASSUME SInv, [Next]_vars
               PROVE  SInv'
    OBVIOUS
  <1>0. Lines \subseteq 0 .. 15 /\ SetLines \subseteq 0 .. 15
    BY InterruptsAssumption
  <1>t. TypeOK /\ ServiceInv
    BY DEF SInv
  <1>1. ASSUME NEW line \in Lines, Request(line) \/ Withdraw(line)
        PROVE  SInv'
    <2>1. /\ UNCHANGED <<mask0, mask1, isr0, isr1, cpu, call, booting, panic>>
          /\ irr' \subseteq Lines
      BY <1>t, <1>1 DEF Request, Withdraw, TypeOK, handlerVars
    <2> QED
      BY <1>t, <2>1, QuietStep DEF TypeOK
  <1>2. CASE RaiseINT
    BY <1>t, <1>2, QuietStep DEF RaiseINT, TypeOK, handlerVars
  <1>3. CASE Acknowledge
    <2>1. /\ UNCHANGED <<mask0, mask1, booting, call, panic>>
          /\ ~booting /\ panic = NULL
      BY <1>3 DEF Acknowledge, InterruptsOn, handlerVars
    <2>2. CASE /\ cpu' = [at |-> "entry", irq |-> 7]
               /\ isr0' = {} /\ isr1' = {} /\ irr' = irr
      BY <1>t, <2>1, <2>2 DEF SInv, TypeOK, ServiceInv, None, Stages
    <2>3. ASSUME NEW line \in 0 .. 15,
                 cpu' = [at |-> "entry", irq |-> line],
                 irr' = irr \ {line}, Serving(line)'
          PROVE  SInv'
      <3>1. cpu' # None /\ cpu'.at = "entry" /\ cpu'.irq = line
        BY <2>3 DEF None
      <3>2. isr0' \subseteq 0 .. 7 /\ isr1' \subseteq 0 .. 7
        BY <2>3 DEF Serving
      <3>3. TypeOK'
        BY <1>t, <2>1, <2>3, <3>1, <3>2 DEF TypeOK, Stages, None
      <3>4. ServiceInv'
        BY <2>1, <2>3, <3>1 DEF ServiceInv, None
      <3> QED
        BY <3>3, <3>4 DEF SInv
    <2> QED
      BY <1>t, <1>3, <2>2, <2>3, AcknowledgeEffect
  <1>4. CASE InterruptEntry
    <2>1. /\ cpu.at = "entry" /\ cpu # None /\ cpu.irq \in 0 .. 15
          /\ UNCHANGED <<mask0, mask1, irr, isr0, isr1, booting, call, panic>>
      BY <1>4, <1>t DEF InterruptEntry, TypeOK, picVars, handlerVars
    <2>2. ~booting /\ panic = NULL
      BY <1>t, <2>1 DEF ServiceInv
    <2>3. CASE Enter(cpu.irq)
      <3>1. cpu' = [cpu EXCEPT !.at = "handler"]
        BY <1>4, <2>3 DEF InterruptEntry
      <3>2. Serving(cpu.irq)
        BY <1>t, <2>1, <2>3 DEF Enter, ServiceInv
      <3> QED
        BY <1>t, <2>1, <2>2, <3>1, <3>2, StageStep
    <2>4. CASE ~Enter(cpu.irq)
      <3>1. cpu' = None
        BY <1>4, <2>4 DEF InterruptEntry
      <3>2. isr0 = {} /\ isr1 = {}
        BY <1>t, <2>1, <2>4 DEF Enter, ServiceInv, Serving
      <3> QED
        BY <1>t, <2>1, <2>2, <3>1, <3>2, LeaveStep
    <2> QED
      BY <2>3, <2>4
  <1>5. CASE irq_handler
    <2>1. /\ cpu.at = "handler" /\ cpu # None /\ cpu.irq \in 0 .. 15
          /\ UNCHANGED <<mask0, mask1, irr, isr0, isr1, booting, call>>
      BY <1>5, <1>t DEF irq_handler, TypeOK, picVars, handlerVars
    <2>2. ~booting /\ panic = NULL /\ Serving(cpu.irq)
      BY <1>t, <2>1 DEF ServiceInv
    <2>3. CASE cpu.irq \in irq_handlers
      <3>1. cpu' = [cpu EXCEPT !.at = "eoi"] /\ panic' = panic
        BY <1>5, <2>3 DEF irq_handler
      <3> QED
        BY <1>t, <2>1, <2>2, <3>1, StageStep
    <2>4. CASE cpu.irq \notin irq_handlers
      <3>1. cpu' = None /\ panic' = "unhandled IRQ!"
        BY <1>5, <2>4 DEF irq_handler, kpanic
      <3> QED
        BY <1>t, <2>1, <2>2, <3>1, LeaveStep
    <2> QED
      BY <2>3, <2>4
  <1>6. CASE EndOfInterrupt
    <2>1. /\ cpu.at = "eoi" /\ cpu # None /\ cpu.irq \in 0 .. 15
          /\ UNCHANGED <<mask0, mask1, irr, booting, call, panic>>
          /\ cpu' = None /\ pic_eoi(cpu.irq)
      BY <1>6, <1>t DEF EndOfInterrupt, TypeOK, handlerVars
    <2>2. ~booting /\ panic = NULL /\ Serving(cpu.irq)
      BY <1>t, <2>1 DEF ServiceInv
    <2>3. \A x \in Int : Highest({x}) = {x}
      BY DEF Highest
    <2>4. Highest(isr0) = isr0
      BY <2>1, <2>2, <2>3 DEF Serving
    <2>5. cpu.irq > 7 => Highest(isr1) = isr1
      BY <2>1, <2>2, <2>3 DEF Serving
    <2>6. isr0' = {} /\ isr1' = {}
      BY <2>1, <2>2, <2>4, <2>5 DEF pic_eoi, Serving
    <2> QED
      BY <1>t, <2>1, <2>2, <2>6, LeaveStep
  <1>7. ASSUME NEW line \in SetLines, irq_set_handler(line) \/ irq_clear_handler(line)
        PROVE  SInv'
    <2>1. call' \in Calls \cup {NULL}
      BY <1>7 DEF irq_set_handler, irq_clear_handler, Calls
    <2>2. UNCHANGED <<mask0, mask1, irr, isr0, isr1, cpu, booting, panic>>
      BY <1>7 DEF irq_set_handler, irq_clear_handler, picVars
    <2> QED
      BY <1>t, <2>1, <2>2, QuietStep DEF TypeOK
  <1>8. CASE UpdateMask
    <2>1. /\ UNCHANGED <<irr, isr0, isr1, booting, cpu, panic>> /\ call' = NULL
          /\ call.irq \in 0 .. 15
      BY <1>0, <1>t, <1>8 DEF UpdateMask, TypeOK, Calls
    <2>2. mask0' \subseteq 0 .. 7 /\ mask1' = mask1
      <3>1. CASE call.op = "set"
        BY <1>t, <1>8, <3>1 DEF UpdateMask, pic_clear_mask, TypeOK
      <3>2. CASE call.op # "set" /\ call.irq < 8
        <4>1. mask0' = mask0 \cup {call.irq} /\ mask1' = mask1
          BY <1>8, <3>2 DEF UpdateMask, pic_set_mask
        <4>2. call.irq \in 0 .. 7
          BY <2>1, <3>2
        <4> QED
          BY <1>t, <4>1, <4>2 DEF TypeOK
      <3>3. CASE call.op # "set" /\ ~(call.irq < 8)
        <4>1. mask1' = mask1 \cup {call.irq - 8} /\ mask0' = mask0
          BY <1>8, <3>3 DEF UpdateMask, pic_set_mask
        <4>2. call.irq - 8 \in 0 .. 7
          BY <2>1, <3>3
        <4> QED
          BY <1>t, <4>1, <4>2 DEF TypeOK
      <3> QED
        BY <3>1, <3>2, <3>3
    <2> QED
      BY <1>t, <2>1, <2>2, QuietStep DEF TypeOK
  <1>9. ASSUME NEW n \in Exceptions,
               exception_set_handler(n) \/ exception_clear_handler(n) \/ exception_handler(n)
        PROVE  SInv'
    <2>1. /\ UNCHANGED <<mask0, mask1, irr, isr0, isr1, cpu, call, booting>>
          /\ \/ panic' = panic
             \/ panic' = "unhandled exception!" /\ cpu = None
      BY <1>9 DEF exception_set_handler, exception_clear_handler, exception_handler, kpanic,
                  InterruptsOn, picVars, handlerVars
    <2> QED
      BY <1>t, <2>1, QuietStep DEF TypeOK
  <1>10. CASE StartTasks
    BY <1>t, <1>10, QuietStep DEF StartTasks, TypeOK, picVars
  <1>11. CASE UNCHANGED vars
    BY <1>t, <1>11, QuietStep DEF vars, picVars, handlerVars, TypeOK
  <1> QED
    BY <1>1, <1>2, <1>3, <1>4, <1>5, <1>6, <1>7, <1>8, <1>9, <1>10, <1>11 DEF Next, Interrupt

(* The types of the controllers' and the kernel's state hold, and what is  *)
(* in service is what the processor handles, in every reachable state.     *)
THEOREM ServiceInvariance == Spec => []SInv
  BY SInvInit, SInvNext, PTL DEF Spec

(* irq_handler only runs for an interrupt in service: the check of i386.S  *)
(* for spurious interrupts suffices, whichever devices withdraw requests.  *)
THEOREM IRQsAreRequested == Spec => []OnlyRequested
  <1>1. SInv => OnlyRequested
    <2> SUFFICES ASSUME SInv, cpu.at \in {"handler", "eoi"}
                 PROVE  cpu.irq \in InService
      BY DEF OnlyRequested
    <2>1. Serving(cpu.irq) /\ cpu.irq \in 0 .. 15
      BY DEF SInv, ServiceInv, TypeOK
    <2>2. CASE cpu.irq < 8
      BY <2>1, <2>2 DEF Serving, InService
    <2>3. CASE ~(cpu.irq < 8)
      <3>1. isr1 = {cpu.irq - 8} /\ (cpu.irq - 8) + 8 = cpu.irq
        BY <2>1, <2>3 DEF Serving
      <3> QED
        BY <3>1 DEF InService
    <2> QED
      BY <2>2, <2>3
  <1> QED
    BY <1>1, ServiceInvariance, PTL

(* pic_eoi leaves no interrupt in service when the processor returns to a  *)
(* task.                                                                   *)
THEOREM EveryIRQEnds == Spec => []NoneLeftInService
  <1>1. SInv => NoneLeftInService
    <2> SUFFICES ASSUME SInv, cpu = None, panic = NULL
                 PROVE  InService = {}
      BY DEF NoneLeftInService
    <2>1. isr0 = {} /\ isr1 = {}
      BY DEF SInv, ServiceInv
    <2> QED
      BY <2>1 DEF InService
  <1> QED
    BY <1>1, ServiceInvariance, PTL

---------------------------------------------------------------------------
(* The handlers, when they are only set for lines of the first controller. *)
FirstController == SetLines \subseteq 0 .. 7

LEMMA HandlerInit == Init => HandlerInv
  BY InterruptsAssumption DEF Init, HandlerInv, NoUnhandledIRQ

(* A deliverable interrupt has a handler.                                  *)
LEMMA DeliverableHandled ==
    ASSUME SInv, HandlerInv, ~booting, NEW line \in Deliverable
    PROVE  line \in irq_handlers
  <1>1. line \in 0 .. 15 /\ Unmasked(line)
    BY InterruptsAssumption DEF Deliverable, SInv, TypeOK
  <1>a. mask1 = 0 .. 7
    BY DEF SInv, TypeOK
  <1>b. line < 8
    <2> SUFFICES ASSUME ~(line < 8)
                 PROVE  FALSE
      OBVIOUS
    <2>1. line - 8 \in 0 .. 7
      BY <1>1
    <2> QED
      BY <1>1, <1>a, <2>1 DEF Unmasked
  <1>2. line \in 0 .. 7 /\ line \notin mask0
    BY <1>1, <1>b DEF Unmasked
  <1>3. ~(call # NULL /\ call.op = "clear")
    BY DEF HandlerInv
  <1> QED
    BY <1>2, <1>3 DEF HandlerInv

(* The processor goes on with the interrupt, or leaves it.                 *)
LEMMA StageHandler ==
    ASSUME HandlerInv, cpu # None, cpu \in [at : Stages, irq : 0 .. 15],
           UNCHANGED <<mask0, call, irq_handlers, panic, isr0, isr1, booting>>,
           NEW stage, cpu' = None \/ cpu' = [cpu EXCEPT !.at = stage]
    PROVE  HandlerInv'
  <1>1. cpu' # None => cpu'.irq = cpu.irq
    OBVIOUS
  <1> QED
    BY <1>1 DEF HandlerInv, Serving, NoUnhandledIRQ

LEMMA HandlerNext ==
    ASSUME FirstController, SInv, SInv', HandlerInv, [Next]_vars
    PROVE  HandlerInv'
  <1>t. TypeOK /\ ServiceInv /\ TypeOK' /\ ServiceInv'
    BY DEF SInv
  <1>1. ASSUME UNCHANGED <<mask0, call, irq_handlers, panic, cpu, isr0, isr1, booting>>
        PROVE  HandlerInv'
    BY <1>1 DEF HandlerInv, Serving, NoUnhandledIRQ
  <1>2. ASSUME NEW line \in Lines, Request(line) \/ Withdraw(line)
        PROVE  HandlerInv'
    BY <1>1, <1>2 DEF Request, Withdraw, handlerVars
  <1>3. CASE RaiseINT
    BY <1>1, <1>3 DEF RaiseINT, handlerVars
  <1>4. CASE Acknowledge
    <2>1. /\ UNCHANGED <<mask0, call, irq_handlers, panic, booting>>
          /\ ~booting
      BY <1>4 DEF Acknowledge, InterruptsOn, handlerVars
    <2>2. (cpu # None /\ Serving(cpu.irq) => cpu.irq \in irq_handlers)'
      <3>1. CASE cpu' = [at |-> "entry", irq |-> 7] /\ isr0' = {} /\ isr1' = {}
        <4>1. cpu'.irq = 7
          BY <3>1
        <4>2. ~Serving(7)'
          BY <3>1 DEF Serving
        <4> QED
          BY <4>1, <4>2
      <3>2. ASSUME NEW line \in Deliverable, cpu' = [at |-> "entry", irq |-> line]
            PROVE  cpu'.irq \in irq_handlers'
        BY <2>1, <3>2, DeliverableHandled
      <3> QED
        BY <1>t, <1>4, <3>1, <3>2, AcknowledgeEffect
    <2> QED
      BY <2>1, <2>2 DEF HandlerInv, NoUnhandledIRQ
  <1>5. CASE InterruptEntry
    <2>1. /\ UNCHANGED <<mask0, call, irq_handlers, panic, isr0, isr1, booting>>
          /\ cpu # None /\ cpu \in [at : Stages, irq : 0 .. 15]
          /\ cpu' = None \/ cpu' = [cpu EXCEPT !.at = "handler"]
      BY <1>t, <1>5 DEF InterruptEntry, picVars, handlerVars, TypeOK
    <2> QED
      BY <2>1, StageHandler
  <1>6. CASE irq_handler
    <2>1. /\ UNCHANGED <<mask0, call, irq_handlers, isr0, isr1, booting>>
          /\ cpu.at = "handler" /\ cpu # None /\ cpu \in [at : Stages, irq : 0 .. 15]
      BY <1>t, <1>6 DEF irq_handler, picVars, handlerVars, TypeOK
    <2>2. cpu.irq \in irq_handlers
      BY <1>t, <2>1 DEF ServiceInv, HandlerInv
    <2>3. panic' = panic /\ cpu' = [cpu EXCEPT !.at = "eoi"]
      BY <1>6, <2>2 DEF irq_handler
    <2> QED
      BY <2>1, <2>3, StageHandler
  <1>7. CASE EndOfInterrupt
    BY <1>7 DEF EndOfInterrupt, handlerVars, HandlerInv, NoUnhandledIRQ
  <1>8. ASSUME NEW line \in SetLines, irq_set_handler(line)
        PROVE  HandlerInv'
    <2>1. /\ UNCHANGED <<mask0, panic, cpu, isr0, isr1, booting>>
          /\ cpu = None /\ call = NULL
          /\ irq_handlers' = irq_handlers \cup {line}
          /\ call' = [op |-> "set", irq |-> line]
      BY <1>8 DEF irq_set_handler, KernelRuns, picVars
    <2>2. call'.op = "set" /\ call'.irq = line
      BY <2>1
    <2> QED
      BY <2>1, <2>2 DEF HandlerInv, NoUnhandledIRQ
  <1>9. ASSUME NEW line \in SetLines, irq_clear_handler(line)
        PROVE  HandlerInv'
    <2>1. /\ UNCHANGED <<mask0, panic, cpu, isr0, isr1, booting>>
          /\ cpu = None /\ call = NULL /\ booting
          /\ irq_handlers' = irq_handlers \ {line}
          /\ call' = [op |-> "clear", irq |-> line]
      BY <1>9 DEF irq_clear_handler, KernelRuns, picVars
    <2>2. call'.op = "clear" /\ call'.irq = line
      BY <2>1
    <2>3. call' # NULL
      <3>1. [op |-> "clear", irq |-> line] \in [op : {"set", "clear"}, irq : Lines]
        BY InterruptsAssumption
      <3> QED
        BY <2>1, <3>1, InterruptsAssumption, Zenon
    <2> QED
      BY <2>1, <2>2, <2>3 DEF HandlerInv, NoUnhandledIRQ
  <1>10. CASE UpdateMask
    <2>1. /\ UNCHANGED <<irq_handlers, panic, cpu, isr0, isr1, booting>>
          /\ cpu = None /\ call # NULL /\ call' = NULL
          /\ call.irq \in 0 .. 7
      BY <1>t, <1>10 DEF UpdateMask, KernelRuns, TypeOK, Calls, FirstController
    <2>2. CASE call.op = "set"
      <3>1. mask0' = mask0 \ {call.irq} /\ call.irq \in irq_handlers
        BY <1>10, <2>1, <2>2 DEF UpdateMask, pic_clear_mask, HandlerInv
      <3> QED
        BY <2>1, <2>2, <3>1 DEF HandlerInv, NoUnhandledIRQ
    <2>3. CASE call.op # "set"
      <3>1. mask0' = mask0 \cup {call.irq}
        BY <1>10, <2>1, <2>3 DEF UpdateMask, pic_set_mask
      <3> QED
        BY <2>1, <2>3, <3>1 DEF HandlerInv, NoUnhandledIRQ
    <2> QED
      BY <2>2, <2>3
  <1>11. ASSUME NEW n \in Exceptions, exception_set_handler(n) \/ exception_clear_handler(n)
         PROVE  HandlerInv'
    BY <1>1, <1>11 DEF exception_set_handler, exception_clear_handler, picVars
  <1>12. ASSUME NEW n \in Exceptions, exception_handler(n)
         PROVE  HandlerInv'
    <2>1. /\ UNCHANGED <<mask0, call, irq_handlers, cpu, isr0, isr1, booting>>
          /\ panic' # "unhandled IRQ!"
      BY <1>12 DEF exception_handler, kpanic, picVars, handlerVars, HandlerInv, NoUnhandledIRQ
    <2> QED
      BY <2>1 DEF HandlerInv, Serving, NoUnhandledIRQ
  <1>13. CASE StartTasks
    <2>1. /\ UNCHANGED <<mask0, call, irq_handlers, panic, cpu, isr0, isr1>>
          /\ call = NULL
      BY <1>13 DEF StartTasks, picVars
    <2> QED
      BY <2>1 DEF HandlerInv, Serving, NoUnhandledIRQ
  <1>14. CASE UNCHANGED vars
    BY <1>1, <1>14 DEF vars, picVars, handlerVars
  <1> QED
    BY <1>2, <1>3, <1>4, <1>5, <1>6, <1>7, <1>8, <1>9, <1>10, <1>11, <1>12, <1>13, <1>14
       DEF Next, Interrupt

(* As long as handlers are only set for lines of the first controller (the *)
(* kernel sets one, for the timer on line 0), an interrupt is never        *)
(* delivered without a handler, and "unhandled IRQ!" is never the panic.   *)
(* For a line of the second controller it could be: pic_clear_mask then    *)
(* clears the mask of a line of the first controller.                      *)
THEOREM EveryIRQHandled ==
    ASSUME FirstController
    PROVE  Spec => []NoUnhandledIRQ
  <1>1. Init => SInv /\ HandlerInv
    BY SInvInit, HandlerInit
  <1>2. (SInv /\ HandlerInv) /\ [Next]_vars => (SInv /\ HandlerInv)'
    BY SInvNext, HandlerNext
  <1>3. SInv /\ HandlerInv => NoUnhandledIRQ
    BY DEF HandlerInv
  <1> QED
    BY <1>1, <1>2, <1>3, PTL DEF Spec
============================================================================
