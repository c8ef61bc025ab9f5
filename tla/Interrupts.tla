----------------------------- MODULE Interrupts -----------------------------
(***************************************************************************)
(* Interrupts in the running kernel: kmain (src/src/kernel/kmain.c) brings *)
(* the machine up step by step while the interrupt controller, the timer,  *)
(* the keyboard and other devices interrupt it.  isr.c, idt.c, timer.c,    *)
(* check.c, keyboard.c and the stubs of interrupt.asm run on the one CPU.  *)
(*                                                                         *)
(* contexts is the CPU's stack of activities: the first is kmain, each     *)
(* other one an interrupt or exception being served, the last one runs.    *)
(***************************************************************************)
EXTENDS InterruptStub, FiniteSetsExt

CONSTANTS
  Lines,       \* IRQ lines of the master PIC that devices may raise
  Exceptions,  \* exceptions that may occur while the kernel runs
  TickMod,     \* number of values of the tick counter (2^32 in the code)
  MaxFaults    \* bound: exceptions per behaviour

ASSUME LinesAssumption == Lines \subseteq 0 .. 7
ASSUME ExceptionsAssumption == Exceptions \subseteq 0 .. 31
ASSUME TickAssumption == TickMod \in Nat /\ TickMod > 1
ASSUME FaultsAssumption == MaxFaults \in Nat

EXCEPTION_BP == 3
EXCEPTION_GP == 13
IRQ_BASE == 32
IRQ0 == 32
IRQ1 == 33

VARIABLES
  main,                \* where kmain is
  contexts,            \* activities on the CPU, the running one last
  iflag,               \* the interrupt flag of the CPU
  regs,                \* the general purpose registers
  gates,               \* vectors whose IDT gate is present
  interrupt_handlers,  \* vectors with a registered handler
  irr, imr, inservice, \* PIC: requested, masked and in-service lines
  pit,                 \* the timer chip is counting
  tick, snapshot,      \* timer.c: tick; check.c: the value read first
  obf,                 \* keyboard controller: output buffer full
  faults               \* exceptions so far

cpu     == << contexts, iflag, regs >>
tables  == << gates, interrupt_handlers >>
pic     == << irr, imr, inservice >>
devices == << pit, obf >>
ticks   == << tick, snapshot >>
vars    == << main, cpu, tables, pic, devices, ticks, faults >>

KMAIN == -1

(* Every register of every activity holds a value of its own.              *)
Own(id) == [r \in Registers |-> <<id, r>>]

Top == contexts[Len(contexts)]
SetTop(at) == [contexts EXCEPT ![Len(contexts)].at = at]
Running(at) == Top.at = at

Init ==
  /\ main = "multiboot"
  /\ contexts = << [id |-> KMAIN, at |-> "kmain", flags |-> FALSE, error |-> FALSE,
                    old |-> Own(KMAIN), words |-> << >>] >>
  /\ iflag = FALSE
  /\ regs = Own(KMAIN)
  /\ gates = {} /\ interrupt_handlers = {}
  /\ irr = {} /\ imr = {} /\ inservice = {}
  /\ pit = TRUE                \* the BIOS left it running
  /\ tick = 0 /\ snapshot = 0
  /\ obf = FALSE
  /\ faults = 0

-----------------------------------------------------------------------------
(* kmain.  A step of kmain loads rdi for the next call it makes.           *)
Kmain(from, to) ==
  /\ Running("kmain")
  /\ main = from
  /\ main' = to
  /\ regs' = [regs EXCEPT !["rdi"] = <<KMAIN, "rdi">>]
  /\ UNCHANGED faults

MultibootValid ==
  /\ Kmain("multiboot", "isr_init")
  /\ UNCHANGED << contexts, iflag, tables, pic, devices, ticks >>

(* PANIC("invalid multiboot").                                             *)
MultibootInvalid ==
  /\ Kmain("multiboot", "halted")
  /\ contexts' = SetTop("halted")
  /\ iflag' = FALSE
  /\ UNCHANGED << tables, pic, devices, ticks >>

(* Programs both PICs and leaves every line unmasked, fills the IDT,       *)
(* registers the breakpoint handler and loads the IDT.  Interrupts are off *)
(* until irq_init, so that no other activity sees an intermediate state.   *)
IsrInit(handled) ==
  /\ Kmain("isr_init", "irq_init")
  /\ irr' = {} /\ imr' = {} /\ inservice' = {}
  /\ gates' = 0 .. 31 \cup IRQ_BASE .. IRQ_BASE + 4
  /\ interrupt_handlers' = interrupt_handlers \cup {handled}
  /\ UNCHANGED << contexts, iflag, devices, ticks >>

(* Fault: the handler is registered for the general protection fault.      *)
FaultHandlerForGP == IsrInit(EXCEPTION_GP)

isr_init == IsrInit(EXCEPTION_BP)

irq_init ==
  /\ Kmain("irq_init", "timer_init")
  /\ iflag' = TRUE
  /\ UNCHANGED << contexts, tables, pic, devices, ticks >>

(* timer_init: register, then write the mode, which stops the counter, and *)
(* then the two bytes of the divisor, the second of which starts it.       *)
TimerRegister ==
  /\ Kmain("timer_init", "pit_mode")
  /\ interrupt_handlers' = interrupt_handlers \cup {IRQ0}
  /\ UNCHANGED << contexts, iflag, gates, pic, devices, ticks >>

TimerMode ==
  /\ Kmain("pit_mode", "pit_divisor")
  /\ pit' = FALSE
  /\ UNCHANGED << contexts, iflag, tables, pic, obf, ticks >>

TimerDivisor ==
  /\ Kmain("pit_divisor", "check")
  /\ pit' = TRUE
  /\ UNCHANGED << contexts, iflag, tables, pic, obf, ticks >>

(* check_interrupts: read tick once, then poll until it differs.           *)
CheckStart ==
  /\ Kmain("check", "polling")
  /\ snapshot' = tick
  /\ UNCHANGED << contexts, iflag, tables, pic, devices, tick >>

CheckDone ==
  /\ tick # snapshot
  /\ Kmain("polling", "keyboard_init")
  /\ UNCHANGED << contexts, iflag, tables, pic, devices, ticks >>

(* serial_init lies between the two and touches nothing modelled here.     *)
keyboard_init ==
  /\ Kmain("keyboard_init", "idle")
  /\ interrupt_handlers' = interrupt_handlers \cup {IRQ1}
  /\ UNCHANGED << contexts, iflag, gates, pic, devices, ticks >>

KmainStep ==
  \/ MultibootValid \/ MultibootInvalid
  \/ isr_init \/ irq_init
  \/ TimerRegister \/ TimerMode \/ TimerDivisor
  \/ CheckStart \/ CheckDone
  \/ keyboard_init

-----------------------------------------------------------------------------
(* The devices (external).  Requests are edges: one that is still pending  *)
(* is not counted twice.                                                   *)
PitFires ==
  /\ pit
  /\ irr' = irr \cup ({0} \cap Lines)
  /\ UNCHANGED << main, cpu, tables, imr, inservice, devices, ticks, faults >>

(* The controller interrupts when its output buffer becomes full, and has  *)
(* room again once port 0x60 has been read.                                *)
KeyPressed ==
  /\ 1 \in Lines
  /\ ~ obf
  /\ obf' = TRUE
  /\ irr' = irr \cup {1}
  /\ UNCHANGED << main, cpu, tables, imr, inservice, pit, ticks, faults >>

OtherDevice(line) ==
  /\ line \notin {0, 1}
  /\ irr' = irr \cup {line}
  /\ UNCHANGED << main, cpu, tables, imr, inservice, devices, ticks, faults >>

-----------------------------------------------------------------------------
(* set_idt_gate: bit 0 of the gate's type is gate_type, bits 1 to 3 are    *)
(* ONES.  Type 15 is a trap gate, which leaves the interrupt flag alone;   *)
(* type 14, an interrupt gate, would clear it.                             *)
gate_type == 1
ONES      == 7
GateType  == gate_type + 2 * ONES
FlagAfterGate == IF GateType = 14 THEN FALSE ELSE iflag

(* The CPU (external) enters vector id through its gate; a vector without  *)
(* gate becomes a general protection fault, which has an error code.       *)
Enter(id) ==
  LET vector == IF id \in gates THEN id ELSE EXCEPTION_GP
  IN  /\ contexts' =
           Append(contexts, [id |-> vector, at |-> "entry", flags |-> iflag,
                             error |-> vector \in PushesErrorCode,
                             old |-> regs, words |-> << >>])
      /\ iflag' = FlagAfterGate
      /\ UNCHANGED regs

(* The PIC (external) offers a line when it is not masked and no line of   *)
(* the same or a higher priority is in service.                            *)
Deliver(line) ==
  /\ iflag
  /\ line \in irr \ imr
  /\ \A other \in inservice \cup ((irr \ imr) \ {line}) : line < other
  /\ irr' = irr \ {line}
  /\ inservice' = inservice \cup {line}
  /\ Enter(IRQ_BASE + line)
  /\ UNCHANGED << main, tables, imr, devices, ticks, faults >>

(* An exception in kmain or in a handler, once the IDT is loaded.          *)
Exception(id) ==
  /\ faults < MaxFaults
  /\ faults' = faults + 1
  /\ Top.at \in {"kmain", "callback"}
  /\ id \in gates
  /\ Enter(id)
  /\ UNCHANGED << main, tables, pic, devices, ticks >>

-----------------------------------------------------------------------------
(* The stubs of interrupt.asm and the handlers of isr.c.                   *)
Save(flag) ==
  /\ Running("entry")
  /\ iflag' = flag
  /\ regs' = LoadId(regs, Top.id)
  /\ contexts' = [contexts EXCEPT ![Len(contexts)].at = "handler",
                                  ![Len(contexts)].words = Push(LoadId(regs, Top.id))]
  /\ UNCHANGED << main, tables, pic, devices, ticks, faults >>

(* Fault: the stub does not begin with cli.                                *)
FaultNoCli == Save(iflag)

(* cli, mov rdi, the pushes and the call.                                  *)
StubEntry == Save(FALSE)

(* A nonspecific end of interrupt clears the in-service line of highest    *)
(* priority.                                                               *)
PIC_EOI == inservice \ {Min(inservice)}

(* Fault: no end of interrupt when no handler is registered.               *)
FaultEoiOnlyHandled ==
  /\ Running("handler") /\ Top.id >= IRQ_BASE
  /\ inservice' = IF Top.id \in interrupt_handlers THEN PIC_EOI ELSE inservice
  /\ contexts' = SetTop("callback")
  /\ UNCHANGED << main, iflag, regs, tables, irr, imr, devices, ticks, faults >>

(* irq_handler, first part: the end of interrupt is sent before the        *)
(* handler is called.  Lines of PIC2 (id >= 40) have no gate.              *)
irq_handler ==
  /\ Running("handler") /\ Top.id >= IRQ_BASE
  /\ inservice' = PIC_EOI
  /\ contexts' = SetTop("callback")
  /\ UNCHANGED << main, iflag, regs, tables, irr, imr, devices, ticks, faults >>

(* irq_handler, second part: timer_callback, keyboard_callback or nothing. *)
(* A handler leaves its own values in the registers.                       *)
CountTick(next) ==
  /\ Running("callback") /\ Top.id = IRQ0 /\ IRQ0 \in interrupt_handlers
  /\ tick' = next
  /\ regs' = Own(Top.id)
  /\ contexts' = SetTop("restore")
  /\ UNCHANGED << main, iflag, tables, pic, devices, snapshot, faults >>

(* Fault: the counter does not wrap with its width.                        *)
FaultTickUnbounded == CountTick(tick + 1)

timer_callback == CountTick((tick + 1) % TickMod)

(* Fault: the scancode is not read.                                        *)
FaultScancodeUnread ==
  /\ Running("callback") /\ Top.id = IRQ1 /\ IRQ1 \in interrupt_handlers
  /\ regs' = Own(Top.id)
  /\ contexts' = SetTop("restore")
  /\ UNCHANGED << main, iflag, tables, pic, devices, ticks, faults >>

keyboard_callback ==
  /\ Running("callback") /\ Top.id = IRQ1 /\ IRQ1 \in interrupt_handlers
  /\ obf' = FALSE
  /\ regs' = Own(Top.id)
  /\ contexts' = SetTop("restore")
  /\ UNCHANGED << main, iflag, tables, pic, pit, ticks, faults >>

NoCallback ==
  /\ Running("callback") /\ Top.id >= IRQ_BASE /\ Top.id \notin interrupt_handlers
  /\ regs' = Own(Top.id)
  /\ contexts' = SetTop("restore")
  /\ UNCHANGED << main, iflag, tables, pic, devices, ticks, faults >>

(* isr_handler: the registered handler (only breakpoint_handler is), or    *)
(* PANIC, which ends in irq_disable and an endless loop.                   *)
IsrHandled ==
  /\ Running("handler") /\ Top.id < IRQ_BASE /\ Top.id \in interrupt_handlers
  /\ regs' = Own(Top.id)
  /\ contexts' = SetTop("restore")
  /\ UNCHANGED << main, iflag, tables, pic, devices, ticks, faults >>

kernel_panic ==
  /\ Running("handler") /\ Top.id < IRQ_BASE /\ Top.id \notin interrupt_handlers
  /\ contexts' = SetTop("halted")
  /\ iflag' = FALSE
  /\ UNCHANGED << main, regs, tables, pic, devices, ticks, faults >>

Resume(flag) ==
  /\ Running("restore")
  /\ regs' = Pop(Top.words)
  /\ iflag' = flag
  /\ contexts' = SubSeq(contexts, 1, Len(contexts) - 1)
  /\ UNCHANGED << main, tables, pic, devices, ticks, faults >>

(* Fault: the flag set by sti is kept instead of the one on the stack.     *)
FaultKeepSti == Resume(TRUE)

(* Fault: the flag is not restored from the stack.                         *)
FaultKeepCli == Resume(iflag)

(* The pops, sti and iretq.  sti takes effect after the next instruction,  *)
(* and that one, iretq, loads the flag that was pushed.                    *)
StubReturn == Resume(Top.flags)

(* while (1) ; in kernel_panic.                                            *)
Spin == Running("halted") /\ UNCHANGED vars

Serve ==
  \/ StubEntry \/ irq_handler
  \/ timer_callback \/ keyboard_callback \/ NoCallback
  \/ IsrHandled \/ kernel_panic
  \/ StubReturn

Next ==
  \/ KmainStep
  \/ PitFires \/ KeyPressed \/ \E line \in Lines : OtherDevice(line)
  \/ \E line \in Lines : Deliver(line)
  \/ \E id \in Exceptions : Exception(id)
  \/ Serve
  \/ Spin

Spec == Init /\ [][Next]_vars

(* For liveness the devices are slow compared with the CPU (the timer has  *)
(* a period of 20 ms): none raises a line while an interrupt is served.    *)
SlowDevices == irr' \subseteq irr \/ Len(contexts) = 1

(* The CPU runs what it has started and the timer keeps firing.  A line    *)
(* that can be delivered again and again is, and kmain runs again and      *)
(* again between interrupts.                                               *)
FairSpec ==
  /\ Init /\ [][Next /\ SlowDevices]_vars
  /\ WF_vars(Serve)
  /\ SF_vars(PitFires /\ SlowDevices)
  /\ \A line \in Lines : SF_vars(Deliver(line))
  /\ SF_vars(KmainStep)

-----------------------------------------------------------------------------
Phases ==
  {"multiboot", "isr_init", "irq_init", "timer_init", "pit_mode", "pit_divisor",
   "check", "polling", "keyboard_init", "idle", "halted"}

Places == {"kmain", "entry", "handler", "callback", "restore", "halted"}

Vectors == 0 .. 31 \cup {IRQ_BASE + line : line \in 0 .. 7}

Values == (Vectors \cup {KMAIN}) \X (Registers \cup {"id"})

Context ==
  [id : Vectors \cup {KMAIN}, at : Places, flags : BOOLEAN, error : BOOLEAN,
   old : [Registers -> Values], words : Seq(Values)]

(* The state of the CPU, the PIC and the drivers has its types.            *)
TypeOK ==
  /\ main \in Phases
  /\ contexts \in Seq(Context) /\ Len(contexts) >= 1
  /\ iflag \in BOOLEAN
  /\ regs \in [Registers -> Values]
  /\ gates \subseteq Vectors /\ interrupt_handlers \subseteq Vectors
  /\ irr \subseteq Lines /\ imr \subseteq Lines /\ inservice \subseteq Lines
  /\ pit \in BOOLEAN /\ obf \in BOOLEAN
  /\ tick \in 0 .. (TickMod - 1) /\ snapshot \in 0 .. (TickMod - 1)
  /\ faults \in 0 .. MaxFaults

IsIrq(c) == c.id >= IRQ_BASE

(* The end of interrupt is sent before the handler runs, so the PIC no     *)
(* longer keeps a line from interrupting its own handler: only cli does.   *)
(* It is enough: an IRQ interrupts another one only while that one has not *)
(* reached its cli, and only with a higher priority; no handler is ever    *)
(* entered a second time before it has returned.                           *)
IrqNesting ==
  \A i, j \in 1 .. Len(contexts) :
    i < j /\ IsIrq(contexts[i]) /\ IsIrq(contexts[j]) =>
      contexts[i].at = "entry" /\ contexts[j].id < contexts[i].id

(* An exception without handler, on its way to PANIC.                      *)
Fatal(c) == c.id \in 0 .. 31 \ {EXCEPTION_BP}

Acknowledged(c) == c.at \notin {"entry", "handler"}

(* Every line in service belongs to an interrupt that has still to send    *)
(* its end of interrupt: the nonspecific EOI of a nested interrupt never   *)
(* acknowledges somebody else's line, and no line stays in service.        *)
EoiMatches ==
  (\A i \in 1 .. Len(contexts) : ~ Fatal(contexts[i])) =>
    inservice = { contexts[i].id - IRQ_BASE :
                    i \in { i \in 1 .. Len(contexts) :
                              IsIrq(contexts[i]) /\ ~ Acknowledged(contexts[i]) } }

(* Whatever the nesting, kmain runs with interrupts enabled from irq_init  *)
(* on: no stub returns with the flag cleared.                              *)
KmainInterruptible ==
  Running("kmain") /\ main \notin {"multiboot", "isr_init", "irq_init"} => iflag

(* iretq finds the frame the CPU pushed: no context that returns has an    *)
(* error code below its registers, since the stubs never pop one.          *)
NoErrorCodeAtReturn == Running("restore") => ~ Top.error

(* get_stack skips the saved registers and the error code, if there is     *)
(* one, and returns the address of the saved RIP.                          *)
GetStackFindsRip ==
  Running("handler") => StackAtCall(Top.id, Top.words)[get_stack(Top.id) + 1] = "rip"

(* A stub that returns gives every register but rdi the value it had when  *)
(* the interrupt came.                                                     *)
ReturnRestores ==
  [][ Len(contexts') < Len(contexts) =>
        \A r \in Registers \ {"rdi"} : regs'[r] = Top.old[r] ]_vars

(* Boot completes: check_interrupts sees the timer and kmain goes on.      *)
BootCompletes == (main = "isr_init") ~> (main = "idle")

(* A keyboard interrupt that is pending once keyboard_init has run makes   *)
(* keyboard_callback read the scancode.                                    *)
KeyServed == (main = "idle" /\ 1 \in irr) ~> ~ obf

-----------------------------------------------------------------------------
(* interrupt.asm, "save registers" and "restore registers": the stub gives *)
(* every register back.                                                    *)
RegistersPreserved ==
  [][ Len(contexts') < Len(contexts) => regs' = Top.old ]_vars

(* kmain.c, "keyboard routine enabled": from then on a key that is waiting *)
(* in the controller is read.                                              *)
KeyboardEnabled == (main = "idle" /\ obf) ~> ~ obf
=============================================================================
