-------------------------- MODULE Interrupts_proofs --------------------------
(***************************************************************************)
(* Proofs about Interrupts, for every set of lines and exceptions and      *)
(* every number of exceptions.                                             *)
(***************************************************************************)
EXTENDS Interrupts, SequenceTheorems, WellFoundedInduction, TLAPS

(* kmain is at the bottom of the stack and nowhere else.                   *)
Shape ==
  \A i \in 1 .. Len(contexts) :
    /\ i = 1 <=> contexts[i].id = KMAIN
    /\ i = 1 => contexts[i].at \in {"kmain", "halted"}
    /\ i > 1 => contexts[i].at # "kmain"

Interruptible(c) == c.at \in {"kmain", "entry"}

(* Interrupts are enabled only when everything on the stack is kmain or a  *)
(* stub before its cli; the same holds of the flag each context will       *)
(* restore and the contexts below it.                                      *)
Masked ==
  /\ iflag => \A i \in 1 .. Len(contexts) : Interruptible(contexts[i])
  /\ \A k \in 2 .. Len(contexts) :
       contexts[k].flags => \A i \in 1 .. k - 1 : Interruptible(contexts[i])

(* A line whose interrupt has not been acknowledged is in service.         *)
InService ==
  \A i \in 1 .. Len(contexts) :
    IsIrq(contexts[i]) /\ ~ Acknowledged(contexts[i]) =>
      contexts[i].id - IRQ_BASE \in inservice

(* And nothing else is, unless the kernel is on its way to PANIC.          *)
NothingElse ==
  (\A i \in 1 .. Len(contexts) : ~ Fatal(contexts[i])) =>
    \A line \in inservice : \E i \in 1 .. Len(contexts) :
      /\ IsIrq(contexts[i]) /\ ~ Acknowledged(contexts[i])
      /\ line = contexts[i].id - IRQ_BASE

Booted == main \notin {"multiboot", "isr_init", "irq_init", "halted"}

(* Since irq_init, kmain is left and resumed with interrupts enabled.      *)
KmainFlag ==
  /\ Booted /\ Len(contexts) = 1 => iflag
  /\ Booted /\ Len(contexts) > 1 => contexts[2].flags
  /\ main = "halted" => contexts[1].at = "halted"

(* Equal but for rdi.                                                      *)
Agree(f, g) == \A r \in Registers \ {"rdi"} : f[r] = g[r]

(* What a stub has pushed, and what the registers were before it did.      *)
Saved ==
  /\ \A i \in 1 .. Len(contexts) :
       contexts[i].at \in {"handler", "callback", "restore"} =>
         contexts[i].words = Push(LoadId(contexts[i].old, contexts[i].id))
  /\ \A i \in 1 .. Len(contexts) - 1 :
       contexts[i].at = "entry" => Agree(contexts[i + 1].old, contexts[i].old)
  /\ Running("entry") => Agree(regs, Top.old)

(* Only breakpoints return.                                                *)
Handled ==
  /\ interrupt_handlers \subseteq {EXCEPTION_BP, IRQ0, IRQ1}
  /\ \A i \in 1 .. Len(contexts) : contexts[i].at = "restore" => ~ Fatal(contexts[i])

IInv ==
  TypeOK /\ Shape /\ Masked /\ InService /\ NothingElse /\ IrqNesting /\ KmainFlag /\ Saved /\ Handled

-----------------------------------------------------------------------------
(* The three ways in which the stack of contexts changes.                  *)
LEMMA ReplaceTop ==
  ASSUME NEW s \in Seq(Context), Len(s) >= 1, NEW c \in Context
  PROVE  LET t == [s EXCEPT ![Len(s)] = c]
         IN  /\ t \in Seq(Context)
             /\ Len(t) = Len(s)
             /\ t[Len(s)] = c
             /\ \A i \in 1 .. Len(s) : i # Len(s) => t[i] = s[i]
BY ExceptSeq

(* Moving the running context to another place changes nothing else.       *)
LEMMA SetTopFacts ==
  ASSUME contexts \in Seq(Context), Len(contexts) >= 1, NEW at \in Places
  PROVE  LET t == SetTop(at)
             n == Len(contexts)
         IN  /\ t \in Seq(Context)
             /\ Len(t) = n
             /\ \A i \in 1 .. n : i # n => t[i] = contexts[i]
             /\ t[n].at = at
             /\ t[n].id = Top.id /\ t[n].flags = Top.flags /\ t[n].error = Top.error
             /\ t[n].old = Top.old /\ t[n].words = Top.words
<1> DEFINE n == Len(contexts)
           c == [contexts[n] EXCEPT !.at = at]
<1>1. n \in 1 .. Len(contexts) /\ contexts[n] \in Context
  BY ElementOfSeq
<1>2. c \in Context
  BY <1>1 DEF Context
<1>3. SetTop(at) = [contexts EXCEPT ![n] = c]
  BY DEF SetTop
<1>4. /\ c.at = at /\ c.id = Top.id /\ c.flags = Top.flags /\ c.error = Top.error
      /\ c.old = Top.old /\ c.words = Top.words
  BY <1>1 DEF Top, Context
<1> HIDE DEF c
<1> QED
  BY <1>2, <1>3, <1>4, ReplaceTop

(* There is always a running context.                                      *)
LEMMA TopType ==
  ASSUME contexts \in Seq(Context), Len(contexts) >= 1
  PROVE  Top \in Context /\ Len(contexts) \in Nat
BY ElementOfSeq DEF Top

(* The values an activity computes, and the vector a stub loads, are values. *)
LEMMA OwnType == ASSUME NEW id \in Vectors \cup {KMAIN} PROVE Own(id) \in [Registers -> Values]
BY DEF Own, Values

(* A stub loads the vector into rdi.                                       *)
LEMMA LoadIdType ==
  ASSUME NEW f \in [Registers -> Values], NEW id \in Vectors \cup {KMAIN}
  PROVE  LoadId(f, id) \in [Registers -> Values]
BY DEF LoadId, Values

(* rdi is among the registers the stubs push.                              *)
LEMMA RdiIsRegister == "rdi" \in Registers
<1>1. PushOrder[6] = "rdi" /\ 6 \in 1 .. NB_REGISTERS_PUSHED_BEFORE_CALL
  BY DEF PushOrder, NB_REGISTERS_PUSHED_BEFORE_CALL
<1> QED BY <1>1 DEF Registers

(* The pushed words are values of registers.                               *)
LEMMA PushType ==
  ASSUME NEW f \in [Registers -> Values]
  PROVE  Push(f) \in Seq(Values)
<1>1. \A i \in 1 .. NB_REGISTERS_PUSHED_BEFORE_CALL : f[PushOrder[i]] \in Values
  BY DEF Registers
<1>2. NB_REGISTERS_PUSHED_BEFORE_CALL \in Nat
  BY DEF NB_REGISTERS_PUSHED_BEFORE_CALL
<1> QED
  BY <1>1, <1>2 DEF Push

(* What the pops of a stub put into the registers.                         *)
LEMMA PopAfterPush ==
  ASSUME NEW f
  PROVE  /\ DOMAIN Pop(Push(f)) = Registers
         /\ \A r \in Registers : Pop(Push(f))[r] = f[r]
         /\ Pop(Push(f)) = [r \in Registers |-> f[r]]
<1> DEFINE N == NB_REGISTERS_PUSHED_BEFORE_CALL
           at(r) == CHOOSE j \in 1 .. N : PopOrder[j] = r
<1>0. N = 15
  BY DEF NB_REGISTERS_PUSHED_BEFORE_CALL
<1>1. \A j \in 1 .. 15 : PushOrder[16 - j] = PopOrder[j]
  BY DEF PushOrder, PopOrder
<1>2. \A i \in 1 .. 15 : 16 - i \in 1 .. 15 /\ 16 - (16 - i) = i
  OBVIOUS
<1>3. ASSUME NEW r \in Registers
      PROVE  at(r) \in 1 .. 15 /\ PopOrder[at(r)] = r
  <2>1. PICK i \in 1 .. 15 : PushOrder[i] = r
    BY <1>0 DEF Registers
  <2>2. PopOrder[16 - i] = r
    BY <1>1, <1>2, <2>1
  <2> QED
    BY <1>0, <1>2, <2>2
<1>4. ASSUME NEW r \in Registers
      PROVE  Push(f)[16 - at(r)] = f[r]
  <2> HIDE DEF at
  <2>1. 16 - at(r) \in 1 .. 15 /\ PushOrder[16 - at(r)] = r
    BY <1>1, <1>2, <1>3
  <2> QED
    BY <1>0, <2>1 DEF Push
<1>5. Pop(Push(f)) = [r \in Registers |-> Push(f)[N + 1 - at(r)]]
  BY Zenon DEF Pop
<1>6. ASSUME NEW r \in Registers
      PROVE  Push(f)[N + 1 - at(r)] = f[r]
  <2> HIDE DEF at, N
  <2> QED BY <1>0, <1>3, <1>4
<1> HIDE DEF at, N
<1> QED
  BY <1>5, <1>6

(* Entering a vector pushes one context; the trap gate leaves iflag alone. *)
LEMMA EnterFacts ==
  ASSUME TypeOK, NEW id \in Vectors, Enter(id)
  PROVE  /\ contexts' \in Seq(Context)
         /\ Len(contexts') = Len(contexts) + 1
         /\ \A i \in 1 .. Len(contexts) : contexts'[i] = contexts[i]
         /\ LET c == contexts'[Len(contexts) + 1]
            IN  /\ c.id \in Vectors
                /\ IsIrq(c) => c.id = id
                /\ id < IRQ_BASE /\ id \in gates => c.id = id
                /\ ~ IsIrq(c) /\ id >= IRQ_BASE => Fatal(c)
                /\ c.at = "entry" /\ (c.flags <=> iflag) /\ c.old = regs
                /\ c.error <=> c.id \in PushesErrorCode
         /\ iflag' = iflag /\ regs' = regs
<1> DEFINE v == IF id \in gates THEN id ELSE EXCEPTION_GP
           c == [id |-> v, at |-> "entry", flags |-> iflag,
                 error |-> v \in PushesErrorCode, old |-> regs, words |-> << >>]
<1>1. contexts' = Append(contexts, c) /\ iflag' = FlagAfterGate /\ regs' = regs
  BY Zenon DEF Enter
<1>2. v \in Vectors /\ (v >= IRQ_BASE => v = id) /\ (id \in gates => v = id)
      /\ (v < IRQ_BASE /\ id >= IRQ_BASE => v = EXCEPTION_GP)
  BY DEF Vectors, EXCEPTION_GP, IRQ_BASE
<1>3. << >> \in Seq(Values) /\ (v \in PushesErrorCode) \in BOOLEAN
  OBVIOUS
<1> HIDE DEF v
<1>4. c \in Context
  BY <1>2, <1>3 DEF Context, Places, TypeOK
<1>5. /\ c.id = v /\ c.at = "entry" /\ (c.flags <=> iflag) /\ c.old = regs
      /\ c.error <=> c.id \in PushesErrorCode
  BY Zenon
<1>6. iflag' = iflag
  BY <1>1 DEF FlagAfterGate, GateType, gate_type, ONES
<1>7. v = EXCEPTION_GP => EXCEPTION_GP \in 0 .. 31 \ {EXCEPTION_BP}
  BY DEF EXCEPTION_GP, EXCEPTION_BP
<1> HIDE DEF c
<1>8. /\ contexts' \in Seq(Context)
      /\ Len(contexts') = Len(contexts) + 1
      /\ \A i \in 1 .. Len(contexts) : contexts'[i] = contexts[i]
      /\ contexts'[Len(contexts) + 1] = c
  BY <1>1, <1>4, AppendProperties DEF TypeOK
<1>9. v \in Int /\ IRQ_BASE \in Int
  BY <1>2 DEF Vectors, IRQ_BASE
<1>10. /\ c.id \in Vectors
       /\ IsIrq(c) => c.id = id
       /\ id < IRQ_BASE /\ id \in gates => c.id = id
       /\ ~ IsIrq(c) /\ id >= IRQ_BASE => Fatal(c)
  BY <1>2, <1>5, <1>7, <1>9 DEF IsIrq, Fatal
<1> QED
  BY <1>1, <1>5, <1>6, <1>8, <1>10

(* The stub's entry saves the registers in the running context.            *)
LEMMA SaveFacts ==
  ASSUME TypeOK, StubEntry
  PROVE  LET n == Len(contexts)
         IN  /\ contexts' \in Seq(Context)
             /\ Len(contexts') = n
             /\ \A i \in 1 .. n : i # n => contexts'[i] = contexts[i]
             /\ contexts'[n].at = "handler" /\ contexts'[n].id = Top.id
             /\ contexts'[n].flags = Top.flags /\ contexts'[n].old = Top.old
             /\ contexts'[n].error = Top.error
             /\ contexts'[n].words = Push(LoadId(regs, Top.id))
             /\ iflag' = FALSE
             /\ regs' \in [Registers -> Values]
<1> DEFINE n == Len(contexts)
           w == Push(LoadId(regs, Top.id))
           c == [contexts[n] EXCEPT !.at = "handler", !.words = w]
<1>1. n \in 1 .. Len(contexts) /\ contexts[n] \in Context /\ contexts[n] = Top
  BY ElementOfSeq DEF TypeOK, Top
<1>2. LoadId(regs, Top.id) \in [Registers -> Values]
  BY <1>1, LoadIdType DEF TypeOK, Context
<1>3. w \in Seq(Values)
  BY <1>2, PushType
<1>4. contexts' = [contexts EXCEPT ![n].at = "handler", ![n].words = w]
      /\ iflag' = FALSE /\ regs' = LoadId(regs, Top.id)
  BY DEF StubEntry, Save
<1> HIDE DEF w
<1>5. contexts' = [contexts EXCEPT ![n] = c]
  BY <1>1, <1>4 DEF TypeOK
<1>6. c \in Context
  BY <1>1, <1>3 DEF Context, Places
<1>7. /\ c.at = "handler" /\ c.id = Top.id /\ c.flags = Top.flags
      /\ c.old = Top.old /\ c.words = w /\ c.error = Top.error
  BY <1>1 DEF Context
<1> HIDE DEF c
<1>8. /\ contexts' \in Seq(Context) /\ Len(contexts') = n /\ contexts'[n] = c
      /\ \A i \in 1 .. n : i # n => contexts'[i] = contexts[i]
  BY <1>5, <1>6, ReplaceTop DEF TypeOK
<1> QED
  BY <1>2, <1>4, <1>7, <1>8 DEF w

(* The stub's return drops the running context.                            *)
LEMMA ResumeFacts ==
  ASSUME TypeOK, Shape, StubReturn
  PROVE  LET n == Len(contexts)
         IN  /\ n \in Nat /\ n > 1
             /\ contexts' \in Seq(Context)
             /\ Len(contexts') = n - 1
             /\ \A i \in 1 .. n - 1 : contexts'[i] = contexts[i]
             /\ iflag' = Top.flags
             /\ regs' = Pop(Top.words)
<1> DEFINE n == Len(contexts)
<1>1. n \in Nat /\ n >= 1 /\ contexts[n] = Top /\ \A i \in 1 .. n : contexts[i] \in Context
  BY ElementOfSeq DEF TypeOK, Top
<1>2. /\ Top.at = "restore" /\ contexts' = SubSeq(contexts, 1, n - 1)
      /\ iflag' = Top.flags /\ regs' = Pop(Top.words)
  BY DEF StubReturn, Resume, Running
<1>3. n # 1
  BY <1>1, <1>2 DEF Shape
<1>4. /\ SubSeq(contexts, 1, n - 1) \in Seq(Context)
      /\ Len(SubSeq(contexts, 1, n - 1)) = n - 1
      /\ \A i \in 1 .. n - 1 : SubSeq(contexts, 1, n - 1)[i] = contexts[i]
  <2>1. n - 1 \in Int /\ 1 \in Int /\ \A i \in 1 .. n - 1 : contexts[i] \in Context
    BY <1>1
  <2> HIDE DEF n
  <2>2. /\ SubSeq(contexts, 1, n - 1) \in Seq(Context)
        /\ Len(SubSeq(contexts, 1, n - 1)) = IF 1 <= n - 1 THEN (n - 1) - 1 + 1 ELSE 0
        /\ \A i \in 1 .. (n - 1) - 1 + 1 : SubSeq(contexts, 1, n - 1)[i] = contexts[1 + i - 1]
    BY <2>1, SubSeqProperties
  <2>3. 1 <= n - 1 /\ (n - 1) - 1 + 1 = n - 1 /\ \A i \in 1 .. n - 1 : 1 + i - 1 = i
    BY <1>1, <1>3
  <2> QED
    BY <2>2, <2>3
<1> QED
  BY <1>1, <1>2, <1>3, <1>4

-----------------------------------------------------------------------------
(* Only kmain is on the CPU when kmain takes a step.                       *)
LEMMA KmainAlone ==
  ASSUME TypeOK, Shape, Running("kmain")
  PROVE  Len(contexts) = 1 /\ Top = contexts[1]
<1>1. Len(contexts) \in Nat /\ Len(contexts) >= 1
  BY TopType DEF TypeOK
<1>2. ~ (Len(contexts) > 1)
  BY <1>1 DEF Shape, Running, Top
<1>3. Len(contexts) = 1
  BY <1>1, <1>2
<1> QED
  BY <1>3, Zenon DEF Top

(* Steps of kmain other than a PANIC change no context.                    *)
QuietKmain ==
  \/ MultibootValid \/ TimerRegister \/ TimerMode \/ TimerDivisor
  \/ CheckStart \/ CheckDone \/ keyboard_init

DeviceStep == PitFires \/ KeyPressed \/ \E line \in Lines : OtherDevice(line)

(* Steps of a handler that end in the stub's restore part.                 *)
Callback == timer_callback \/ keyboard_callback \/ NoCallback \/ IsrHandled

(* The kinds of step the proof distinguishes.                              *)
LEMMA NextCases ==
  ASSUME [Next]_vars
  PROVE  \/ QuietKmain \/ MultibootInvalid \/ isr_init \/ irq_init
         \/ DeviceStep
         \/ \E line \in Lines : Deliver(line)
         \/ \E id \in Exceptions : Exception(id)
         \/ StubEntry \/ irq_handler \/ Callback \/ kernel_panic \/ StubReturn
         \/ UNCHANGED vars
BY DEF Next, KmainStep, Serve, Spin, QuietKmain, DeviceStep, Callback

(* kmain loads rdi for its next call.                                      *)
LEMMA KmainRegs ==
  ASSUME TypeOK
  PROVE  [regs EXCEPT !["rdi"] = <<KMAIN, "rdi">>] \in [Registers -> Values]
BY RdiIsRegister DEF TypeOK, Values

(* Every step keeps the types.                                             *)
LEMMA NextTyped == TypeOK /\ Shape /\ Saved /\ [Next]_vars => TypeOK'
<1> SUFFICES ASSUME TypeOK, Shape, Saved, [Next]_vars PROVE TypeOK'
  OBVIOUS
<1>1. Top \in Context /\ Len(contexts) \in Nat
  BY TopType DEF TypeOK
<1>2. CASE QuietKmain
  <2>1. main' \in Phases /\ regs' \in [Registers -> Values]
    BY <1>2, KmainRegs
    DEF QuietKmain, MultibootValid, TimerRegister, TimerMode, TimerDivisor, CheckStart,
        CheckDone, keyboard_init, Kmain, Phases
  <2>2. gates' \subseteq Vectors /\ interrupt_handlers' \subseteq Vectors
    <3>1. IRQ0 = IRQ_BASE + 0 /\ IRQ1 = IRQ_BASE + 1 /\ 0 \in 0 .. 7 /\ 1 \in 0 .. 7
      BY DEF IRQ0, IRQ1, IRQ_BASE
    <3>2. IRQ0 \in Vectors /\ IRQ1 \in Vectors
      BY <3>1, Zenon DEF Vectors
    <3> QED
      BY <1>2, <3>2
      DEF QuietKmain, MultibootValid, TimerRegister, TimerMode, TimerDivisor, CheckStart,
          CheckDone, keyboard_init, TypeOK, tables
  <2>3. /\ UNCHANGED << contexts, iflag, irr, imr, inservice, obf, tick, faults >>
        /\ pit' \in BOOLEAN /\ snapshot' \in 0 .. (TickMod - 1)
    BY <1>2
    DEF QuietKmain, MultibootValid, TimerRegister, TimerMode, TimerDivisor, CheckStart,
        CheckDone, keyboard_init, Kmain, TypeOK, pic, devices, ticks
  <2> QED
    BY <2>1, <2>2, <2>3 DEF TypeOK
<1>3. CASE MultibootInvalid
  <2>1. SetTop("halted") \in Seq(Context) /\ Len(SetTop("halted")) = Len(contexts)
    BY SetTopFacts DEF TypeOK, Places
  <2> QED
    BY <1>3, <2>1, KmainRegs
    DEF MultibootInvalid, Kmain, TypeOK, Phases, tables, pic, devices, ticks
<1>4. CASE isr_init
  <2>1. gates' \subseteq Vectors /\ interrupt_handlers' \subseteq Vectors
    BY <1>4 DEF isr_init, IsrInit, TypeOK, Vectors, IRQ_BASE, EXCEPTION_BP
  <2> QED
    BY <1>4, <2>1, KmainRegs DEF isr_init, IsrInit, Kmain, TypeOK, Phases, devices, ticks
<1>5. CASE irq_init
  BY <1>5, KmainRegs DEF irq_init, Kmain, TypeOK, Phases, tables, pic, devices, ticks
<1>6. CASE DeviceStep
  BY <1>6 DEF DeviceStep, PitFires, KeyPressed, OtherDevice, TypeOK, cpu, tables, devices, ticks
<1>7. ASSUME NEW line \in Lines, Deliver(line) PROVE TypeOK'
  <2>1. IRQ_BASE + line \in Vectors
    BY LinesAssumption DEF Vectors
  <2>2. /\ contexts' \in Seq(Context) /\ Len(contexts') = Len(contexts) + 1
        /\ iflag' = iflag /\ regs' = regs
    BY <1>7, <2>1, EnterFacts DEF Deliver
  <2> QED
    BY <1>1, <1>7, <2>2 DEF Deliver, TypeOK, tables, devices, ticks
<1>8. ASSUME NEW id \in Exceptions, Exception(id) PROVE TypeOK'
  <2>1. id \in Vectors
    BY ExceptionsAssumption DEF Vectors
  <2>2. /\ contexts' \in Seq(Context) /\ Len(contexts') = Len(contexts) + 1
        /\ iflag' = iflag /\ regs' = regs
    BY <1>8, <2>1, EnterFacts DEF Exception
  <2> QED
    BY <1>1, <1>8, <2>2, FaultsAssumption DEF Exception, TypeOK, tables, pic, devices, ticks
<1>9. CASE StubEntry
  BY <1>1, <1>9, SaveFacts DEF StubEntry, Save, TypeOK, tables, pic, devices, ticks
<1>10. CASE irq_handler
  <2>1. SetTop("callback") \in Seq(Context) /\ Len(SetTop("callback")) = Len(contexts)
    BY SetTopFacts DEF TypeOK, Places
  <2> QED
    BY <1>10, <2>1 DEF irq_handler, PIC_EOI, TypeOK, tables, devices, ticks
<1>11. CASE Callback
  <2>1. SetTop("restore") \in Seq(Context) /\ Len(SetTop("restore")) = Len(contexts)
    BY SetTopFacts DEF TypeOK, Places
  <2>2. Own(Top.id) \in [Registers -> Values]
    BY <1>1, OwnType DEF Context
  <2>3. (tick + 1) % TickMod \in 0 .. (TickMod - 1)
    BY TickAssumption DEF TypeOK
  <2> QED
    BY <1>11, <2>1, <2>2, <2>3
    DEF Callback, timer_callback, CountTick, keyboard_callback, NoCallback, IsrHandled, TypeOK,
        tables, pic, devices, ticks
<1>12. CASE kernel_panic
  <2>1. SetTop("halted") \in Seq(Context) /\ Len(SetTop("halted")) = Len(contexts)
    BY SetTopFacts DEF TypeOK, Places
  <2> QED
    BY <1>12, <2>1 DEF kernel_panic, TypeOK, tables, pic, devices, ticks
<1>13. CASE UNCHANGED vars
  BY <1>13 DEF vars, cpu, tables, pic, devices, ticks, TypeOK
<1>14. CASE StubReturn
  <2>1. /\ contexts' \in Seq(Context) /\ Len(contexts') >= 1
        /\ iflag' = Top.flags /\ regs' = Pop(Top.words)
    BY <1>14, ResumeFacts
  <2>2. Top.words = Push(LoadId(Top.old, Top.id))
    BY <1>1, <1>14 DEF Saved, StubReturn, Resume, Running, Top, TypeOK
  <2>3. LoadId(Top.old, Top.id) \in [Registers -> Values]
    BY <1>1, LoadIdType DEF Context
  <2>4. Pop(Top.words) \in [Registers -> Values]
    BY <2>2, <2>3, PopAfterPush
  <2>5. Top.flags \in BOOLEAN
    BY <1>1 DEF Context
  <2> QED
    BY <1>14, <2>1, <2>4, <2>5 DEF StubReturn, Resume, TypeOK, tables, pic, devices, ticks
<1> QED
  BY <1>2, <1>3, <1>4, <1>5, <1>6, <1>7, <1>8, <1>9, <1>10, <1>11, <1>12, <1>13, <1>14, NextCases

-----------------------------------------------------------------------------
Rest == Shape /\ Masked /\ InService /\ NothingElse /\ IrqNesting /\ KmainFlag /\ Saved /\ Handled

(* Steps that leave the stack, the flag and the PIC's in-service lines.    *)
LEMMA SameStack ==
  ASSUME Shape, Masked, InService, NothingElse, IrqNesting,
         contexts' = contexts, iflag' = iflag, inservice' = inservice
  PROVE  Shape' /\ Masked' /\ InService' /\ NothingElse' /\ IrqNesting'
<1>1. Shape' /\ InService' /\ IrqNesting'
  BY DEF Shape, InService, IrqNesting
<1>2. Masked'
  BY Zenon DEF Masked
<1>3. NothingElse'
  BY DEF NothingElse
<1> QED BY <1>1, <1>2, <1>3

(* Steps of kmain that change neither the stack nor the flag.              *)
LEMMA QuietKmainKeeps == ASSUME IInv, QuietKmain PROVE Rest'
<1>1. /\ contexts' = contexts /\ iflag' = iflag /\ inservice' = inservice
      /\ Running("kmain")
  BY DEF QuietKmain, MultibootValid, TimerRegister, TimerMode, TimerDivisor, CheckStart,
         CheckDone, keyboard_init, Kmain, pic
<1>2. Shape' /\ Masked' /\ InService' /\ NothingElse' /\ IrqNesting'
  BY <1>1, SameStack DEF IInv
<1>3. (Booted' => Booted) /\ main' # "halted"
  BY DEF QuietKmain, MultibootValid, TimerRegister, TimerMode, TimerDivisor, CheckStart,
         CheckDone, keyboard_init, Kmain, Booted
<1>4. KmainFlag'
  BY <1>1, <1>3 DEF IInv, KmainFlag
<1>5. Saved'
  BY <1>1 DEF IInv, Saved, Running, Top
<1>6. Handled'
  BY <1>1
  DEF IInv, Handled, QuietKmain, MultibootValid, TimerRegister, TimerMode, TimerDivisor, CheckStart,
      CheckDone, keyboard_init, tables
<1> QED BY <1>2, <1>4, <1>5, <1>6 DEF Rest

(* Steps of the devices only raise lines.                                  *)
LEMMA DeviceKeeps == ASSUME IInv, DeviceStep \/ UNCHANGED vars PROVE Rest'
<1>1. UNCHANGED << main, contexts, iflag, regs, inservice, interrupt_handlers >>
  BY DEF DeviceStep, PitFires, KeyPressed, OtherDevice, cpu, vars, pic, tables
<1>2. Shape' /\ Masked' /\ InService' /\ NothingElse' /\ IrqNesting'
  BY <1>1, SameStack DEF IInv
<1>3. KmainFlag' /\ Handled'
  BY <1>1 DEF IInv, KmainFlag, Booted, Handled
<1>4. Saved'
  BY <1>1 DEF IInv, Saved, Running, Top
<1> QED BY <1>2, <1>3, <1>4 DEF Rest

(* The steps of kmain that touch the flag or the PIC: kmain is alone.      *)
LEMMA KmainKeeps == ASSUME IInv, isr_init \/ irq_init \/ MultibootInvalid PROVE Rest'
<1>1. Len(contexts) = 1 /\ Top = contexts[1] /\ Running("kmain")
  BY KmainAlone DEF IInv, isr_init, IsrInit, irq_init, MultibootInvalid, Kmain
<1>2. contexts[1].id = KMAIN
  BY <1>1 DEF IInv, Shape
<1>3. /\ Len(contexts') = 1 /\ contexts'[1].id = KMAIN
      /\ \/ contexts'[1].at = "kmain" /\ main' \in {"irq_init", "timer_init"}
         \/ contexts'[1].at = "halted" /\ ~ iflag' /\ main' = "halted"
  <2>1. CASE isr_init \/ irq_init
    BY <1>1, <1>2, <2>1 DEF isr_init, IsrInit, irq_init, Kmain, Running
  <2>2. CASE MultibootInvalid
    BY <1>1, <1>2, <2>2, SetTopFacts DEF MultibootInvalid, Kmain, IInv, TypeOK, Places
  <2> QED BY <2>1, <2>2
<1>4. inservice = {}
  <2>1. KMAIN \notin 0 .. 31 /\ ~ (KMAIN >= IRQ_BASE)
    BY DEF KMAIN, IRQ_BASE
  <2> QED
    BY <1>1, <1>2, <2>1 DEF IInv, NothingElse, Fatal, IsIrq
<1>5. inservice' = {}
  BY <1>4 DEF isr_init, IsrInit, irq_init, MultibootInvalid, pic
<1>6. ~ IsIrq(contexts'[1])
  BY <1>3 DEF IsIrq, KMAIN, IRQ_BASE
<1>7. Shape' /\ Masked'
  BY <1>3 DEF Shape, Masked, Interruptible
<1>8. InService' /\ NothingElse' /\ IrqNesting'
  BY <1>3, <1>5, <1>6 DEF InService, NothingElse, IrqNesting
<1>9. KmainFlag'
  <2>1. main' = "timer_init" => iflag'
    BY DEF isr_init, IsrInit, irq_init, MultibootInvalid, Kmain
  <2> QED
    BY <1>3, <2>1 DEF KmainFlag, Booted
<1>10. Saved'
  BY <1>3 DEF Saved, Running, Top
<1>11. Handled'
  <2>1. interrupt_handlers' \subseteq {EXCEPTION_BP, IRQ0, IRQ1}
    BY DEF IInv, Handled, isr_init, IsrInit, irq_init, MultibootInvalid, tables
  <2> QED
    BY <1>3, <2>1 DEF Handled
<1> QED BY <1>7, <1>8, <1>9, <1>10, <1>11 DEF Rest

(* What both ways of entering a vector keep.                               *)
LEMMA EnterKeeps ==
  ASSUME IInv, NEW id \in Vectors, Enter(id), main' = main,
         interrupt_handlers' = interrupt_handlers
  PROVE  Shape' /\ Masked' /\ KmainFlag' /\ Saved' /\ Handled'
<1> DEFINE n == Len(contexts)
           c == contexts'[n + 1]
<1>1. n \in Nat /\ n >= 1
  BY TopType DEF IInv, TypeOK
<1>2. /\ Len(contexts') = n + 1
      /\ \A i \in 1 .. n : contexts'[i] = contexts[i]
      /\ c.id \in Vectors /\ c.at = "entry" /\ (c.flags <=> iflag) /\ c.old = regs
      /\ iflag' = iflag /\ regs' = regs
  BY EnterFacts DEF IInv
<1>3. \A i \in 1 .. n + 1 : i \in 1 .. n \/ i = n + 1
  BY <1>1
<1>4. KMAIN \notin Vectors
  BY DEF KMAIN, Vectors, IRQ_BASE
<1> HIDE DEF c
<1>5. Shape'
  BY <1>1, <1>2, <1>3, <1>4 DEF Shape, IInv, c
<1>6. Masked'
  <2>1. iflag' => \A i \in 1 .. n + 1 : Interruptible(contexts'[i])
    BY <1>2, <1>3 DEF IInv, Masked, Interruptible, c
  <2>2. ASSUME NEW k \in 2 .. n + 1, contexts'[k].flags, NEW i \in 1 .. k - 1
        PROVE  Interruptible(contexts'[i])
    <3>1. CASE k = n + 1
      BY <1>1, <1>2, <2>2, <3>1 DEF IInv, Masked, c
    <3>2. CASE k \in 2 .. n
      BY <1>1, <1>2, <2>2, <3>2 DEF IInv, Masked
    <3> QED BY <1>1, <3>1, <3>2
  <2> QED
    BY <1>2, <2>1, <2>2 DEF Masked
<1>7. KmainFlag'
  <2>1. CASE n = 1
    BY <1>2, <2>1 DEF IInv, KmainFlag, Booted, c
  <2>2. CASE n > 1
    BY <1>1, <1>2, <2>2 DEF IInv, KmainFlag, Booted
  <2> HIDE DEF n
  <2>3. n = 1 \/ n > 1
    BY <1>1
  <2> QED BY <2>1, <2>2, <2>3, Zenon
<1>8. Saved'
  <2>1. ASSUME NEW i \in 1 .. n + 1,
               contexts'[i].at \in {"handler", "callback", "restore"}
        PROVE  contexts'[i].words = Push(LoadId(contexts'[i].old, contexts'[i].id))
    BY <1>2, <1>3, <2>1 DEF IInv, Saved, c
  <2>2. ASSUME NEW i \in 1 .. n, contexts'[i].at = "entry"
        PROVE  Agree(contexts'[i + 1].old, contexts'[i].old)
    <3>1. CASE i = n
      BY <1>1, <1>2, <2>2, <3>1 DEF IInv, Saved, Running, Top, c
    <3>2. CASE i \in 1 .. n - 1
      BY <1>1, <1>2, <2>2, <3>2 DEF IInv, Saved
    <3> QED BY <1>1, <3>1, <3>2
  <2>3. Agree(regs', contexts'[n + 1].old)
    BY <1>2 DEF Agree, c
  <2>4. n + 1 - 1 = n
    BY <1>1
  <2> QED
    BY <1>2, <2>1, <2>2, <2>3, <2>4 DEF Saved, Running, Top
<1>9. Handled'
  BY <1>2, <1>3 DEF IInv, Handled, c
<1> QED BY <1>5, <1>6, <1>7, <1>8, <1>9

(* Vectors can be compared.                                                *)
LEMMA VectorsAreInts == Vectors \subseteq Int /\ KMAIN \in Int
BY DEF Vectors, KMAIN, IRQ_BASE

(* An interrupt: its line is below every line in service.                  *)
LEMMA DeliverKeeps == ASSUME IInv, NEW line \in Lines, Deliver(line) PROVE Rest'
<1> DEFINE n == Len(contexts)
           c == contexts'[n + 1]
<1>1. n \in Nat /\ n >= 1 /\ line \in 0 .. 7 /\ IRQ_BASE + line \in Vectors /\ IRQ_BASE = 32
  BY TopType, LinesAssumption DEF IInv, TypeOK, Vectors, IRQ_BASE
<1>2. /\ Enter(IRQ_BASE + line) /\ main' = main /\ interrupt_handlers' = interrupt_handlers
      /\ inservice' = inservice \cup {line} /\ iflag
      /\ \A other \in inservice : line < other
  BY DEF Deliver, tables
<1>3. Shape' /\ Masked' /\ KmainFlag' /\ Saved' /\ Handled'
  BY <1>1, <1>2, EnterKeeps
<1>4. /\ Len(contexts') = n + 1
      /\ \A i \in 1 .. n : contexts'[i] = contexts[i]
      /\ c.id \in Vectors /\ c.at = "entry"
      /\ IsIrq(c) => c.id = IRQ_BASE + line
      /\ ~ IsIrq(c) => Fatal(c)
  <2>1. IRQ_BASE + line >= IRQ_BASE
    BY <1>1
  <2>2. TypeOK
    BY DEF IInv
  <2> QED
    BY <1>1, <1>2, <2>1, <2>2, EnterFacts, Zenon
<1>5. \A i \in 1 .. n + 1 : i \in 1 .. n \/ i = n + 1
  BY <1>1
<1>6. \A i \in 1 .. n : contexts[i] \in Context
  BY ElementOfSeq DEF IInv, TypeOK
<1>7. \A i \in 1 .. n : IsIrq(contexts[i]) =>
        /\ contexts[i].at = "entry" /\ contexts[i].id \in Int
        /\ contexts[i].id - IRQ_BASE \in inservice
  <2> SUFFICES ASSUME NEW i \in 1 .. n, IsIrq(contexts[i])
               PROVE  /\ contexts[i].at = "entry" /\ contexts[i].id \in Int
                      /\ contexts[i].id - IRQ_BASE \in inservice
    OBVIOUS
  <2>1. contexts[i].id # KMAIN
    BY DEF IsIrq, KMAIN, IRQ_BASE
  <2>2. i # 1
    BY <1>1, <2>1 DEF IInv, Shape
  <2>3. contexts[i].at = "entry"
    BY <1>1, <1>2, <2>2 DEF IInv, Shape, Masked, Interruptible
  <2>4. contexts[i].id \in Int
    BY <1>6, VectorsAreInts DEF Context
  <2> QED
    BY <2>3, <2>4 DEF IInv, InService, Acknowledged
<1> HIDE DEF c
<1>8. InService'
  BY <1>1, <1>2, <1>4, <1>5 DEF IInv, InService, c
<1>9. NothingElse'
  <2> SUFFICES ASSUME \A i \in 1 .. n + 1 : ~ Fatal(contexts'[i]), NEW l \in inservice'
               PROVE  \E i \in 1 .. n + 1 :
                        /\ IsIrq(contexts'[i]) /\ ~ Acknowledged(contexts'[i])
                        /\ l = contexts'[i].id - IRQ_BASE
    BY <1>4 DEF NothingElse
  <2>1. CASE l = line
    <3>1. n + 1 \in 1 .. n + 1 /\ contexts'[n + 1] = c
      BY <1>1 DEF c
    <3>2. IsIrq(c) /\ ~ Acknowledged(c) /\ l = c.id - IRQ_BASE
      BY <1>1, <1>4, <2>1, <3>1 DEF Acknowledged
    <3> QED BY <3>1, <3>2
  <2>2. CASE l \in inservice
    <3>1. \A i \in 1 .. n : i \in 1 .. n + 1
      BY <1>1
    <3>2. \A i \in 1 .. n : ~ Fatal(contexts[i])
      BY <1>4, <3>1
    <3> QED
      BY <1>4, <2>2, <3>1, <3>2 DEF IInv, NothingElse
  <2> QED BY <1>2, <2>1, <2>2
<1>10. IrqNesting'
  <2> SUFFICES ASSUME NEW i \in 1 .. n + 1, NEW j \in 1 .. n + 1, i < j,
                      IsIrq(contexts'[i]), IsIrq(contexts'[j])
               PROVE  contexts'[i].at = "entry" /\ contexts'[j].id < contexts'[i].id
    BY <1>4 DEF IrqNesting
  <2>1. CASE j = n + 1
    <3>1. i \in 1 .. n /\ contexts'[i] = contexts[i]
      BY <1>1, <1>4, <2>1
    <3>2. contexts'[j].id = IRQ_BASE + line
      BY <1>4, <2>1 DEF c
    <3>3. line < contexts[i].id - IRQ_BASE /\ contexts[i].id \in Int /\ contexts[i].at = "entry"
      BY <1>2, <1>7, <3>1
    <3> QED BY <1>1, <3>1, <3>2, <3>3
  <2>2. CASE j \in 1 .. n
    BY <1>1, <1>4, <2>2 DEF IInv, IrqNesting
  <2> QED BY <1>1, <2>1, <2>2
<1> QED BY <1>3, <1>8, <1>9, <1>10 DEF Rest

(* An exception, which the PIC does not know of.                           *)
LEMMA ExceptionKeeps == ASSUME IInv, NEW id \in Exceptions, Exception(id) PROVE Rest'
<1> DEFINE n == Len(contexts)
           c == contexts'[n + 1]
<1>1. n \in Nat /\ n >= 1 /\ id \in 0 .. 31 /\ id \in Vectors /\ IRQ_BASE = 32
  BY TopType, ExceptionsAssumption DEF IInv, TypeOK, Vectors, IRQ_BASE
<1>2. /\ Enter(id) /\ main' = main /\ interrupt_handlers' = interrupt_handlers
      /\ inservice' = inservice /\ id \in gates
  BY DEF Exception, tables, pic
<1>3. Shape' /\ Masked' /\ KmainFlag' /\ Saved' /\ Handled'
  BY <1>1, <1>2, EnterKeeps
<1>4. /\ Len(contexts') = n + 1
      /\ \A i \in 1 .. n : contexts'[i] = contexts[i]
      /\ c.id = id
  <2>1. id < IRQ_BASE
    BY <1>1
  <2>2. TypeOK
    BY DEF IInv
  <2> QED
    BY <1>1, <1>2, <2>1, <2>2, EnterFacts, Zenon
<1>5. \A i \in 1 .. n + 1 : i \in 1 .. n \/ i = n + 1
  BY <1>1
<1>6. ~ IsIrq(c)
  BY <1>1, <1>4 DEF IsIrq
<1> HIDE DEF c
<1>7. InService'
  BY <1>2, <1>4, <1>5, <1>6 DEF IInv, InService, c
<1>8. NothingElse'
  <2>1. \A i \in 1 .. n : i \in 1 .. n + 1
    BY <1>1
  <2> QED
    BY <1>2, <1>4, <2>1 DEF IInv, NothingElse
<1>9. IrqNesting'
  BY <1>1, <1>4, <1>5, <1>6 DEF IInv, IrqNesting, c
<1> QED BY <1>3, <1>7, <1>8, <1>9 DEF Rest

(* Steps that only move the running context to another place.  What they   *)
(* keep depends on where it comes from and goes to.                        *)
LEMMA MoveKeeps ==
  ASSUME IInv, NEW n, n = Len(contexts),
         Len(contexts') = n,
         \A i \in 1 .. n : i # n => contexts'[i] = contexts[i],
         contexts'[n].id = Top.id, contexts'[n].flags = Top.flags, contexts'[n].old = Top.old,
         ~ iflag', main' = main, interrupt_handlers' = interrupt_handlers,
         Top.at \notin {"kmain", "halted"},
         contexts'[n].at \notin {"kmain", "entry"},
         contexts'[n].at = "restore" => ~ Fatal(Top),
         contexts'[n].at \in {"handler", "callback", "restore"} =>
           contexts'[n].words = Push(LoadId(Top.old, Top.id))
  PROVE  /\ n \in Nat /\ n > 1
         /\ Shape' /\ Masked' /\ IrqNesting' /\ KmainFlag' /\ Saved' /\ Handled'
<1>1. n \in Nat /\ n >= 1 /\ Top = contexts[n]
  BY TopType DEF IInv, TypeOK, Top
<1>2. n # 1
  BY <1>1 DEF IInv, Shape
<1>3. n > 1
  BY <1>1, <1>2
<1>4. \A i \in 1 .. n : contexts'[i].id = contexts[i].id /\ contexts'[i].flags = contexts[i].flags
                       /\ contexts'[i].old = contexts[i].old
  BY <1>1
<1>5. \A i \in 1 .. n - 1 : contexts'[i] = contexts[i]
  BY <1>1
<1>6. Shape'
  BY <1>1, <1>3, <1>4 DEF IInv, Shape
<1>7. Masked'
  <2> SUFFICES ASSUME NEW k \in 2 .. n, contexts'[k].flags, NEW i \in 1 .. k - 1
               PROVE  Interruptible(contexts'[i])
    BY DEF Masked
  <2>1. i \in 1 .. n - 1 /\ k \in 1 .. n
    BY <1>1
  <2> QED
    BY <1>4, <1>5, <2>1 DEF IInv, Masked
<1>8. IrqNesting'
  <2> SUFFICES ASSUME NEW i \in 1 .. n, NEW j \in 1 .. n, i < j,
                      IsIrq(contexts'[i]), IsIrq(contexts'[j])
               PROVE  contexts'[i].at = "entry" /\ contexts'[j].id < contexts'[i].id
    BY DEF IrqNesting
  <2>1. i \in 1 .. n - 1
    BY <1>1
  <2>2. IsIrq(contexts[i]) /\ IsIrq(contexts[j])
    BY <1>4 DEF IsIrq
  <2> QED
    BY <1>4, <1>5, <2>1, <2>2 DEF IInv, IrqNesting
<1>9. KmainFlag'
  <2>1. 2 \in 1 .. n /\ 1 \in 1 .. n - 1 /\ n # 1
    BY <1>1, <1>3
  <2> QED
    BY <1>3, <1>4, <1>5, <2>1 DEF IInv, KmainFlag, Booted
<1>10. Saved'
  <2>1. ASSUME NEW i \in 1 .. n, contexts'[i].at \in {"handler", "callback", "restore"}
        PROVE  contexts'[i].words = Push(LoadId(contexts'[i].old, contexts'[i].id))
    <3>1. CASE i = n
      BY <2>1, <3>1
    <3>2. CASE i # n
      BY <2>1, <3>2 DEF IInv, Saved
    <3> QED BY <3>1, <3>2
  <2>2. ASSUME NEW i \in 1 .. n - 1, contexts'[i].at = "entry"
        PROVE  Agree(contexts'[i + 1].old, contexts'[i].old)
    <3>1. i + 1 \in 1 .. n /\ i \in 1 .. n
      BY <1>1
    <3> QED
      BY <1>4, <1>5, <2>2, <3>1 DEF IInv, Saved
  <2> QED
    BY <2>1, <2>2 DEF Saved, Running, Top
<1>11. Handled'
  <2>1. ASSUME NEW i \in 1 .. n, contexts'[i].at = "restore" PROVE ~ Fatal(contexts'[i])
    <3>1. CASE i = n
      BY <2>1, <3>1 DEF Fatal
    <3>2. CASE i # n
      BY <2>1, <3>2 DEF IInv, Handled
    <3> QED BY <3>1, <3>2
  <2> QED
    BY <2>1 DEF Handled, IInv
<1> QED BY <1>1, <1>3, <1>6, <1>7, <1>8, <1>9, <1>10, <1>11

(* The lines in service are kept as well when the running context does not *)
(* change between acknowledged and not acknowledged.                       *)
LEMMA MoveKeepsLines ==
  ASSUME IInv, NEW n, n = Len(contexts),
         Len(contexts') = n,
         \A i \in 1 .. n : i # n => contexts'[i] = contexts[i],
         contexts'[n].id = Top.id, inservice' = inservice,
         IsIrq(Top) => (Acknowledged(contexts'[n]) <=> Acknowledged(Top))
  PROVE  InService' /\ NothingElse'
<1>1. Top = contexts[n]
  BY DEF Top
<1>2. \A i \in 1 .. n :
        /\ contexts'[i].id = contexts[i].id
        /\ IsIrq(contexts'[i]) <=> IsIrq(contexts[i])
        /\ Fatal(contexts'[i]) <=> Fatal(contexts[i])
        /\ IsIrq(contexts[i]) =>
             (Acknowledged(contexts'[i]) <=> Acknowledged(contexts[i]))
  BY <1>1 DEF IsIrq, Fatal
<1>3. InService'
  <2> SUFFICES ASSUME NEW i \in 1 .. n, IsIrq(contexts'[i]), ~ Acknowledged(contexts'[i])
               PROVE  contexts'[i].id - IRQ_BASE \in inservice
    BY DEF InService
  <2>1. IsIrq(contexts[i]) /\ ~ Acknowledged(contexts[i])
    BY <1>2 DEF IsIrq, Acknowledged
  <2> QED
    BY <1>2, <2>1 DEF IInv, InService, IsIrq, Acknowledged
<1>4. NothingElse'
  <2> SUFFICES ASSUME \A i \in 1 .. n : ~ Fatal(contexts'[i]), NEW l \in inservice
               PROVE  \E i \in 1 .. n :
                        /\ IsIrq(contexts'[i]) /\ ~ Acknowledged(contexts'[i])
                        /\ l = contexts'[i].id - IRQ_BASE
    BY DEF NothingElse
  <2>1. \A i \in 1 .. n : ~ Fatal(contexts[i])
    BY <1>2 DEF Fatal
  <2>2. PICK i \in 1 .. n : /\ IsIrq(contexts[i]) /\ ~ Acknowledged(contexts[i])
                            /\ l = contexts[i].id - IRQ_BASE
    BY <2>1 DEF IInv, NothingElse
  <2>3. IsIrq(contexts'[i]) /\ ~ Acknowledged(contexts'[i]) /\ l = contexts'[i].id - IRQ_BASE
    BY <1>2, <2>2 DEF IsIrq, Acknowledged
  <2> QED BY <2>3
<1> QED BY <1>3, <1>4

(* The stub's entry.                                                       *)
LEMMA StubEntryKeeps == ASSUME IInv, StubEntry PROVE Rest'
<1> DEFINE n == Len(contexts)
<1>1. /\ Len(contexts') = n
      /\ \A i \in 1 .. n : i # n => contexts'[i] = contexts[i]
      /\ contexts'[n].at = "handler" /\ contexts'[n].id = Top.id
      /\ contexts'[n].flags = Top.flags /\ contexts'[n].old = Top.old
      /\ contexts'[n].words = Push(LoadId(regs, Top.id))
      /\ ~ iflag'
  BY SaveFacts DEF IInv
<1>2. /\ Top.at = "entry" /\ main' = main /\ interrupt_handlers' = interrupt_handlers
      /\ inservice' = inservice
  BY DEF StubEntry, Save, Running, tables, pic
<1>3. LoadId(regs, Top.id) = LoadId(Top.old, Top.id)
  <2>1. Agree(regs, Top.old)
    BY <1>2 DEF IInv, Saved, Running
  <2>2. regs \in [Registers -> Values] /\ Top.old \in [Registers -> Values]
    BY TopType DEF IInv, TypeOK, Context
  <2> QED
    BY <2>1, <2>2 DEF Agree, LoadId
<1>4. Shape' /\ Masked' /\ IrqNesting' /\ KmainFlag' /\ Saved' /\ Handled'
  <2> HIDE DEF n
  <2>1. n = Len(contexts)
    BY DEF n
  <2> QED
    BY <1>1, <1>2, <1>3, <2>1, MoveKeeps
<1>5. InService' /\ NothingElse'
  <2>1. Acknowledged(contexts'[n]) <=> Acknowledged(Top)
    BY <1>1, <1>2 DEF Acknowledged
  <2> QED
    BY <1>1, <1>2, <2>1, MoveKeepsLines
<1> QED BY <1>4, <1>5 DEF Rest

(* The calls of the handlers, and PANIC.                                   *)
LEMMA HandlerKeeps == ASSUME IInv, Callback \/ kernel_panic PROVE Rest'
<1> DEFINE n == Len(contexts)
<1>1. PICK at \in {"restore", "halted"} :
        /\ contexts' = SetTop(at)
        /\ at = "restore" => Top.id \in interrupt_handlers \/ IsIrq(Top)
        /\ Top.at \in {"handler", "callback"}
        /\ Top.at = "handler" => Top.id < IRQ_BASE
        /\ main' = main /\ interrupt_handlers' = interrupt_handlers /\ inservice' = inservice
        /\ iflag' => iflag
  <2>1. CASE Callback
    BY <2>1 DEF Callback, timer_callback, CountTick, keyboard_callback, NoCallback, IsrHandled,
                Running, IsIrq, tables, pic
  <2>2. CASE kernel_panic
    BY <2>2 DEF kernel_panic, Running, tables, pic
  <2> QED BY <2>1, <2>2
<1>2. contexts \in Seq(Context) /\ n >= 1 /\ n \in Nat /\ Top \in Context /\ Top = contexts[n]
  BY TopType DEF IInv, TypeOK, Top
<1>3. /\ Len(contexts') = n
      /\ \A i \in 1 .. n : i # n => contexts'[i] = contexts[i]
      /\ contexts'[n].at = at /\ contexts'[n].id = Top.id
      /\ contexts'[n].flags = Top.flags /\ contexts'[n].old = Top.old
      /\ contexts'[n].words = Top.words
  BY <1>1, <1>2, SetTopFacts DEF Places
<1>4. n \in 1 .. n
  BY <1>2
<1>5. ~ iflag'
  <2>1. ~ Interruptible(contexts[n])
    BY <1>1, <1>2 DEF Interruptible
  <2> QED BY <1>1, <1>4, <2>1 DEF IInv, Masked
<1>6. at = "restore" => ~ Fatal(Top)
  <2> SUFFICES ASSUME at = "restore", Top.id \in 0 .. 31, Top.id # 3 PROVE FALSE
    BY DEF Fatal, EXCEPTION_BP
  <2>1. Top.id \in interrupt_handlers
    BY <1>1 DEF IsIrq, IRQ_BASE
  <2>2. Top.id \in {EXCEPTION_BP, IRQ0, IRQ1}
    BY <2>1 DEF IInv, Handled
  <2>3. Top.id \in {3, 32, 33}
    BY <2>2 DEF EXCEPTION_BP, IRQ0, IRQ1
  <2> QED
    BY <2>3
<1>7. Top.words = Push(LoadId(Top.old, Top.id))
  BY <1>1, <1>2, <1>4 DEF IInv, Saved
<1>8. Shape' /\ Masked' /\ IrqNesting' /\ KmainFlag' /\ Saved' /\ Handled'
  <2> HIDE DEF n
  <2>1. n = Len(contexts)
    BY DEF n
  <2> QED
    BY <1>1, <1>3, <1>5, <1>6, <1>7, <2>1, MoveKeeps
<1>9. InService' /\ NothingElse'
  <2>1. Top.id \in Int
    BY <1>2, VectorsAreInts DEF Context, KMAIN
  <2>2. IsIrq(Top) => (Acknowledged(contexts'[n]) <=> Acknowledged(Top))
    BY <1>1, <1>3, <2>1 DEF Acknowledged, IsIrq, IRQ_BASE
  <2> QED
    BY <1>1, <1>3, <2>2, MoveKeepsLines
<1> QED BY <1>8, <1>9 DEF Rest
(* A nonempty set of lines has a least one, and Min finds it.              *)
LEMMA MinOfLines ==
  ASSUME NEW S, S \subseteq 0 .. 7, S # {}
  PROVE  Min(S) \in S /\ \A x \in S : Min(S) <= x
<1>1. \E m \in S : \A x \in S : m <= x
  <2> DEFINE R == OpToRel(<, Nat)
  <2>1. IsWellFoundedOn(R, Nat)
    BY NatLessThanWellFounded
  <2>2. S \subseteq Nat
    OBVIOUS
  <2>3. \E m \in S : \A x \in S : ~ (<<x, m>> \in R)
    BY <2>1, <2>2, WFMin
  <2> QED
    BY <2>2, <2>3 DEF OpToRel
<1> QED
  BY <1>1 DEF Min

(* The end of interrupt takes the line of the running context, which is    *)
(* the one of the highest priority in service.                             *)
LEMMA IrqHandlerKeeps == ASSUME IInv, irq_handler PROVE Rest'
<1> DEFINE n == Len(contexts)
           mine == Top.id - IRQ_BASE
<1>1. /\ contexts' = SetTop("callback") /\ Top.at = "handler" /\ Top.id >= IRQ_BASE
      /\ main' = main /\ interrupt_handlers' = interrupt_handlers /\ iflag' = iflag
      /\ inservice' = inservice \ {Min(inservice)}
  BY DEF irq_handler, Running, tables, PIC_EOI
<1>2. contexts \in Seq(Context) /\ n >= 1 /\ n \in Nat /\ Top \in Context /\ Top = contexts[n]
  BY TopType DEF IInv, TypeOK, Top
<1>3. /\ Len(contexts') = n
      /\ \A i \in 1 .. n : i # n => contexts'[i] = contexts[i]
      /\ contexts'[n].at = "callback" /\ contexts'[n].id = Top.id
      /\ contexts'[n].flags = Top.flags /\ contexts'[n].old = Top.old
      /\ contexts'[n].words = Top.words
  BY <1>1, <1>2, SetTopFacts DEF Places
<1>4. n \in 1 .. n
  BY <1>2
<1>5. ~ iflag'
  <2>1. ~ Interruptible(contexts[n])
    BY <1>1, <1>2 DEF Interruptible
  <2> QED BY <1>1, <1>4, <2>1 DEF IInv, Masked
<1>6. Top.words = Push(LoadId(Top.old, Top.id))
  BY <1>1, <1>2, <1>4 DEF IInv, Saved
<1>7. Shape' /\ Masked' /\ IrqNesting' /\ KmainFlag' /\ Saved' /\ Handled'
  <2> HIDE DEF n
  <2>1. n = Len(contexts)
    BY DEF n
  <2> QED
    BY <1>1, <1>3, <1>5, <1>6, <2>1, MoveKeeps
<1>8. \A i \in 1 .. n : contexts[i] \in Context /\ contexts[i].id \in Int
  <2> SUFFICES ASSUME NEW i \in 1 .. n PROVE contexts[i] \in Context /\ contexts[i].id \in Int
    OBVIOUS
  <2>1. contexts[i] \in Context
    BY <1>2, ElementOfSeq
  <2> QED BY <2>1, VectorsAreInts DEF Context
<1>9. mine \in inservice /\ IsIrq(Top) /\ Top.id \in Int
  BY <1>1, <1>2, <1>4, <1>8 DEF IInv, InService, IsIrq, Acknowledged
<1>10. \A i \in 1 .. n : i # n /\ IsIrq(contexts[i]) => mine < contexts[i].id - IRQ_BASE
  <2> SUFFICES ASSUME NEW i \in 1 .. n, i # n, IsIrq(contexts[i])
               PROVE  mine < contexts[i].id - IRQ_BASE
    OBVIOUS
  <2>1. i < n
    BY <1>2
  <2>2. Top.id < contexts[i].id
    BY <1>2, <1>4, <1>9, <2>1 DEF IInv, IrqNesting
  <2> QED
    BY <1>8, <1>9, <2>2 DEF IRQ_BASE
<1>11. inservice \subseteq 0 .. 7
  BY LinesAssumption DEF IInv, TypeOK
<1>12. Min(inservice) \in Int /\ Min(inservice) <= mine
  <2> HIDE DEF mine
  <2>1. Min(inservice) \in inservice /\ Min(inservice) <= mine
    BY <1>9, <1>11, MinOfLines
  <2>2. Min(inservice) \in 0 .. 7
    BY <1>11, <2>1, Zenon
  <2>3. 0 .. 7 \subseteq Int
    OBVIOUS
  <2> QED BY <2>1, <2>2, <2>3, Zenon
<1>13. \A i \in 1 .. n :
         /\ contexts'[i].id = contexts[i].id
         /\ IsIrq(contexts'[i]) <=> IsIrq(contexts[i])
         /\ Fatal(contexts'[i]) <=> Fatal(contexts[i])
  BY <1>2, <1>3 DEF IsIrq, Fatal
<1>14. InService'
  <2> SUFFICES ASSUME NEW i \in 1 .. n, IsIrq(contexts'[i]), ~ Acknowledged(contexts'[i])
               PROVE  contexts'[i].id - IRQ_BASE \in inservice'
    BY <1>3 DEF InService
  <2>1. i # n
    BY <1>3 DEF Acknowledged
  <2>2. contexts'[i] = contexts[i]
    BY <1>3, <2>1
  <2>3. contexts[i].id - IRQ_BASE \in inservice
    BY <2>2 DEF IInv, InService
  <2>4. mine < contexts[i].id - IRQ_BASE
    BY <1>10, <2>1, <2>2
  <2>5. contexts[i].id - IRQ_BASE # Min(inservice)
    BY <1>8, <1>9, <1>12, <2>4 DEF IRQ_BASE
  <2> QED
    BY <1>1, <2>2, <2>3, <2>5
<1>15. NothingElse'
  <2> SUFFICES ASSUME \A i \in 1 .. n : ~ Fatal(contexts'[i]), NEW l \in inservice'
               PROVE  \E i \in 1 .. n :
                        /\ IsIrq(contexts'[i]) /\ ~ Acknowledged(contexts'[i])
                        /\ l = contexts'[i].id - IRQ_BASE
    BY <1>3 DEF NothingElse
  <2>1. \A i \in 1 .. n : ~ Fatal(contexts[i])
    BY <1>13 DEF Fatal
  <2>2. \A k \in inservice : \E i \in 1 .. n :
          /\ IsIrq(contexts[i]) /\ ~ Acknowledged(contexts[i])
          /\ k = contexts[i].id - IRQ_BASE
    BY <2>1 DEF IInv, NothingElse
  <2>3. Min(inservice) = mine
    <3>1. Min(inservice) \in inservice
      BY <1>9, <1>11, MinOfLines
    <3>2. PICK i \in 1 .. n : IsIrq(contexts[i]) /\ Min(inservice) = contexts[i].id - IRQ_BASE
      BY <2>2, <3>1
    <3> QED
      BY <1>2, <1>8, <1>9, <1>10, <1>12, <3>2 DEF IRQ_BASE
  <2>4. l \in inservice /\ l # mine
    BY <1>1, <2>3
  <2>5. PICK i \in 1 .. n : /\ IsIrq(contexts[i]) /\ ~ Acknowledged(contexts[i])
                            /\ l = contexts[i].id - IRQ_BASE
    BY <2>2, <2>4
  <2>6. i # n
    BY <1>2, <2>4, <2>5
  <2>7. contexts'[i] = contexts[i]
    BY <1>3, <2>6
  <2> QED
    BY <2>5, <2>7
<1> QED BY <1>7, <1>14, <1>15 DEF Rest
(* What the registers are after a return.                                  *)
LEMMA ReturnRegisters == ASSUME IInv, StubReturn PROVE Agree(regs', Top.old)
<1> DEFINE n == Len(contexts)
<1>1. n \in Nat /\ n > 1 /\ regs' = Pop(Top.words)
  BY ResumeFacts DEF IInv
<1>2. Top.at = "restore" /\ Top = contexts[n] /\ n \in 1 .. n
  BY <1>1 DEF StubReturn, Resume, Running, Top
<1>3. Top.words = Push(LoadId(Top.old, Top.id))
  BY <1>2 DEF IInv, Saved
<1>4. \A r \in Registers : regs'[r] = LoadId(Top.old, Top.id)[r]
  BY <1>1, <1>3, PopAfterPush
<1>5. Top.old \in [Registers -> Values]
  BY TopType DEF IInv, TypeOK, Context
<1> QED
  BY <1>4, <1>5 DEF Agree, LoadId

(* Every other step keeps or extends the stack.                            *)
LEMMA OnlyReturnShrinks ==
  ASSUME TypeOK, [Next]_vars, Len(contexts') < Len(contexts)
  PROVE  StubReturn
<1>1. Len(contexts) \in Nat /\ Len(contexts) >= 1 /\ contexts \in Seq(Context)
  BY TopType DEF TypeOK
<1>2. ASSUME contexts' = contexts PROVE FALSE
  BY <1>1, <1>2
<1>3. ASSUME NEW at \in Places, contexts' = SetTop(at) PROVE FALSE
  BY <1>1, <1>3, SetTopFacts
<1>4. ASSUME NEW c, contexts' = Append(contexts, c) PROVE FALSE
  BY <1>1, <1>4
<1>5. ASSUME StubEntry PROVE FALSE
  BY <1>1, <1>5, SaveFacts
<1> QED
  <2>1. CASE QuietKmain \/ isr_init \/ irq_init \/ DeviceStep \/ UNCHANGED vars
    BY <1>2, <2>1
    DEF QuietKmain, MultibootValid, TimerRegister, TimerMode, TimerDivisor, CheckStart, CheckDone,
        keyboard_init, isr_init, IsrInit, irq_init, DeviceStep, PitFires, KeyPressed, OtherDevice,
        cpu, vars
  <2>2. CASE MultibootInvalid \/ irq_handler \/ Callback \/ kernel_panic
    BY <1>3, <2>2
    DEF MultibootInvalid, irq_handler, Callback, timer_callback, CountTick, keyboard_callback,
        NoCallback, IsrHandled, kernel_panic, Places
  <2>3. CASE (\E line \in Lines : Deliver(line)) \/ (\E id \in Exceptions : Exception(id))
    BY <1>4, <2>3 DEF Deliver, Exception, Enter
  <2> QED
    BY <1>5, <2>1, <2>2, <2>3, NextCases

(* The return from an interrupt.                                           *)
LEMMA StubReturnKeeps == ASSUME IInv, StubReturn PROVE Rest'
<1> DEFINE n == Len(contexts)
<1>1. /\ n \in Nat /\ n > 1
      /\ Len(contexts') = n - 1
      /\ \A i \in 1 .. n - 1 : contexts'[i] = contexts[i]
      /\ iflag' = Top.flags
      /\ regs' = Pop(Top.words)
  BY ResumeFacts DEF IInv
<1>2. /\ Top.at = "restore" /\ Top = contexts[n] /\ n \in 1 .. n
      /\ main' = main /\ interrupt_handlers' = interrupt_handlers /\ inservice' = inservice
  BY <1>1 DEF StubReturn, Resume, Running, Top, tables, pic
<1> HIDE DEF n
<1>3. \A i \in 1 .. n - 1 : i \in 1 .. n
  BY <1>1
<1>0. n = Len(contexts)
  BY DEF n
<1>4. Shape'
  BY <1>0, <1>1, <1>3 DEF IInv, Shape
<1>5. Masked'
  <2>1. ASSUME iflag', NEW i \in 1 .. n - 1 PROVE Interruptible(contexts'[i])
    <3>0. contexts[n].flags
      BY <1>1, <1>2, <2>1, Zenon
    <3>1. n \in 2 .. n
      BY <1>1
    <3>2. Interruptible(contexts[i])
      BY <1>0, <3>0, <3>1 DEF IInv, Masked
    <3> QED BY <1>1, <3>2
  <2>2. ASSUME NEW k \in 2 .. n - 1, contexts'[k].flags, NEW i \in 1 .. k - 1
        PROVE  Interruptible(contexts'[i])
    <3>1. k \in 2 .. n /\ k \in 1 .. n - 1 /\ i \in 1 .. n - 1
      BY <1>1
    <3>2. Interruptible(contexts[i])
      BY <1>0, <1>1, <2>2, <3>1 DEF IInv, Masked
    <3> QED BY <1>1, <3>1, <3>2
  <2> QED
    BY <1>1, <2>1, <2>2 DEF Masked
<1>6. InService' /\ IrqNesting' /\ Handled'
  BY <1>0, <1>1, <1>2, <1>3 DEF IInv, InService, IrqNesting, Handled
<1>7. NothingElse'
  <2> SUFFICES ASSUME \A i \in 1 .. n - 1 : ~ Fatal(contexts'[i]), NEW l \in inservice
               PROVE  \E i \in 1 .. n - 1 :
                        /\ IsIrq(contexts'[i]) /\ ~ Acknowledged(contexts'[i])
                        /\ l = contexts'[i].id - IRQ_BASE
    BY <1>1, <1>2 DEF NothingElse
  <2>1. ~ Fatal(contexts[n])
    BY <1>0, <1>2 DEF IInv, Handled
  <2>2. ASSUME NEW i \in 1 .. n PROVE ~ Fatal(contexts[i])
    <3>1. CASE i = n
      BY <2>1, <3>1
    <3>2. CASE i # n
      <4>1. i \in 1 .. n - 1
        BY <1>1, <3>2
      <4> QED BY <1>1, <4>1
    <3> QED BY <3>1, <3>2
  <2>3. PICK i \in 1 .. n : /\ IsIrq(contexts[i]) /\ ~ Acknowledged(contexts[i])
                            /\ l = contexts[i].id - IRQ_BASE
    BY <1>0, <2>2 DEF IInv, NothingElse
  <2>4. i # n
    BY <1>2, <2>3 DEF Acknowledged
  <2>5. i \in 1 .. n - 1
    BY <1>1, <2>4
  <2> QED
    BY <1>1, <2>3, <2>5
<1>8. KmainFlag'
  <2>1. Booted' <=> Booted
    BY <1>2 DEF Booted
  <2>2. Booted => contexts[2].flags
    BY <1>0, <1>1 DEF IInv, KmainFlag
  <2>3. ASSUME Booted, n - 1 = 1 PROVE iflag'
    <3>1. n = 2
      BY <1>1, <2>3
    <3> QED BY <1>1, <1>2, <2>2, <2>3, <3>1
  <2>4. ASSUME Booted, n - 1 > 1 PROVE contexts'[2].flags
    <3>1. 2 \in 1 .. n - 1
      BY <1>1, <2>4
    <3> QED BY <1>1, <2>2, <2>4, <3>1
  <2>5. main' = "halted" => contexts'[1].at = "halted"
    <3>1. 1 \in 1 .. n - 1
      BY <1>1
    <3> QED BY <1>1, <1>2, <3>1 DEF IInv, KmainFlag
  <2> QED
    BY <1>1, <2>1, <2>3, <2>4, <2>5 DEF KmainFlag
<1>9. Agree(regs', Top.old)
  BY ReturnRegisters
<1>10. Saved'
  <2>1. ASSUME NEW i \in 1 .. n - 1, contexts'[i].at \in {"handler", "callback", "restore"}
        PROVE  contexts'[i].words = Push(LoadId(contexts'[i].old, contexts'[i].id))
    BY <1>0, <1>1, <1>3, <2>1 DEF IInv, Saved
  <2>2. ASSUME NEW i \in 1 .. n - 2, contexts'[i].at = "entry"
        PROVE  Agree(contexts'[i + 1].old, contexts'[i].old)
    <3>1. i \in 1 .. n - 1 /\ i + 1 \in 1 .. n - 1
      BY <1>1
    <3> QED
      BY <1>0, <1>1, <2>2, <3>1 DEF IInv, Saved
  <2>3. ASSUME contexts'[n - 1].at = "entry" PROVE Agree(regs', contexts'[n - 1].old)
    <3>1. n - 1 \in 1 .. n - 1 /\ (n - 1) + 1 = n
      BY <1>1
    <3>2. contexts[n - 1].at = "entry" /\ contexts'[n - 1] = contexts[n - 1]
      BY <1>1, <2>3, <3>1
    <3>3. Agree(contexts[n].old, contexts[n - 1].old)
      BY <1>0, <3>1, <3>2 DEF IInv, Saved
    <3> QED
      BY <1>2, <1>9, <3>2, <3>3 DEF Agree
  <2>4. (n - 1) - 1 = n - 2
    BY <1>1
  <2> QED
    BY <1>1, <2>1, <2>2, <2>3, <2>4 DEF Saved, Running, Top
<1> QED BY <1>4, <1>5, <1>6, <1>7, <1>8, <1>10 DEF Rest
-----------------------------------------------------------------------------
(* The machine as the boot loader leaves it.                               *)
LEMMA InitInv == Init => IInv
<1> SUFFICES ASSUME Init PROVE IInv
  OBVIOUS
<1> DEFINE c == [id |-> KMAIN, at |-> "kmain", flags |-> FALSE, error |-> FALSE,
                 old |-> Own(KMAIN), words |-> << >>]
<1>1. contexts = <<c>>
  BY DEF Init
<1>2. c \in Context
  BY OwnType DEF Context, Places
<1>3. c.id = KMAIN /\ c.at = "kmain"
  OBVIOUS
<1> HIDE DEF c
<1>4. contexts \in Seq(Context) /\ Len(contexts) = 1 /\ contexts[1] = c
  BY <1>1, <1>2
<1>5. TypeOK
  <2>1. main \in Phases
    BY DEF Init, Phases
  <2>2. iflag \in BOOLEAN /\ pit \in BOOLEAN /\ obf \in BOOLEAN
    BY Zenon DEF Init
  <2>3. regs \in [Registers -> Values]
    BY OwnType DEF Init
  <2>4. /\ gates \subseteq Vectors /\ interrupt_handlers \subseteq Vectors
        /\ irr \subseteq Lines /\ imr \subseteq Lines /\ inservice \subseteq Lines
    BY DEF Init
  <2>5. /\ tick \in 0 .. (TickMod - 1) /\ snapshot \in 0 .. (TickMod - 1)
        /\ faults \in 0 .. MaxFaults
    BY TickAssumption, FaultsAssumption DEF Init
  <2> QED
    BY <1>4, <2>1, <2>2, <2>3, <2>4, <2>5 DEF TypeOK
<1>6. Shape /\ InService /\ IrqNesting
  BY <1>3, <1>4 DEF Shape, InService, IrqNesting, IsIrq, KMAIN, IRQ_BASE
<1>7. Masked
  BY <1>3, <1>4 DEF Masked, Interruptible
<1>8. NothingElse
  BY DEF Init, NothingElse
<1>9. KmainFlag
  BY DEF Init, KmainFlag, Booted
<1>10. Saved
  BY <1>3, <1>4 DEF Saved, Running, Top
<1>11. Handled
  BY <1>3, <1>4 DEF Init, Handled
<1> QED BY <1>5, <1>6, <1>7, <1>8, <1>9, <1>10, <1>11 DEF IInv

(* The invariant is inductive.                                             *)
LEMMA Inductive == Spec => []IInv
<1>1. ASSUME IInv, [Next]_vars PROVE IInv'
  <2>1. TypeOK'
    BY <1>1, NextTyped DEF IInv
  <2>2. Rest'
    BY <1>1, NextCases, QuietKmainKeeps, KmainKeeps, DeviceKeeps, DeliverKeeps, ExceptionKeeps,
       StubEntryKeeps, IrqHandlerKeeps, HandlerKeeps, StubReturnKeeps
  <2> QED BY <2>1, <2>2 DEF IInv, Rest
<1> QED BY <1>1, InitInv, PTL DEF Spec

(* The state of the CPU, the PIC and the drivers keeps its types: tick     *)
(* wraps, and what the stubs push and pop are registers.                   *)
THEOREM TypeCorrect == Spec => []TypeOK
BY Inductive, PTL DEF IInv

(* cli alone is enough, although irq_handler sends the end of interrupt    *)
(* first: interrupts nest only in front of a cli and by priority.          *)
THEOREM HandlersDoNotNest == Spec => []IrqNesting
BY Inductive, PTL DEF IInv

(* Every nonspecific end of interrupt sent by irq_handler acknowledges the *)
(* line of the interrupt that sent it.                                     *)
THEOREM EachAcknowledgesItsOwn == Spec => []EoiMatches
<1>1. IInv => EoiMatches
  BY DEF IInv, InService, NothingElse, EoiMatches
<1> QED BY <1>1, Inductive, PTL

(* No stub returns to kmain with interrupts disabled.                      *)
THEOREM KmainStaysInterruptible == Spec => []KmainInterruptible
<1>1. IInv => KmainInterruptible
  <2> SUFFICES ASSUME IInv, Running("kmain"), main \notin {"multiboot", "isr_init", "irq_init"}
               PROVE  iflag
    BY DEF KmainInterruptible
  <2>1. Len(contexts) = 1 /\ Top = contexts[1]
    BY KmainAlone DEF IInv
  <2>2. main # "halted"
    BY <2>1 DEF IInv, KmainFlag, Running
  <2> QED
    BY <2>1, <2>2 DEF IInv, KmainFlag, Booted
<1> QED BY <1>1, Inductive, PTL

(* The stubs of interrupt.asm give back every register but rdi, whatever   *)
(* happened between their pushes and their pops.                           *)
THEOREM StubsRestore == Spec => ReturnRestores
<1>1. ASSUME IInv, [Next]_vars
      PROVE  [ Len(contexts') < Len(contexts) =>
                 \A r \in Registers \ {"rdi"} : regs'[r] = Top.old[r] ]_vars
  <2> SUFFICES ASSUME Len(contexts') < Len(contexts), NEW r \in Registers \ {"rdi"}
               PROVE  regs'[r] = Top.old[r]
    OBVIOUS
  <2>1. StubReturn
    BY <1>1, NextCases, OnlyReturnShrinks DEF IInv
  <2>2. Agree(regs', Top.old)
    BY <1>1, <2>1, ReturnRegisters
  <2> QED BY <2>2 DEF Agree
<1> QED BY <1>1, Inductive, PTL DEF Spec, ReturnRestores

-----------------------------------------------------------------------------
(* A context has an error code on its stack exactly when its vector is one *)
(* for which the processor pushes it.                                      *)
ErrorWords ==
  \A i \in 1 .. Len(contexts) :
    contexts[i].error <=> contexts[i].id \in PushesErrorCode

(* No step moves an error code.                                            *)
LEMMA ErrorWordsKept == ASSUME IInv, ErrorWords, [Next]_vars PROVE ErrorWords'
<1> DEFINE n == Len(contexts)
<1>1. n \in Nat /\ n >= 1 /\ contexts \in Seq(Context) /\ Top = contexts[n]
  BY TopType DEF IInv, TypeOK, Top
<1>2. ASSUME contexts' = contexts PROVE ErrorWords'
  BY <1>2 DEF ErrorWords
<1>3. ASSUME NEW at \in Places, contexts' = SetTop(at) PROVE ErrorWords'
  <2>1. /\ Len(contexts') = n /\ \A i \in 1 .. n : i # n => contexts'[i] = contexts[i]
        /\ contexts'[n].id = Top.id /\ contexts'[n].error = Top.error
    BY <1>1, <1>3, SetTopFacts
  <2> QED BY <1>1, <2>1 DEF ErrorWords
<1>4. ASSUME NEW id \in Vectors, Enter(id) PROVE ErrorWords'
  <2>1. /\ Len(contexts') = n + 1 /\ \A i \in 1 .. n : contexts'[i] = contexts[i]
        /\ contexts'[n + 1].error <=> contexts'[n + 1].id \in PushesErrorCode
    BY <1>4, EnterFacts DEF IInv
  <2>2. \A i \in 1 .. n + 1 : i \in 1 .. n \/ i = n + 1
    BY <1>1
  <2> QED BY <2>1, <2>2 DEF ErrorWords
<1>5. CASE QuietKmain \/ isr_init \/ irq_init \/ DeviceStep \/ UNCHANGED vars
  BY <1>2, <1>5 DEF QuietKmain, MultibootValid, TimerRegister, TimerMode, TimerDivisor,
     CheckStart, CheckDone, keyboard_init, Kmain, isr_init, IsrInit, irq_init,
     DeviceStep, PitFires, KeyPressed, OtherDevice, cpu, vars
<1>6. CASE MultibootInvalid \/ irq_handler \/ Callback \/ kernel_panic
  BY <1>3, <1>6 DEF MultibootInvalid, Kmain, irq_handler, Callback, timer_callback, CountTick,
     keyboard_callback, NoCallback, IsrHandled, kernel_panic, Places
<1>7. CASE \E line \in Lines : Deliver(line)
  BY <1>4, <1>7, LinesAssumption DEF Deliver, Vectors, IRQ_BASE
<1>8. CASE \E id \in Exceptions : Exception(id)
  BY <1>4, <1>8, ExceptionsAssumption DEF Exception, Vectors
<1>9. CASE StubEntry
  <2>1. /\ Len(contexts') = n /\ \A i \in 1 .. n : i # n => contexts'[i] = contexts[i]
        /\ contexts'[n].id = Top.id /\ contexts'[n].error = Top.error
    BY <1>9, SaveFacts DEF IInv
  <2> QED BY <1>1, <2>1 DEF ErrorWords
<1>10. CASE StubReturn
  <2>1. Len(contexts') = n - 1 /\ \A i \in 1 .. n - 1 : contexts'[i] = contexts[i]
    BY <1>10, ResumeFacts DEF IInv
  <2> QED BY <1>1, <2>1 DEF ErrorWords
<1> QED
  BY <1>5, <1>6, <1>7, <1>8, <1>9, <1>10, NextCases

(* No stub returns over an error code: only IRQs and breakpoints return,   *)
(* and the processor pushes none for them.                                 *)
THEOREM IretqFindsItsFrame == Spec => []NoErrorCodeAtReturn
<1>1. Init => ErrorWords
  BY DEF Init, ErrorWords, KMAIN, PushesErrorCode
<1>2. ASSUME IInv, ErrorWords PROVE NoErrorCodeAtReturn
  <2> SUFFICES ASSUME Running("restore") PROVE ~ Top.error
    BY DEF NoErrorCodeAtReturn
  <2>1. Len(contexts) \in 1 .. Len(contexts) /\ Top = contexts[Len(contexts)]
    BY <1>2, TopType DEF IInv, TypeOK, Top
  <2>2. ~ Fatal(Top) /\ Top.at = "restore"
    BY <1>2, <2>1 DEF IInv, Handled, Running
  <2>3. Top.error <=> Top.id \in PushesErrorCode
    BY <1>2, <2>1 DEF ErrorWords
  <2> QED
    BY <2>2, <2>3 DEF Fatal, PushesErrorCode, EXCEPTION_BP
<1> QED
  BY <1>1, <1>2, ErrorWordsKept, Inductive, PTL DEF Spec

(* Where the third of three sequences begins.                              *)
LEMMA ThirdPart ==
  ASSUME NEW S, NEW a \in Seq(S), NEW b \in Seq(S), NEW c \in Seq(S), Len(c) >= 1
  PROVE  ((a \o b) \o c)[Len(a) + Len(b) + 1] = c[1]
OBVIOUS

(* get_stack returns the address of the saved RIP for every vector: it     *)
(* skips the words the stub pushed, and one more exactly when there is an  *)
(* error code.                                                             *)
THEOREM ReportsTheRightFrame == Spec => []GetStackFindsRip
<1>1. ASSUME IInv PROVE GetStackFindsRip
  <2> SUFFICES ASSUME Running("handler")
               PROVE  StackAtCall(Top.id, Top.words)[get_stack(Top.id) + 1] = "rip"
    BY DEF GetStackFindsRip
  <2> DEFINE words == Top.words
             below == [j \in 1 .. 15 |-> words[16 - j]]
             code  == IF Top.id \in PushesErrorCode THEN <<"error">> ELSE << >>
             frame == <<"rip", "cs", "rflags", "rsp", "ss">>
             S == { words[i] : i \in 1 .. 15 } \cup {"error", "rip", "cs", "rflags", "rsp", "ss"}
  <2>1. Len(contexts) \in 1 .. Len(contexts) /\ Top = contexts[Len(contexts)]
    BY <1>1, TopType DEF IInv, TypeOK, Top
  <2>2. words = Push(LoadId(Top.old, Top.id))
    BY <1>1, <2>1 DEF IInv, Saved, Running
  <2>3. Len(words) = 15
    BY <2>2 DEF Push, NB_REGISTERS_PUSHED_BEFORE_CALL
  <2>4. /\ below \in Seq(S) /\ Len(below) = 15
        /\ frame \in Seq(S) /\ Len(frame) >= 1 /\ frame[1] = "rip"
    OBVIOUS
  <2>5. [j \in 1 .. Len(words) |-> words[Len(words) + 1 - j]] = below
    BY <2>3
  <2>6. StackAtCall(Top.id, words) = (below \o code) \o frame
    <3>1. StackAtCall(Top.id, words) =
            ([j \in 1 .. Len(words) |-> words[Len(words) + 1 - j]] \o code) \o frame
      BY Zenon DEF StackAtCall
    <3> HIDE DEF code, frame, below, words
    <3> QED BY <3>1, <2>5, Zenon
  <2>7. code \in Seq(S) /\ Len(code) \in Nat /\ get_stack(Top.id) = 15 + Len(code)
    <3>1. SkipsErrorCode = PushesErrorCode
      BY DEF SkipsErrorCode, PushesErrorCode
    <3>2. CASE Top.id \in PushesErrorCode
      BY <3>1, <3>2 DEF get_stack, NB_REGISTERS_PUSHED_BEFORE_CALL
    <3>3. CASE Top.id \notin PushesErrorCode
      BY <3>1, <3>3 DEF get_stack, NB_REGISTERS_PUSHED_BEFORE_CALL
    <3> QED BY <3>2, <3>3
  <2> HIDE DEF below, code, frame, S
  <2>8. ((below \o code) \o frame)[Len(below) + Len(code) + 1] = frame[1]
    BY <2>4, <2>7, ThirdPart, Zenon
  <2>9. Len(below) + Len(code) + 1 = get_stack(Top.id) + 1
    BY <2>4, <2>7
  <2> QED BY <2>4, <2>6, <2>8, <2>9, Zenon
<1> QED BY <1>1, Inductive, PTL
=============================================================================
