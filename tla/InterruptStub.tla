---------------------------- MODULE InterruptStub ----------------------------
(***************************************************************************)
(* The assembly stubs of src/asm/interrupt.asm as operators: what they     *)
(* push, what they pop, and where get_stack (src/src/core/isr.c) looks for *)
(* the frame the processor pushed.                                         *)
(***************************************************************************)
EXTENDS Integers, Sequences

(* The order of the push instructions, and of the pop instructions.        *)
PushOrder ==
  << "rax", "rbx", "rcx", "rdx", "rsi", "rdi", "rbp", "r8",
     "r9", "r10", "r11", "r12", "r13", "r14", "r15" >>

PopOrder ==
  << "r15", "r14", "r13", "r12", "r11", "r10", "r9", "r8",
     "rbp", "rdi", "rsi", "rdx", "rcx", "rbx", "rax" >>

NB_REGISTERS_PUSHED_BEFORE_CALL == 15

Registers == { PushOrder[i] : i \in 1 .. NB_REGISTERS_PUSHED_BEFORE_CALL }

(* mov rdi, id                                                             *)
LoadId(regs, id) == [regs EXCEPT !["rdi"] = <<id, "id">>]

(* The words pushed, deepest first.                                        *)
Push(regs) == [i \in 1 .. NB_REGISTERS_PUSHED_BEFORE_CALL |-> regs[PushOrder[i]]]

(* Fault: two pops are swapped.                                            *)
FaultPopSwapped(words) ==
  [r \in Registers |->
     LET q == CASE r = "rbx" -> "rcx" [] r = "rcx" -> "rbx" [] OTHER -> r
         j == CHOOSE j \in 1 .. NB_REGISTERS_PUSHED_BEFORE_CALL : PopOrder[j] = q
     IN  words[NB_REGISTERS_PUSHED_BEFORE_CALL + 1 - j]]

(* The j-th pop takes the j-th word from the top.                          *)
Pop(words) ==
  [r \in Registers |->
     LET j == CHOOSE j \in 1 .. NB_REGISTERS_PUSHED_BEFORE_CALL : PopOrder[j] = r
     IN  words[NB_REGISTERS_PUSHED_BEFORE_CALL + 1 - j]]

(* Exceptions for which the processor pushes an error code after RIP, and  *)
(* the ones for which get_stack skips it.                                  *)
PushesErrorCode == {8, 10, 11, 12, 13, 14, 17}
SkipsErrorCode  == {8, 10, 11, 12, 13, 14, 17}

(* The stack at the call of a handler, top first: the saved registers, the *)
(* error code if there is one, then the frame that starts with RIP.        *)
StackAtCall(id, words) ==
  [j \in 1 .. Len(words) |-> words[Len(words) + 1 - j]]
    \o (IF id \in PushesErrorCode THEN <<"error">> ELSE << >>)
    \o <<"rip", "cs", "rflags", "rsp", "ss">>

(* Fault: the error code of a page fault is not skipped.                   *)
FaultStackPF(id) ==
  (IF id \in SkipsErrorCode \ {14} THEN 1 ELSE 0) + NB_REGISTERS_PUSHED_BEFORE_CALL

(* Words between the stack pointer and the stack_t that get_stack returns. *)
get_stack(id) ==
  (IF id \in SkipsErrorCode THEN 1 ELSE 0) + NB_REGISTERS_PUSHED_BEFORE_CALL
=============================================================================
