------------------------------- MODULE OSFiber -------------------------------
(***************************************************************************)
(* OSFiber: the execution context of a fiber, and the switch from one to   *)
(* another on one thread.  The structure marl_fiber_context has one slot   *)
(* for each register that the assembly of an architecture keeps, and       *)
(* marl_fiber_swap() stores the registers of the running fiber in the      *)
(* slots of its context and loads those of the fiber it switches to.  For  *)
(* each architecture the definitions <arch>_context, <arch>_store,         *)
(* <arch>_load and <arch>_set_target are the slots, the register each slot *)
(* receives, the slot each register is loaded from, and the slots of a     *)
(* fiber that has not run yet.  Offsets of slots are the positions of the  *)
(* fields, so a slot is just its name; the value of a register is the      *)
(* fiber it belongs to and the number of the value.  The return address is *)
(* in the register pc, where the code finds it in the link register or on  *)
(* top of the stack.                                                       *)
(***************************************************************************)
EXTENDS Integers, Sequences, TLC

CONSTANTS Fibers, Main,     \* the fibers of a thread, and the thread's own
          Archs,            \* the architectures checked
          StackSize,        \* bytes of a fiber's stack, from address 0
          MaxVersion        \* bound: the values a fiber gives its registers

VARIABLES arch,             \* the architecture of the build
          registers,        \* the registers of the thread
          contexts,         \* OSFiber::context
          status,           \* of a fiber: none, created, running (or suspended)
          current,          \* the fiber that runs
          version           \* the number of the values the fiber computed last

vars == <<arch, registers, contexts, status, current, version>>

Bank(name, numbers) == {name} \X numbers
Named(names) == names \X {0}
Reg(name) == <<name, 0>>
Same(slots) == [s \in slots |-> s]
Without(f, slots) == [s \in DOMAIN f \ slots |-> f[s]]
RangeOf(f) == {f[x] : x \in DOMAIN f}

\* Values: what a register or a slot can hold.
Zero == <<"zero", Main, 0>>
ThreadPointer == <<"thread", Main, 0>>
Trampoline == <<"marl_fiber_trampoline", Main, 0>>
Run == <<"OSFiber::run", Main, 0>>
Self(f) == <<"self", f, 0>>
Address(f, a) == <<"stack", f, a>>
Own(f) == <<"own", f, version[f]>>

-----------------------------------------------------------------------------
(* The slots of each architecture: the callee-saved ones, those of the     *)
(* first two parameters (none: they are on the stack), the other ones, and *)
(* the registers that belong to the thread and that no fiber changes.      *)
(* pushed is what a call leaves on the stack: the entry point of a fiber is*)
(* jumped to, so it must find the stack as after a call.                   *)
Context(callee, params, sp, pc, special, reserved, pushed) ==
  [callee |-> callee, params |-> params, sp |-> sp, pc |-> pc,
   special |-> special, reserved |-> reserved, pushed |-> pushed,
   slots |-> callee \cup RangeOf(params) \cup {sp, pc} \cup special \cup reserved]

x64_context ==
  Context(Named({"rbx", "rbp"}) \cup Bank("r", 12..15),
          <<Reg("rdi"), Reg("rsi")>>, Reg("rsp"), Reg("rip"), {}, {}, 8)
x86_context ==
  Context(Named({"ebx", "ebp", "esi", "edi"}), <<>>, Reg("esp"), Reg("eip"), {}, {}, 4)
aarch64_context ==
  Context(Bank("r", 19..29) \cup Bank("v", 8..15), <<<<"r", 0>>, <<"r", 1>>>>,
          Reg("sp"), Reg("lr"), Bank("r", 16..18), {}, 0)
arm_context ==
  Context(Bank("r", 4..11) \cup Bank("v", 8..15), <<<<"r", 0>>, <<"r", 1>>>>,
          Reg("sp"), Reg("lr"), Bank("r", {12}), {}, 0)
mips64_context ==
  Context(Bank("s", 0..7) \cup Bank("f", 24..31) \cup Named({"gp", "fp"}),
          <<<<"a", 0>>, <<"a", 1>>>>, Reg("sp"), Reg("ra"), {}, {}, 0)
rv64_context ==
  Context(Bank("s", 0..11) \cup Bank("fs", 0..11),
          <<<<"a", 0>>, <<"a", 1>>>>, Reg("sp"), Reg("ra"), {}, {}, 0)
loongarch64_context ==
  Context(Bank("s", 0..8) \cup Bank("fs", 0..7) \cup Named({"fp"}),
          <<<<"a", 0>>, <<"a", 1>>>>, Reg("sp"), Reg("ra"), {}, {}, 0)
ppc64_context ==
  Context(Bank("r", {2} \cup 14..31) \cup Bank("fpr", 14..31)
            \cup Bank("vmx", 20..31) \cup Named({"vrsave", "ccr"}),
          <<<<"r", 3>>, <<"r", 4>>>>, <<"r", 1>>, Reg("lr"), {},
          Bank("r", {13}), 0)
\* The system keeps every register in an opaque context of its own.
ucontext_context ==
  Context(Named({"machine"}), <<Reg("a"), Reg("b")>>, Reg("sp"), Reg("pc"), {}, {}, 0)
windows_context ==
  Context(Named({"machine"}), <<Reg("lpParameter")>>, Reg("sp"), Reg("pc"), {}, {}, 0)
emscripten_context ==
  Context(Named({"asyncify_stack"}), <<Reg("arg")>>, Reg("sp"), Reg("pc"), {}, {}, 0)

(* The first half of marl_fiber_swap: the register stored in each slot.    *)
Stored(c) == Same(c.slots \ RangeOf(c.params))
x64_store == Stored(x64_context)
x86_store == Stored(x86_context)
aarch64_store == Stored(aarch64_context)
arm_store == Without(Stored(arm_context), Bank("v", 8..15))
mips64_store == [Stored(mips64_context) EXCEPT ![<<"f", 30>>] = <<"f", 31>>]
rv64_store == Stored(rv64_context)
loongarch64_store == Stored(loongarch64_context)
ppc64_store == Stored(ppc64_context)

(* The second half: the slot each register is loaded from.                 *)
x64_load_without_r15 == Same(x64_context.slots \ Bank("r", {15}))
x64_load == Same(x64_context.slots)
x86_load == Same(x86_context.slots)
aarch64_load == Same(aarch64_context.slots)
arm_load == Same(arm_context.slots \ Bank("v", 8..15))
mips64_load == Same(mips64_context.slots \ Bank("f", {30}))
rv64_load == Same(rv64_context.slots)
loongarch64_load == Same(loongarch64_context.slots)
ppc64_load == Same(ppc64_context.slots \ Named({"ccr"}))

\* swapcontext(), SwitchToFiber() and emscripten_fiber_swap().
system_store(c) == Same(c.slots)
system_load(c) == Same(c.slots)

-----------------------------------------------------------------------------
(* marl_fiber_set_target(): the slots of a fiber that is switched to for   *)
(* the first time.  The target never returns, so the return address that   *)
(* x64 and x86 put on the stack is never used.                             *)
Target(c, f, sp) ==
  (c.pc :> Trampoline) @@ (c.params[1] :> Run) @@ (c.params[2] :> Self(f))
    @@ (c.sp :> Address(f, sp))
AlignedTop == StackSize - (StackSize % 16)

x64_set_target(f) == Target(x64_context, f, StackSize - 3 * 8)
x86_set_target(f) ==
  (x86_context.pc :> Trampoline) @@ (x86_context.sp :> Address(f, StackSize - 5 * 4))
x86_stack(f) ==
  (StackSize - 3 * 4 :> Self(f)) @@ (StackSize - 4 * 4 :> Run)
    @@ (StackSize - 5 * 4 :> Zero)
aarch64_set_target(f) == Target(aarch64_context, f, AlignedTop)
arm_set_target(f) == Target(arm_context, f, AlignedTop)
mips64_set_target(f) == Target(mips64_context, f, AlignedTop)
rv64_set_target(f) == Target(rv64_context, f, AlignedTop)
loongarch64_set_target(f) == Target(loongarch64_context, f, AlignedTop)
ppc64_set_target(f) ==
  LET top == (StackSize - 8) - ((StackSize - 8) % 16)
  IN  Target(ppc64_context, f, top - 32)
        @@ (<<"r", 13>> :> registers[<<"r", 13>>])

\* makecontext() passes ints, so the pointer to the OSFiber goes in two halves.
ucontext_set_target(f) ==
  (Reg("pc") :> <<"Target::Main", Main, 0>>) @@ (Reg("a") :> <<"self", f, 1>>)
    @@ (Reg("b") :> <<"self", f, 2>>) @@ (Reg("sp") :> Address(f, AlignedTop))
windows_set_target(f) ==
  (Reg("pc") :> Run) @@ (Reg("lpParameter") :> Self(f))
    @@ (Reg("sp") :> Address(f, AlignedTop))
\* emscripten_fiber_init() enters the target itself.
emscripten_set_target(f) ==
  (Reg("pc") :> Run) @@ (Reg("arg") :> Self(f)) @@ (Reg("sp") :> Address(f, AlignedTop))

-----------------------------------------------------------------------------
(* The implementation that the build chooses.                              *)
Asm(c, store, load) == [context |-> c, store |-> store, load |-> load]
System(c) == Asm(c, system_store(c), system_load(c))

I ==
  CASE arch = "x64" -> Asm(x64_context, x64_store, x64_load)
    [] arch = "x86" -> Asm(x86_context, x86_store, x86_load)
    [] arch = "aarch64" -> Asm(aarch64_context, aarch64_store, aarch64_load)
    [] arch = "arm" -> Asm(arm_context, arm_store, arm_load)
    [] arch = "ppc64" -> Asm(ppc64_context, ppc64_store, ppc64_load)
    [] arch = "mips64" -> Asm(mips64_context, mips64_store, mips64_load)
    [] arch = "rv64" -> Asm(rv64_context, rv64_store, rv64_load)
    [] arch = "loongarch64" ->
         Asm(loongarch64_context, loongarch64_store, loongarch64_load)
    [] arch = "emscripten" -> System(emscripten_context)
    [] arch = "ucontext" -> System(ucontext_context)
    [] arch = "windows" -> System(windows_context)

marl_fiber_set_target(f) ==
  CASE arch = "x64" -> x64_set_target(f)
    [] arch = "x86" -> x86_set_target(f)
    [] arch = "aarch64" -> aarch64_set_target(f)
    [] arch = "arm" -> arm_set_target(f)
    [] arch = "ppc64" -> ppc64_set_target(f)
    [] arch = "mips64" -> mips64_set_target(f)
    [] arch = "rv64" -> rv64_set_target(f)
    [] arch = "loongarch64" -> loongarch64_set_target(f)
    [] arch = "emscripten" -> emscripten_set_target(f)
    [] arch = "ucontext" -> ucontext_set_target(f)
    [] arch = "windows" -> windows_set_target(f)

\* The values a fiber leaves in the registers when it computes.
Computed(c, f, n) ==
  [r \in c.slots |-> IF r \in c.reserved THEN ThreadPointer ELSE <<"own", f, n>>]

(* createFiberFromCurrentThread(): the running thread is the fiber Main.   *)
Init ==
  /\ arch \in Archs
  /\ current = Main
  /\ status = [f \in Fibers |-> IF f = Main THEN "running" ELSE "none"]
  /\ version = [f \in Fibers |-> 0]
  /\ registers = Computed(I.context, Main, 0)
  /\ contexts = [f \in Fibers |-> [s \in I.context.slots |-> Zero]]

createFiber(f) ==
  /\ status[current] = "running" /\ status[f] = "none"
  /\ status' = [status EXCEPT ![f] = "created"]
  /\ contexts' = [contexts EXCEPT ![f] =
                    marl_fiber_set_target(f) @@ [s \in I.context.slots |-> Zero]]
  /\ UNCHANGED <<arch, registers, current, version>>

\* ~OSFiber() of a fiber that is not running frees its stack.
Destroy(f) ==
  /\ f \notin {current, Main} /\ status[f] # "none" /\ status[current] = "running"
  /\ status' = [status EXCEPT ![f] = "none"]
  /\ version' = [version EXCEPT ![f] = 0]
  /\ contexts' = [contexts EXCEPT ![f] = [s \in I.context.slots |-> Zero]]
  /\ UNCHANGED <<arch, registers, current>>

\* marl_fiber_swap(from, to).
switchTo(f) ==
  /\ status[current] = "running" /\ f # current /\ status[f] # "none"
  /\ contexts' = [contexts EXCEPT ![current] =
                    [s \in DOMAIN I.store |-> registers[I.store[s]]] @@ @]
  /\ registers' = [r \in DOMAIN I.load |-> contexts[f][I.load[r]]] @@ registers
  /\ current' = f
  /\ UNCHANGED <<arch, status, version>>

\* The code of a fiber between two switches changes every register.
Compute ==
  /\ status[current] = "running" /\ version[current] < MaxVersion
  /\ version' = [version EXCEPT ![current] = @ + 1]
  /\ registers' = Computed(I.context, current, version'[current])
  /\ UNCHANGED <<arch, contexts, status, current>>

(* The entry of a new fiber.  The parameters of a 32 bit x86 call are on   *)
(* the stack, above the return address.                                    *)
Parameter(i) ==
  IF I.context.params = <<>>
  THEN x86_stack(current)[registers[I.context.sp][3] + 4 * i]
  ELSE registers[I.context.params[i]]

\* marl_fiber_trampoline() and OSFiber::run(): the fiber whose target is called.
marl_fiber_trampoline == IF Parameter(1) = Run THEN Parameter(2)[2] ELSE Main
ucontext_Main ==
  IF Parameter(1)[3] = 1 /\ Parameter(2) = <<"self", Parameter(1)[2], 2>>
  THEN Parameter(1)[2] ELSE Main
Entered ==
  LET pc == registers[I.context.pc]
  IN  CASE pc = Trampoline -> marl_fiber_trampoline
        [] pc = Run -> Parameter(1)[2]
        [] pc = <<"Target::Main", Main, 0>> -> ucontext_Main
        [] OTHER -> Main

\* The target of the fiber runs.
run ==
  /\ status[current] = "created"
  /\ status' = [status EXCEPT ![Entered] = "running"]
  /\ registers' = Computed(I.context, Entered, version[Entered])
  /\ UNCHANGED <<arch, contexts, current, version>>

Next ==
  \/ \E f \in Fibers : createFiber(f) \/ Destroy(f) \/ switchTo(f)
  \/ Compute \/ run

Spec == Init /\ [][Next]_vars

-----------------------------------------------------------------------------
(* Callee-saved registers that have a slot and are lost all the same: arm  *)
(* never stores v8 to v15, mips64 stores f31 in the slot of f30 and loads  *)
(* f31 from it, ppc64 stores the condition register and never loads it.    *)
NotKept ==
  CASE arch = "arm" -> Bank("v", 8..15) [] arch = "mips64" -> Bank("f", {30})
    [] arch = "ppc64" -> Named({"ccr"}) [] OTHER -> {}

(* A fiber that is switched back to finds its stack, its instruction       *)
(* pointer and every callee-saved register that has a slot, but for those  *)
(* in NotKept, as it left them, whatever the fibers in between did.  A new *)
(* fiber enters its own target, on its own stack, aligned as after a call. *)
(* The registers that belong to the thread never change.                   *)
RegistersKept ==
  LET c == I.context IN
  /\ status[current] = "running" =>
       \A r \in (c.callee \ NotKept) \cup {c.sp, c.pc} : registers[r] = Own(current)
  /\ status[current] = "created" =>
       /\ Entered = current
       /\ registers[c.sp][2] = current
       /\ registers[c.sp][3] \in 1..StackSize
       /\ (registers[c.sp][3] + c.pushed) % 16 = 0
  /\ \A r \in c.reserved : registers[r] = ThreadPointer
=============================================================================
