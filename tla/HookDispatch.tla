---------------------------- MODULE HookDispatch ----------------------------
(***************************************************************************)
(* The code generated around a handler (src/src/patcher.cpp): the          *)
(* dispatcher of a hooked address, the wrapper that moves registers into   *)
(* argument registers, and the wrapper of a new_cpp_func.  The code is     *)
(* built by operators that follow the functions that emit it, and run on   *)
(* a machine with the registers that matter: x0-x3, which a detour saves,  *)
(* x4 to x7, the other arguments, for the caller-saved ones it does not    *)
(* save, x16, which a far branch uses, x19 for the callee-saved ones, x29, *)
(* x30 and the stack.                                                      *)
(***************************************************************************)
EXTENDS Integers, Sequences

CONSTANTS Hooks,    \* what is called: its kind, its handlers, and on what
          EntrySp   \* the stack pointer when the hooked address is reached

Registers == 0 .. 7 \cup {16, 19, 29, 30}
CallerSaved == 0 .. 7 \cup {16}

\* A handler's registers, each whole (x) or its low half (w).
Operand == [register: Registers \ {30}, wide: BOOLEAN]
Hook == [kind: {"detour", "replace", "function"}, handlers: Seq(Seq(Operand)),
         macho: BOOLEAN, signed: BOOLEAN]

ASSUME DispatchAssumption ==
  /\ EntrySp \in Nat /\ EntrySp % 16 = 0 /\ EntrySp >= 48  \* the deepest frame
  /\ Hooks \subseteq Hook
  /\ \A h \in Hooks : h.handlers # <<>> /\ (h.kind = "function" => Len(h.handlers) = 1 /\ h.handlers[1] # <<>>)

VARIABLES hook, pc, x, sp, memory, called

vars == <<hook, pc, x, sp, memory, called>>

-----------------------------------------------------------------------------
(* Instructions: a pair stored or loaded at an offset from sp, which moves  *)
(* by `move' before a store and after a load; moves, branches, returns.     *)
Stp(a, b, at, move) == [op |-> "store", a |-> a, b |-> b, at |-> at, move |-> move]
Ldp(a, b, at, move) == [op |-> "load", a |-> a, b |-> b, at |-> at, move |-> move]
Mov(rd, rm, wide) == [op |-> "move", rd |-> rd, rm |-> rm, wide |-> wide]
Branch(link, to) == [op |-> "branch", link |-> link, to |-> to]
Ret == [op |-> "ret"]
Xpaclri == [op |-> "xpaclri"]

\* Where code runs: the dispatcher, a handler's wrapper, the handler, or the
\* code the hook was placed in.
At(place, n) == [in |-> place, n |-> n, at |-> 1]

SaveFrame == IF hook.macho THEN <<Xpaclri, Stp(29, 30, 0, -16)>> ELSE <<Stp(29, 30, 0, -16)>>
RestoreFrame == <<Ldp(29, 30, 0, 16)>>

SaveArgsShort == <<Stp(0, 1, 0, -24), Stp(2, 3, 16, 0)>>   \* mutant: 24 bytes
SaveArgs == <<Stp(0, 1, 0, -32), Stp(2, 3, 16, 0)>>
RestoreArgsHalf == <<Ldp(0, 1, 0, 32)>>   \* mutant: x2 and x3 are lost
RestoreArgs == <<Ldp(2, 3, 16, 0), Ldp(0, 1, 0, 32)>>

MovesWide(operands) == [i \in 1 .. (IF Len(operands) < 8 THEN Len(operands) ELSE 8) |->
                          Mov(i - 1, operands[i].register, TRUE)]   \* mutant: w as x

\* make_wrapper and make_cpp_func_wrapper move at most eight registers.
Moves(operands) == [i \in 1 .. (IF Len(operands) < 8 THEN Len(operands) ELSE 8) |->
                      Mov(i - 1, operands[i].register, operands[i].wide)]

Wrapper(n) == Moves(hook.handlers[n]) \o <<Branch(FALSE, At("handler", n))>>

FunctionWrapper ==
  <<Stp(29, 30, 0, -16)>> \o Moves(hook.handlers[1])
  \o <<Branch(TRUE, At("handler", 1)), Mov(1, 0, TRUE), Ldp(29, 30, 0, 16), Ret>>

\* A handler that asks for no registers is called without a wrapper.
Call(n) == LET entry == IF hook.handlers[n] = <<>> THEN At("handler", n) ELSE At("wrapper", n)
               call  == <<Branch(TRUE, entry)>>
           IN  IF hook.kind = "detour" THEN SaveArgs \o call \o RestoreArgs ELSE call

CallSize == Len(Call(1))
CallsReversed ==  \* mutant: the last handler first
  [i \in 1 .. CallSize * Len(hook.handlers) |->
     Call(Len(hook.handlers) - (i - 1) \div CallSize)[1 + ((i - 1) % CallSize)]]

\* The calls have one length, and follow one another.
Calls == [i \in 1 .. CallSize * Len(hook.handlers) |->
            Call(1 + (i - 1) \div CallSize)[1 + ((i - 1) % CallSize)]]

\* The relocated words and the branch back are the program's own.
Dispatcher ==
  SaveFrame \o Calls \o RestoreFrame
  \o IF hook.kind = "replace" THEN <<Ret>> ELSE <<Branch(FALSE, At("resumed", 0))>>

Code(place) == CASE place.in = "dispatcher" -> Dispatcher
                 [] place.in = "wrapper"    -> Wrapper(place.n)
                 [] place.in = "function"   -> FunctionWrapper
                 [] OTHER                   -> <<>>

-----------------------------------------------------------------------------
(* The machine.  A value is named by where it comes from.                   *)
Entry(r) == <<"entry", r>>
Half(value) == <<"half", value>>
Left(n, r) == <<"left by", n, r>>
Scratch == <<"scratch">>
Signed == <<"signed">>            \* x30 with a pointer authentication code
CodeAt(place) == <<"code", place>>

Now == Code(pc)[pc.at]
Fetch(op) == pc.at <= Len(Code(pc)) /\ Now.op = op
Step == pc' = [pc EXCEPT !.at = @ + 1]

Init ==
  /\ hook \in Hooks
  /\ pc = At(IF hook.kind = "function" THEN "function" ELSE "dispatcher", 1)
  /\ x = [r \in Registers |-> IF r = 30 /\ hook.signed THEN Signed ELSE Entry(r)]
  /\ sp = EntrySp
  /\ memory = [a \in 0 .. EntrySp + 32 |-> Entry("memory")]
  /\ called = <<>>

StripSignature ==
  /\ Fetch("xpaclri")
  /\ x' = [x EXCEPT ![30] = IF @ = Signed THEN Entry(30) ELSE @]
  /\ Step /\ UNCHANGED <<hook, sp, memory, called>>

Store ==
  /\ Fetch("store")
  /\ sp' = sp + Now.move
  /\ memory' = [memory EXCEPT ![sp' + Now.at] = x[Now.a], ![sp' + Now.at + 8] = x[Now.b]]
  /\ Step /\ UNCHANGED <<hook, x, called>>

Load ==
  /\ Fetch("load")
  /\ x' = [x EXCEPT ![Now.a] = memory[sp + Now.at], ![Now.b] = memory[sp + Now.at + 8]]
  /\ sp' = sp + Now.move
  /\ Step /\ UNCHANGED <<hook, memory, called>>

Move ==
  /\ Fetch("move")
  /\ x' = [x EXCEPT ![Now.rd] = IF Now.wide THEN x[Now.rm] ELSE Half(x[Now.rm])]
  /\ Step /\ UNCHANGED <<hook, sp, memory, called>>

\* make_branch_sequence: in reach, or through x16.
Jump ==
  /\ Fetch("branch")
  /\ \E far \in BOOLEAN :
       x' = [r \in Registers |->
               IF r = 16 /\ far THEN Scratch
               ELSE IF r = 30 /\ Now.link THEN CodeAt([pc EXCEPT !.at = @ + 1]) ELSE x[r]]
  /\ pc' = Now.to
  /\ UNCHANGED <<hook, sp, memory, called>>

ReturnTo(value) == IF value[1] = "code" THEN value[2] ELSE At("returned", 0)

Return ==
  /\ Fetch("ret")
  /\ pc' = ReturnTo(x[30])
  /\ UNCHANGED <<hook, x, sp, memory, called>>

\* A handler is compiled C++: it may change whatever the procedure call
\* standard lets it, and the stack below sp.
Handler ==
  /\ pc.in = "handler"
  /\ called' = Append(called, [n |-> pc.n, x |-> x])
  /\ x' = [r \in Registers |-> IF r \in CallerSaved THEN Left(pc.n, r) ELSE x[r]]
  /\ memory' = [a \in DOMAIN memory |-> IF a < sp THEN Left(pc.n, a) ELSE memory[a]]
  /\ pc' = ReturnTo(x[30])
  /\ UNCHANGED <<hook, sp>>

Next == StripSignature \/ Store \/ Load \/ Move \/ Jump \/ Return \/ Handler

Spec == Init /\ [][Next]_vars

-----------------------------------------------------------------------------
Over == pc.in \in {"resumed", "returned"}

TypeOK ==
  /\ hook \in Hooks
  /\ pc.in \in {"dispatcher", "wrapper", "function", "handler", "resumed", "returned"}
  /\ DOMAIN x = Registers
  /\ sp \in 0 .. EntrySp /\ sp % 16 = 0
  /\ DOMAIN memory = 0 .. EntrySp + 32
  /\ Len(called) <= Len(hook.handlers)

(* The handlers run once each, in the order they were declared, and the     *)
(* dispatcher ends the way its kind says.                                   *)
HandlersInOrder ==
  Over => /\ [n \in DOMAIN called |-> called[n].n] = [n \in DOMAIN hook.handlers |-> n]
          /\ pc.in = IF hook.kind = "detour" THEN "resumed" ELSE "returned"

\* Whether the i-th operand of the n-th handler still has, when the wrapper
\* moves it, the value it had at the hook: not the target of an earlier move,
\* and no victim of a branch or of the handlers before it.
Untouched(n, i) ==
  LET r == hook.handlers[n][i].register
  IN  /\ r \notin 0 .. i - 2 /\ r # 16
      /\ n = 1 \/ r \notin CallerSaved \/ (hook.kind = "detour" /\ r \in 0 .. 3)

Delivered(n, i) ==
  LET operand == hook.handlers[called[n].n][i]
      value   == Entry(operand.register)
  IN  called[n].x[i - 1] = IF operand.wide THEN value ELSE Half(value)

(* A handler gets the registers it asks for as they were at the hook, its   *)
(* own moves and the handlers before it permitting.                         *)
ArgumentsDelivered ==
  \A n \in DOMAIN called : \A i \in DOMAIN hook.handlers[called[n].n] :
    i <= 8 /\ Untouched(called[n].n, i) => Delivered(n, i)

\* The stack of the hooked code is as it was, in depth and in content.
StackUntouched == /\ sp = EntrySp
                  /\ \A a \in EntrySp .. EntrySp + 32 : memory[a] = Entry("memory")

\* After a detour the program goes on with what the dispatcher or a handler
\* must save as it was: x0 to x3, the callee-saved registers, the frame, the
\* return address and the stack; the arguments in x4 to x7 are not among it.
ResumesAsSaved ==
  pc.in = "resumed" => /\ \A r \in {0, 1, 2, 3, 19, 29} : x[r] = Entry(r)
                       /\ x[30] = IF hook.signed /\ ~hook.macho THEN Signed ELSE Entry(30)
                       /\ StackUntouched

\* A replacement and a new function return to their caller, with the
\* handler's result and everything the caller may rely on.
ReturnsToCaller ==
  pc.in = "returned" =>
    /\ \A r \in {19, 29} : x[r] = Entry(r)
    /\ x[30] \in {Entry(30), Signed} /\ StackUntouched
    /\ x[0] = Left(Len(hook.handlers), 0)
    /\ hook.kind = "function" => x[1] = x[0]

(* Whatever the handlers and the branches leave in the registers and on    *)
(* the stack, the hooked code goes on with x0 to x3, its callee-saved       *)
(* registers, frame, return address and stack, or its caller gets what the  *)
(* last handler returns, with the same kept.  A detour's other caller-saved *)
(* registers are left as the handlers leave them: see ResumesWithArguments. *)
SavedIsRestored == ResumesAsSaved /\ ReturnsToCaller

(* "Calls the handler, relocates overwritten instructions, then resumes the *)
(* original function." (docs/api-reference.md:9): the function that goes on *)
(* has the eight arguments it was called with.  The dispatcher saves four   *)
(* (src/src/patcher.cpp:84-98), and a handler may change the others.        *)
ResumesWithArguments == pc.in = "resumed" => \A r \in 0 .. 7 : x[r] = Entry(r)

(* "Register arguments are copied by a generated wrapper into normal        *)
(* AArch64 argument registers in declaration order"                         *)
(* (docs/api-reference.md:33): they are moved one after the other, and a    *)
(* move may overwrite the source of a later one.                            *)
ArgumentsCopied ==
  \A n \in DOMAIN called : \A i \in DOMAIN hook.handlers[called[n].n] : i <= 8 => Delivered(n, i)
=============================================================================
