------------------------- MODULE HookDispatchProofs -------------------------
(***************************************************************************)
(* The generated code around handlers leaves no trace, for any number of   *)
(* handlers with any operands: an assertion for each point of the code,    *)
(* and every instruction leads from one of them to the next.  The code is  *)
(* first computed, instruction by instruction, from the operators that     *)
(* emit it; then what each instruction does; then the steps.               *)
(***************************************************************************)
EXTENDS HookDispatch, SequenceTheorems, TLAPS

\* A sequence, of whatever.
IsCode(s) == Len(s) \in Nat /\ s = [i \in 1 .. Len(s) |-> s[i]]

-----------------------------------------------------------------------------
(* The points of the code.                                                  *)
N == Len(hook.handlers)
Detour == hook.kind = "detour"
Function == hook.kind = "function"
Count(n) == IF Len(hook.handlers[n]) < 8 THEN Len(hook.handlers[n]) ELSE 8

\* How many instructions come before the n-th call.
Frame == IF hook.macho THEN 2 ELSE 1
First(n) == Frame + (IF Detour THEN 5 * (n - 1) ELSE n - 1)

Place(in, n, at) == [in |-> in, n |-> n, at |-> at]
InDispatcher(at) == Place("dispatcher", 1, at)
InFunction(at) == Place("function", 1, at)

\* Where the n-th handler returns to.
ReturnPoint(n) == IF Function THEN InFunction(Count(1) + 3)
                  ELSE InDispatcher(First(n) + (IF Detour THEN 4 ELSE 2))

-----------------------------------------------------------------------------
(* What holds at some of them.                                              *)

\* The return address, at the hook and once its signature is stripped.
Raw == IF hook.signed THEN Signed ELSE Entry(30)
Link == IF hook.signed /\ (Function \/ ~hook.macho) THEN Signed ELSE Entry(30)

\* The registers that have what they had at the hook when the n-th handler is
\* about to be called.
Intact(n) == {r \in Registers \ {16, 30} :
                n = 1 \/ r \notin CallerSaved \/ (Detour /\ r \in 0 .. 3)}
Kept(n) == \A r \in Intact(n) : x[r] = Entry(r)

FrameSaved == memory[EntrySp - 16] = Entry(29) /\ memory[EntrySp - 8] = Link
ArgSaved(r) == memory[EntrySp - 48 + 8 * r] = Entry(r)
Result == hook.kind = "replace" /\ called # <<>> => x[0] = Left(Len(called), 0)

\* The stack and the calls made while the n-th handler is called.
Depth == IF Detour THEN EntrySp - 48 ELSE EntrySp - 16
Nested(n) == /\ n \in 1 .. N /\ Len(called) = n - 1
             /\ sp = Depth /\ FrameSaved
             /\ Detour => \A r \in 0 .. 3 : ArgSaved(r)

\* What the i-th operand of the n-th handler is to get, if it can.
Wanted(n, i) == LET operand == hook.handlers[n][i]
                IN  IF operand.wide THEN Entry(operand.register) ELSE Half(Entry(operand.register))

\* The operands before the j-th are moved.
Moved(n, j) ==
  /\ \A i \in 1 .. j - 1 : Untouched(n, i) => x[i - 1] = Wanted(n, i)
  /\ \A r \in Intact(n) : r \notin 0 .. j - 2 => x[r] = Entry(r)

-----------------------------------------------------------------------------
(* The assertions.                                                          *)
Entering == /\ pc.at \in 1 .. Frame /\ pc = InDispatcher(pc.at)
            /\ ~Function /\ sp = EntrySp /\ called = <<>> /\ Kept(1)
            /\ x[30] = IF pc.at = Frame THEN Link ELSE Raw

\* Before the n-th call, or behind the last.
Between(n) == /\ n \in 1 .. N + 1 /\ pc = InDispatcher(First(n) + 1) /\ ~Function
              /\ Len(called) = n - 1 /\ sp = EntrySp - 16 /\ FrameSaved
              /\ Kept(n) /\ Result

\* A detour saves the argument registers around each call.
HalfSaved(n) == /\ n \in 1 .. N /\ Detour /\ pc = InDispatcher(First(n) + 2)
                /\ Len(called) = n - 1 /\ sp = Depth /\ FrameSaved
                /\ ArgSaved(0) /\ ArgSaved(1) /\ Kept(n)
Calling(n) == Nested(n) /\ Detour /\ pc = InDispatcher(First(n) + 3) /\ Kept(n)
Handled(n) == /\ n \in 1 .. N /\ Detour /\ pc = ReturnPoint(n)
              /\ Len(called) = n /\ sp = Depth /\ FrameSaved
              /\ \A r \in 0 .. 3 : ArgSaved(r)
HalfRestored(n) == /\ n \in 1 .. N /\ Detour /\ pc = InDispatcher(First(n) + 5)
                   /\ Len(called) = n /\ sp = Depth /\ FrameSaved
                   /\ ArgSaved(0) /\ ArgSaved(1)
                   /\ x[2] = Entry(2) /\ x[3] = Entry(3)

Wrapping(n, j) == /\ Nested(n) /\ ~Function
                  /\ j \in 1 .. Count(n) + 1 /\ pc = Place("wrapper", n, j)
                  /\ x[30] = CodeAt(ReturnPoint(n)) /\ Moved(n, j)
Handling(n) == /\ Nested(n) /\ pc = Place("handler", n, 1)
               /\ x[30] = CodeAt(ReturnPoint(n)) /\ Moved(n, Count(n) + 1)

Leaving == /\ pc = InDispatcher(First(N + 1) + 2) /\ ~Function
           /\ Len(called) = N /\ sp = EntrySp /\ x[30] = Link
           /\ Detour => \A r \in 0 .. 3 : x[r] = Entry(r)
           /\ Result

FunctionEntering == /\ Function /\ pc = InFunction(1) /\ sp = EntrySp
                    /\ called = <<>> /\ Kept(1) /\ x[30] = Link
FunctionMoving(j) == /\ Nested(1) /\ Function /\ j \in 1 .. Count(1) + 1 /\ pc = InFunction(j + 1)
                     /\ Moved(1, j)
FunctionCalled == /\ Function /\ pc = InFunction(Count(1) + 3) /\ sp = EntrySp - 16
                  /\ FrameSaved /\ Len(called) = N /\ x[0] = Left(1, 0)
FunctionMoved == /\ Function /\ pc = InFunction(Count(1) + 4) /\ sp = EntrySp - 16
                 /\ FrameSaved /\ Len(called) = N /\ x[0] = Left(1, 0) /\ x[1] = x[0]
FunctionLeaving == /\ Function /\ pc = InFunction(Count(1) + 5) /\ sp = EntrySp
                   /\ Len(called) = N /\ x[30] = Link /\ x[0] = Left(1, 0) /\ x[1] = x[0]

Resumed == /\ Detour /\ pc = Place("resumed", 0, 1) /\ sp = EntrySp
           /\ Len(called) = N /\ x[30] = Link /\ \A r \in 0 .. 3 : x[r] = Entry(r)
Returned == /\ ~Detour /\ pc = Place("returned", 0, 1) /\ sp = EntrySp
            /\ Len(called) = N /\ x[30] = Link /\ x[0] = Left(N, 0)
            /\ Function => x[1] = x[0]

Somewhere ==
  \/ Entering \/ Leaving \/ Resumed \/ Returned
  \/ \E n \in 1 .. N + 1 : Between(n)
  \/ \E n \in 1 .. N : \/ HalfSaved(n) \/ Calling(n) \/ Handling(n) \/ Handled(n) \/ HalfRestored(n)
                       \/ \E j \in 1 .. Count(n) + 1 : Wrapping(n, j)
  \/ FunctionEntering \/ FunctionCalled \/ FunctionMoved \/ FunctionLeaving
  \/ \E j \in 1 .. Count(1) + 1 : FunctionMoving(j)

\* What was there before the hook, and the calls made.
Stack == \A a \in EntrySp .. EntrySp + 32 : memory[a] = Entry("memory")
CallOK(n) == /\ called[n].n = n
             /\ \A i \in 1 .. Count(n) : Untouched(n, i) => called[n].x[i - 1] = Wanted(n, i)
Always ==
  /\ hook \in Hooks
  /\ x = [r \in Registers |-> x[r]] /\ x[19] = Entry(19) /\ x[29] = Entry(29)
  /\ memory = [a \in 0 .. EntrySp + 32 |-> memory[a]] /\ Stack
  /\ IsCode(called) /\ \A n \in 1 .. Len(called) : CallOK(n)

IInv == Always /\ Somewhere

-----------------------------------------------------------------------------
(* The hooks and their code.                                                *)
\* A hook is of one of three kinds and has handlers, a new function one.
LEMMA HookFacts ==
  ASSUME hook \in Hooks
  PROVE  /\ hook.kind \in {"detour", "replace", "function"}
         /\ N \in Nat \ {0} /\ (Function => N = 1)
         /\ Frame \in 1 .. 2
         /\ \A n \in 1 .. N + 1 : First(n) \in Nat /\ First(n) >= Frame
<1>1. hook \in Hook /\ hook.handlers # <<>> /\ (Function => Len(hook.handlers) = 1)
  BY DispatchAssumption DEF Function
<1>2. hook.kind \in {"detour", "replace", "function"} /\ hook.handlers \in Seq(Seq(Operand))
  BY <1>1 DEF Hook
<1>3. N \in Nat \ {0}  BY <1>1, <1>2, EmptySeq DEF N
<1>4. Frame \in 1 .. 2  BY DEF Frame
<1>5. \A n \in 1 .. N + 1 : First(n) \in Nat /\ First(n) >= Frame  BY <1>3, <1>4 DEF First
<1> QED  BY <1>1, <1>2, <1>3, <1>4, <1>5 DEF N

\* At most eight operands are moved.
LEMMA Operands ==
  ASSUME hook \in Hooks, NEW n \in 1 .. N
  PROVE  /\ Count(n) \in Nat /\ Count(n) <= 8 /\ Count(n) <= Len(hook.handlers[n])
         /\ \A i \in 1 .. Count(n) : hook.handlers[n][i] \in Operand
         /\ hook.handlers[n] = <<>> => Count(n) = 0
         /\ Function => Count(n) >= 1
<1> DEFINE l == Len(hook.handlers[n])
<1>1. hook.handlers \in Seq(Seq(Operand)) /\ (Function => hook.handlers[1] # <<>> /\ Len(hook.handlers) = 1)
  BY DispatchAssumption DEF Hook, Function
<1>2. hook.handlers[n] \in Seq(Operand)  BY <1>1 DEF N
<1>3. l \in Nat /\ (hook.handlers[n] # <<>> => l >= 1)  BY <1>2, EmptySeq
<1>4. Count(n) = IF l < 8 THEN l ELSE 8  BY DEF Count
<1>5. Function => n = 1
  <2>1. Function => N = 1  BY <1>1 DEF N
  <2> QED  BY <2>1
<1>6. hook.handlers[n] = <<>> => l = 0  OBVIOUS
<1>7. \A i \in 1 .. l : hook.handlers[n][i] \in Operand  BY <1>2
<1> HIDE DEF l
<1>8. Count(n) \in Nat /\ Count(n) <= 8 /\ Count(n) <= l /\ (l = 0 => Count(n) = 0) /\ (l >= 1 => Count(n) >= 1)
  BY <1>3, <1>4
<1>9. \A i \in 1 .. Count(n) : hook.handlers[n][i] \in Operand  BY <1>3, <1>7, <1>8
<1>10. Function => Count(n) >= 1  BY <1>1, <1>3, <1>5, <1>8
<1> QED  BY <1>6, <1>8, <1>9, <1>10 DEF l

\* Sequences of whatever, and two of them one behind the other.
LEMMA SequenceIsCode == ASSUME NEW S, NEW s \in Seq(S)  PROVE IsCode(s)
BY DEF IsCode

\* The length and the elements of one sequence behind another.
LEMMA Appended ==
  ASSUME NEW s, NEW t, IsCode(s), IsCode(t)
  PROVE  /\ IsCode(s \o t) /\ Len(s \o t) = Len(s) + Len(t)
         /\ \A i \in 1 .. Len(s) : (s \o t)[i] = s[i]
         /\ \A i \in 1 .. Len(t) : (s \o t)[Len(s) + i] = t[i]
<1> DEFINE S == {s[i] : i \in 1 .. Len(s)} \cup {t[i] : i \in 1 .. Len(t)}
<1>1. s \in Seq(S) /\ t \in Seq(S)
  <2>1. s \in [1 .. Len(s) -> S] /\ t \in [1 .. Len(t) -> S]  BY DEF IsCode
  <2> HIDE DEF S
  <2> QED  BY <2>1 DEF IsCode
<1> HIDE DEF S
<1>2. /\ s \o t \in Seq(S) /\ Len(s \o t) = Len(s) + Len(t)
      /\ \A i \in 1 .. Len(s) + Len(t) : (s \o t)[i] = IF i <= Len(s) THEN s[i] ELSE t[i - Len(s)]
  BY <1>1, ConcatProperties
<1>3. IsCode(s \o t)  BY <1>2, SequenceIsCode
<1> QED  BY <1>2, <1>3 DEF IsCode

\* A sequence with one element more.
LEMMA AppendedOne ==
  ASSUME NEW s, IsCode(s), NEW e
  PROVE  /\ IsCode(Append(s, e)) /\ Len(Append(s, e)) = Len(s) + 1
         /\ \A i \in 1 .. Len(s) : Append(s, e)[i] = s[i]
         /\ Append(s, e)[Len(s) + 1] = e
<1> DEFINE S == {s[i] : i \in 1 .. Len(s)} \cup {e}
<1>1. s \in Seq(S) /\ e \in S
  <2>1. s \in [1 .. Len(s) -> S] /\ e \in S  BY DEF IsCode
  <2> HIDE DEF S
  <2> QED  BY <2>1 DEF IsCode
<1> HIDE DEF S
<1>2. /\ Append(s, e) \in Seq(S) /\ Len(Append(s, e)) = Len(s) + 1
      /\ \A i \in 1 .. Len(s) : Append(s, e)[i] = s[i]
      /\ Append(s, e)[Len(s) + 1] = e
  BY <1>1, AppendProperties
<1> QED  BY <1>2, SequenceIsCode

\* The sequences written out.
LEMMA Short ==
  /\ \A a : IsCode(<<a>>) /\ Len(<<a>>) = 1 /\ <<a>>[1] = a
  /\ \A a, b : IsCode(<<a, b>>) /\ Len(<<a, b>>) = 2 /\ <<a, b>>[1] = a /\ <<a, b>>[2] = b
  /\ \A a, b, c, d : /\ IsCode(<<a, b, c, d>>) /\ Len(<<a, b, c, d>>) = 4
                     /\ <<a, b, c, d>>[1] = a /\ <<a, b, c, d>>[2] = b
                     /\ <<a, b, c, d>>[3] = c /\ <<a, b, c, d>>[4] = d
BY DEF IsCode

\* A wrapper's moves: one for each of at most eight operands.
LEMMA MovesAre ==
  ASSUME hook \in Hooks, NEW n \in 1 .. N
  PROVE  LET moves == Moves(hook.handlers[n])
         IN  /\ IsCode(moves) /\ Len(moves) = Count(n)
             /\ \A i \in 1 .. Count(n) :
                  moves[i] = Mov(i - 1, hook.handlers[n][i].register, hook.handlers[n][i].wide)
<1> DEFINE m == Count(n)
           move(i) == Mov(i - 1, hook.handlers[n][i].register, hook.handlers[n][i].wide)
<1>1. m \in Nat  BY Operands
<1>2. Moves(hook.handlers[n]) = [i \in 1 .. m |-> move(i)]  BY DEF Moves, Count
<1> HIDE DEF m, move
<1>3. Len([i \in 1 .. m |-> move(i)]) = m  BY <1>1
<1>4. IsCode(Moves(hook.handlers[n])) /\ Len(Moves(hook.handlers[n])) = m
  BY <1>1, <1>2, <1>3 DEF IsCode
<1>5. \A i \in 1 .. m : Moves(hook.handlers[n])[i] = move(i)  BY <1>2
<1> QED  BY <1>4, <1>5 DEF m, move

\* The wrapper of a handler, instruction by instruction.
LEMMA WrapperCode ==
  ASSUME hook \in Hooks, NEW n \in 1 .. N
  PROVE  /\ Len(Wrapper(n)) = Count(n) + 1
         /\ \A i \in 1 .. Count(n) :
              Wrapper(n)[i] = Mov(i - 1, hook.handlers[n][i].register, hook.handlers[n][i].wide)
         /\ Wrapper(n)[Count(n) + 1] = Branch(FALSE, At("handler", n))
<1> DEFINE moves == Moves(hook.handlers[n])
           last == Branch(FALSE, At("handler", n))
<1>1. /\ IsCode(moves) /\ Len(moves) = Count(n)
      /\ \A i \in 1 .. Count(n) :
           moves[i] = Mov(i - 1, hook.handlers[n][i].register, hook.handlers[n][i].wide)
  BY MovesAre
<1>2. Wrapper(n) = moves \o <<last>>  BY DEF Wrapper
<1>3. Count(n) \in Nat  BY Operands
<1> HIDE DEF moves, last
<1>4. IsCode(<<last>>) /\ Len(<<last>>) = 1 /\ <<last>>[1] = last  BY Short
<1>5. /\ Len(moves \o <<last>>) = Len(moves) + 1
      /\ \A i \in 1 .. Len(moves) : (moves \o <<last>>)[i] = moves[i]
      /\ (moves \o <<last>>)[Len(moves) + 1] = last
  BY <1>1, <1>4, Appended
<1> QED  BY <1>1, <1>2, <1>3, <1>5 DEF last

\* The wrapper of a new function, instruction by instruction.
LEMMA FunctionCode ==
  ASSUME hook \in Hooks, Function
  PROVE  /\ Len(FunctionWrapper) = Count(1) + 5
         /\ FunctionWrapper[1] = Stp(29, 30, 0, -16)
         /\ \A i \in 1 .. Count(1) :
              FunctionWrapper[i + 1] = Mov(i - 1, hook.handlers[1][i].register, hook.handlers[1][i].wide)
         /\ FunctionWrapper[Count(1) + 2] = Branch(TRUE, At("handler", 1))
         /\ FunctionWrapper[Count(1) + 3] = Mov(1, 0, TRUE)
         /\ FunctionWrapper[Count(1) + 4] = Ldp(29, 30, 0, 16)
         /\ FunctionWrapper[Count(1) + 5] = Ret
<1> DEFINE moves == Moves(hook.handlers[1])
           first == Stp(29, 30, 0, -16)
           call == Branch(TRUE, At("handler", 1))
           copy == Mov(1, 0, TRUE)
           load == Ldp(29, 30, 0, 16)
           rest == <<call, copy, load, Ret>>
<1>1. N = 1 /\ 1 \in 1 .. N /\ Count(1) \in Nat  BY HookFacts, Operands
<1>2. /\ IsCode(moves) /\ Len(moves) = Count(1)
      /\ \A i \in 1 .. Count(1) :
           moves[i] = Mov(i - 1, hook.handlers[1][i].register, hook.handlers[1][i].wide)
  BY <1>1, MovesAre
<1>3. FunctionWrapper = <<first>> \o moves \o rest  BY DEF FunctionWrapper
<1> HIDE DEF moves, first, call, copy, load
<1>4. /\ IsCode(<<first>>) /\ Len(<<first>>) = 1 /\ <<first>>[1] = first
      /\ IsCode(rest) /\ Len(rest) = 4 /\ rest[1] = call /\ rest[2] = copy /\ rest[3] = load /\ rest[4] = Ret
  BY Short
<1> HIDE DEF rest
<1> DEFINE head == <<first>> \o moves
<1>5. /\ IsCode(head) /\ Len(head) = 1 + Count(1) /\ head[1] = first
      /\ \A i \in 1 .. Count(1) : head[i + 1] = moves[i]
  <2>1. /\ IsCode(head) /\ Len(head) = 1 + Len(moves)
        /\ \A i \in 1 .. 1 : head[i] = <<first>>[i]
        /\ \A i \in 1 .. Len(moves) : head[1 + i] = moves[i]
    BY <1>2, <1>4, Appended
  <2> QED  BY <1>1, <1>2, <1>4, <2>1
<1> HIDE DEF head
<1>11. IsCode(head) /\ IsCode(rest)  BY <1>4, <1>5
<1>6. /\ Len(head \o rest) = Len(head) + Len(rest)
      /\ \A i \in 1 .. Len(head) : (head \o rest)[i] = head[i]
      /\ \A i \in 1 .. Len(rest) : (head \o rest)[Len(head) + i] = rest[i]
  BY <1>11, Appended
<1>12. Len(rest) = 4 /\ Len(head) = 1 + Count(1)  BY <1>4, <1>5
<1>7. FunctionWrapper = head \o rest  BY <1>3 DEF head
<1>8. /\ (head \o rest)[Count(1) + 2] = rest[1] /\ (head \o rest)[Count(1) + 3] = rest[2]
      /\ (head \o rest)[Count(1) + 4] = rest[3] /\ (head \o rest)[Count(1) + 5] = rest[4]
  <2>3. 1 \in 1 .. Len(rest) /\ 2 \in 1 .. Len(rest) /\ 3 \in 1 .. Len(rest) /\ 4 \in 1 .. Len(rest)
    BY <1>12
  <2>1. /\ (head \o rest)[Len(head) + 1] = rest[1] /\ (head \o rest)[Len(head) + 2] = rest[2]
        /\ (head \o rest)[Len(head) + 3] = rest[3] /\ (head \o rest)[Len(head) + 4] = rest[4]
    BY <1>6, <2>3
  <2>2. /\ Len(head) + 1 = Count(1) + 2 /\ Len(head) + 2 = Count(1) + 3
        /\ Len(head) + 3 = Count(1) + 4 /\ Len(head) + 4 = Count(1) + 5
    BY <1>1, <1>12
  <2> QED  BY <2>1, <2>2
<1>9. (head \o rest)[1] = first /\ \A i \in 1 .. Count(1) : (head \o rest)[i + 1] = moves[i]
  BY <1>1, <1>5, <1>6
<1>10. Len(head \o rest) = Count(1) + 5  BY <1>1, <1>6, <1>12
<1> QED  BY <1>2, <1>4, <1>7, <1>8, <1>9, <1>10 DEF first, call, copy, load

\* The call of a handler: of its wrapper, if it has one.
Entered(n) == IF hook.handlers[n] = <<>> THEN At("handler", n) ELSE At("wrapper", n)

\* A call, instruction by instruction, in a detour and elsewhere.
LEMMA CallCode ==
  ASSUME hook \in Hooks, NEW n
  PROVE  /\ IsCode(Call(n)) /\ Len(Call(n)) = IF Detour THEN 5 ELSE 1
         /\ Detour => /\ Call(n)[1] = Stp(0, 1, 0, -32) /\ Call(n)[2] = Stp(2, 3, 16, 0)
                      /\ Call(n)[3] = Branch(TRUE, Entered(n))
                      /\ Call(n)[4] = Ldp(2, 3, 16, 0) /\ Call(n)[5] = Ldp(0, 1, 0, 32)
         /\ ~Detour => Call(n)[1] = Branch(TRUE, Entered(n))
<1> DEFINE call == Branch(TRUE, Entered(n))
<1>1. CASE ~Detour
  <2>1. Call(n) = <<call>>  BY <1>1 DEF Call, Detour, Entered
  <2> HIDE DEF call
  <2>2. IsCode(<<call>>) /\ Len(<<call>>) = 1 /\ <<call>>[1] = call  BY Short
  <2> QED  BY <1>1, <2>1, <2>2 DEF call
<1>2. CASE Detour
  <2> DEFINE a == Stp(0, 1, 0, -32)  b == Stp(2, 3, 16, 0)
             c == Ldp(2, 3, 16, 0)   d == Ldp(0, 1, 0, 32)
  <2>1. Call(n) = <<a, b>> \o <<call>> \o <<c, d>>
    BY <1>2 DEF Call, Detour, Entered, SaveArgs, RestoreArgs
  <2> HIDE DEF call, a, b, c, d
  <2>2. /\ IsCode(<<a, b>>) /\ Len(<<a, b>>) = 2 /\ <<a, b>>[1] = a /\ <<a, b>>[2] = b
        /\ IsCode(<<call>>) /\ Len(<<call>>) = 1 /\ <<call>>[1] = call
        /\ IsCode(<<c, d>>) /\ Len(<<c, d>>) = 2 /\ <<c, d>>[1] = c /\ <<c, d>>[2] = d
    BY Short
  <2> DEFINE head == <<a, b>> \o <<call>>
             tail == <<c, d>>
  <2>3. /\ IsCode(head) /\ Len(head) = 3 /\ head[1] = a /\ head[2] = b /\ head[3] = call
    <3>1. /\ IsCode(head) /\ Len(head) = Len(<<a, b>>) + Len(<<call>>)
          /\ \A i \in 1 .. Len(<<a, b>>) : head[i] = <<a, b>>[i]
          /\ \A i \in 1 .. Len(<<call>>) : head[Len(<<a, b>>) + i] = <<call>>[i]
      BY <2>2, Appended
    <3>2. head[2 + 1] = <<call>>[1]  BY <2>2, <3>1
    <3> QED  BY <2>2, <3>1, <3>2
  <2>4. /\ IsCode(tail) /\ Len(tail) = 2 /\ tail[1] = c /\ tail[2] = d
        /\ Call(n) = head \o tail
    BY <2>1, <2>2
  <2> HIDE DEF head, tail
  <2>8. IsCode(head) /\ IsCode(tail)  BY <2>3, <2>4
  <2>5. /\ IsCode(head \o tail) /\ Len(head \o tail) = Len(head) + Len(tail)
        /\ \A i \in 1 .. Len(head) : (head \o tail)[i] = head[i]
        /\ \A i \in 1 .. Len(tail) : (head \o tail)[Len(head) + i] = tail[i]
    BY <2>8, Appended
  <2>6. (head \o tail)[3 + 1] = tail[1] /\ (head \o tail)[3 + 2] = tail[2]  BY <2>3, <2>4, <2>5
  <2>7. (head \o tail)[1] = a /\ (head \o tail)[2] = b /\ (head \o tail)[3] = call  BY <2>3, <2>5
  <2> QED  BY <1>2, <2>3, <2>4, <2>5, <2>6, <2>7 DEF call, a, b, c, d
<1> QED  BY <1>1, <1>2

\* The start of a dispatcher: on Mach-O it strips x30 of its signature.
LEMMA FrameCode ==
  ASSUME hook \in Hooks
  PROVE  /\ IsCode(SaveFrame) /\ Len(SaveFrame) = Frame
         /\ SaveFrame[Frame] = Stp(29, 30, 0, -16)
         /\ hook.macho => SaveFrame[1] = Xpaclri
<1> DEFINE save == Stp(29, 30, 0, -16)
<1>1. SaveFrame = IF hook.macho THEN <<Xpaclri, save>> ELSE <<save>>  BY DEF SaveFrame
<1> HIDE DEF save
<1>2. CASE hook.macho
  <2>1. SaveFrame = <<Xpaclri, save>> /\ Frame = 2  BY <1>1, <1>2 DEF Frame
  <2> QED  BY <1>2, <2>1, Short DEF save
<1>3. CASE ~hook.macho
  <2>1. SaveFrame = <<save>> /\ Frame = 1  BY <1>1, <1>3 DEF Frame
  <2> QED  BY <1>3, <2>1, Short DEF save
<1> QED  BY <1>2, <1>3

\* The o-th instruction of the n-th call.
LEMMA CallsAre ==
  ASSUME hook \in Hooks
  PROVE  LET size == IF Detour THEN 5 ELSE 1
         IN  /\ IsCode(Calls) /\ Len(Calls) = size * N
             /\ \A n \in 1 .. N : \A o \in 1 .. size : Calls[size * (n - 1) + o] = Call(n)[o]
<1>1. CallSize = IF Detour THEN 5 ELSE 1  BY CallCode DEF CallSize
<1>2. N \in Nat \ {0}  BY HookFacts
<1>3. CASE Detour
  <2>1. Calls = [i \in 1 .. 5 * N |-> Call(1 + (i - 1) \div 5)[1 + ((i - 1) % 5)]]
    BY <1>1, <1>3 DEF Calls, N
  <2>2. 5 * N \in Nat  BY <1>2
  <2>3. IsCode(Calls) /\ Len(Calls) = 5 * N  BY <2>1, <2>2 DEF IsCode
  <2>4. ASSUME NEW n \in 1 .. N, NEW o \in 1 .. 5  PROVE Calls[5 * (n - 1) + o] = Call(n)[o]
    <3> DEFINE i == 5 * (n - 1) + o
    <3>1. i \in 1 .. 5 * N /\ (i - 1) \div 5 = n - 1 /\ (i - 1) % 5 = o - 1  BY <1>2
    <3> HIDE DEF i
    <3>2. Calls[i] = Call(1 + (i - 1) \div 5)[1 + ((i - 1) % 5)]  BY <2>1, <3>1
    <3>3. 1 + (i - 1) \div 5 = n /\ 1 + ((i - 1) % 5) = o  BY <3>1
    <3> QED  BY <3>2, <3>3 DEF i
  <2> QED  BY <1>3, <2>3, <2>4
<1>4. CASE ~Detour
  <2>1. Calls = [i \in 1 .. 1 * N |-> Call(1 + (i - 1) \div 1)[1 + ((i - 1) % 1)]]
    BY <1>1, <1>4 DEF Calls, N
  <2>2. 1 * N \in Nat  BY <1>2
  <2>3. IsCode(Calls) /\ Len(Calls) = 1 * N  BY <2>1, <2>2 DEF IsCode
  <2>4. ASSUME NEW n \in 1 .. N, NEW o \in 1 .. 1  PROVE Calls[1 * (n - 1) + o] = Call(n)[o]
    <3> DEFINE i == 1 * (n - 1) + o
    <3>1. i \in 1 .. 1 * N /\ (i - 1) \div 1 = n - 1 /\ (i - 1) % 1 = o - 1  BY <1>2
    <3> HIDE DEF i
    <3>2. Calls[i] = Call(1 + (i - 1) \div 1)[1 + ((i - 1) % 1)]  BY <2>1, <3>1
    <3>3. 1 + (i - 1) \div 1 = n /\ 1 + ((i - 1) % 1) = o  BY <3>1
    <3> QED  BY <3>2, <3>3 DEF i
  <2> QED  BY <1>4, <2>3, <2>4
<1> QED  BY <1>3, <1>4

\* How a dispatcher ends.
Last == IF hook.kind = "replace" THEN Ret ELSE Branch(FALSE, At("resumed", 0))

\* The dispatcher, instruction by instruction.
LEMMA DispatcherCode ==
  ASSUME hook \in Hooks
  PROVE  /\ \A i \in 1 .. Frame : Dispatcher[i] = SaveFrame[i]
         /\ \A n \in 1 .. N : \A o \in 1 .. (IF Detour THEN 5 ELSE 1) :
              Dispatcher[First(n) + o] = Call(n)[o]
         /\ Dispatcher[First(N + 1) + 1] = Ldp(29, 30, 0, 16)
         /\ Dispatcher[First(N + 1) + 2] = Last
<1> DEFINE size == IF Detour THEN 5 ELSE 1
           load == Ldp(29, 30, 0, 16)
           a == SaveFrame
           b == Calls
           c == <<load>>
           d == <<Last>>
<1>1. Dispatcher = ((a \o b) \o c) \o d  BY DEF Dispatcher, RestoreFrame, Last
<1>2. IsCode(a) /\ Len(a) = Frame  BY FrameCode
<1>3. /\ IsCode(b) /\ Len(b) = size * N
      /\ \A n \in 1 .. N : \A o \in 1 .. size : b[size * (n - 1) + o] = Call(n)[o]
  BY CallsAre
<1>4. N \in Nat \ {0} /\ Frame \in 1 .. 2  BY HookFacts
<1> HIDE DEF load
<1>5. IsCode(c) /\ Len(c) = 1 /\ c[1] = load  BY Short
<1>6. IsCode(d) /\ Len(d) = 1 /\ d[1] = Last  BY Short
<1> HIDE DEF a, b, c, d
<1> DEFINE ab == a \o b
           abc == ab \o c
<1>7. IsCode(a) /\ IsCode(b)  BY <1>2, <1>3
<1>8. /\ IsCode(ab) /\ Len(ab) = Len(a) + Len(b)
      /\ \A i \in 1 .. Len(a) : ab[i] = a[i]
      /\ \A i \in 1 .. Len(b) : ab[Len(a) + i] = b[i]
  BY <1>7, Appended
<1> HIDE DEF ab
<1>9. IsCode(ab) /\ IsCode(c)  BY <1>5, <1>8
<1>10. /\ IsCode(abc) /\ Len(abc) = Len(ab) + Len(c)
       /\ \A i \in 1 .. Len(ab) : abc[i] = ab[i]
       /\ \A i \in 1 .. Len(c) : abc[Len(ab) + i] = c[i]
  BY <1>9, Appended
<1> HIDE DEF abc
<1>11. IsCode(abc) /\ IsCode(d)  BY <1>6, <1>10
<1>12. /\ \A i \in 1 .. Len(abc) : (abc \o d)[i] = abc[i]
       /\ \A i \in 1 .. Len(d) : (abc \o d)[Len(abc) + i] = d[i]
  BY <1>11, Appended
<1>13. Dispatcher = abc \o d  BY <1>1 DEF ab, abc
<1>14. size * N \in Nat /\ (\A n \in 1 .. N : \A o \in 1 .. size : size * (n - 1) + o \in 1 .. size * N)
       /\ \A n \in 1 .. N + 1 : First(n) = Frame + size * (n - 1)
  <2>1. CASE Detour  BY <1>4, <2>1 DEF First
  <2>2. CASE ~Detour  BY <1>4, <2>2 DEF First
  <2> QED  BY <2>1, <2>2
<1> HIDE DEF size
<1>15. Len(a) = Frame /\ Len(b) = size * N /\ Len(ab) = Frame + size * N
       /\ Len(abc) = Frame + size * N + 1 /\ First(N + 1) = Frame + size * N
  BY <1>2, <1>3, <1>4, <1>5, <1>8, <1>10, <1>14
<1> DEFINE whole == Frame + size * N
<1>16. whole \in Nat /\ whole >= Frame  BY <1>4, <1>14
<1>17. \A i \in 1 .. whole : Dispatcher[i] = ab[i]
  <2> HIDE DEF whole
  <2>1. \A i \in 1 .. whole : i \in 1 .. Len(abc) /\ i \in 1 .. Len(ab)  BY <1>15, <1>16 DEF whole
  <2> QED  BY <1>10, <1>12, <1>13, <2>1
<1>18. \A i \in 1 .. Frame : Dispatcher[i] = a[i]
  <2>1. \A i \in 1 .. Frame : i \in 1 .. whole /\ i \in 1 .. Len(a)  BY <1>4, <1>15, <1>16
  <2> HIDE DEF whole
  <2> QED  BY <1>8, <1>17, <2>1
<1>19. ASSUME NEW n \in 1 .. N, NEW o \in 1 .. size
       PROVE Dispatcher[First(n) + o] = Call(n)[o]
  <2> DEFINE i == size * (n - 1) + o
  <2>1. i \in 1 .. Len(b) /\ i \in 1 .. size * N /\ b[i] = Call(n)[o]  BY <1>3, <1>14, <1>15
  <2>2. First(n) + o = Frame + i
    <3>1. First(n) = Frame + size * (n - 1)  BY <1>14, <1>4
    <3>2. size \in {1, 5}  BY DEF size
    <3> QED  BY <1>4, <3>1, <3>2
  <2> HIDE DEF i
  <2>3. Frame + i \in 1 .. whole  BY <1>4, <1>14, <2>1
  <2>4. ab[Len(a) + i] = b[i]  BY <1>8, <2>1
  <2>5. Dispatcher[Frame + i] = ab[Frame + i]  BY <1>17, <2>3
  <2> QED  BY <1>15, <2>1, <2>2, <2>4, <2>5
<1>20. Dispatcher[whole + 1] = load
  <2>1. abc[Len(ab) + 1] = c[1]  BY <1>5, <1>10
  <2>2. whole + 1 \in 1 .. Len(abc) /\ whole = Len(ab)  BY <1>15, <1>16
  <2> HIDE DEF whole
  <2> QED  BY <1>5, <1>12, <1>13, <2>1, <2>2
<1>21. Dispatcher[whole + 2] = Last
  <2>1. (abc \o d)[Len(abc) + 1] = d[1]  BY <1>6, <1>12
  <2>2. Len(abc) + 1 = whole + 2  BY <1>15, <1>16
  <2> HIDE DEF whole
  <2> QED  BY <1>6, <1>13, <2>1, <2>2
<1>22. First(N + 1) = whole  BY <1>15
<1> HIDE DEF whole
<1> QED  BY <1>18, <1>19, <1>20, <1>21, <1>22 DEF a, size, load

\* The instruction at a point of the code.
LEMMA Fetched ==
  /\ \A at : pc = InDispatcher(at) => pc.in # "handler" /\ Now = Dispatcher[at]
  /\ \A n, at : pc = Place("wrapper", n, at) => pc.in # "handler" /\ Now = Wrapper(n)[at]
  /\ \A at : pc = InFunction(at) => pc.in # "handler" /\ Now = FunctionWrapper[at]
<1>1. \A at : pc = InDispatcher(at) => pc.in # "handler" /\ Now = Dispatcher[at]
  BY DEF InDispatcher, Place, Now, Code
<1>2. \A n, at : pc = Place("wrapper", n, at) => pc.in # "handler" /\ Now = Wrapper(n)[at]
  BY DEF Place, Now, Code
<1>3. \A at : pc = InFunction(at) => pc.in # "handler" /\ Now = FunctionWrapper[at]
  BY DEF InFunction, Place, Now, Code
<1> QED  BY <1>1, <1>2, <1>3

-----------------------------------------------------------------------------
(* The machine.                                                             *)

\* No instruction changes the hook, nor what is built from it.
LEMMA HookIsFixed ==
  /\ Next => hook' = hook
  /\ hook' = hook => /\ N' = N /\ Detour' = Detour /\ Function' = Function /\ Frame' = Frame
                     /\ Link' = Link /\ Raw' = Raw /\ Depth' = Depth
                     /\ \A n : /\ Count(n)' = Count(n) /\ First(n)' = First(n)
                               /\ ReturnPoint(n)' = ReturnPoint(n) /\ Intact(n)' = Intact(n)
                     /\ \A n, i : Untouched(n, i)' = Untouched(n, i) /\ Wanted(n, i)' = Wanted(n, i)
<1>1. Next => hook' = hook
  BY DEF Next, StripSignature, Store, Load, Move, Jump, Return, Handler
<1>2. ASSUME hook' = hook
      PROVE /\ N' = N /\ Detour' = Detour /\ Function' = Function /\ Frame' = Frame
            /\ Link' = Link /\ Raw' = Raw /\ Depth' = Depth
  BY <1>2 DEF N, Detour, Function, Frame, Link, Raw, Depth
<1>3. ASSUME hook' = hook, NEW n
      PROVE /\ Count(n)' = Count(n) /\ First(n)' = First(n)
            /\ ReturnPoint(n)' = ReturnPoint(n) /\ Intact(n)' = Intact(n)
  BY <1>3 DEF Count, First, ReturnPoint, Intact, Detour, Function, Frame
<1>4. ASSUME hook' = hook, NEW n, NEW i
      PROVE Untouched(n, i)' = Untouched(n, i) /\ Wanted(n, i)' = Wanted(n, i)
  BY <1>4 DEF Untouched, Wanted
<1> QED  BY <1>1, <1>2, <1>3, <1>4

\* What keeps Always.
Shape == /\ x = [r \in Registers |-> x[r]] /\ x[19] = Entry(19) /\ x[29] = Entry(29)
         /\ memory = [a \in 0 .. EntrySp + 32 |-> memory[a]] /\ Stack

\* A step that makes no call and keeps the shape keeps Always.
LEMMA AlwaysKept == ASSUME Always, hook' = hook, called' = called, Shape'  PROVE Always'
<1>1. \A n : CallOK(n)' = CallOK(n)  BY HookIsFixed DEF CallOK
<1> QED  BY <1>1 DEF Always, Shape

\* The instruction decides which action is taken.
LEMMA OneAction ==
  ASSUME Next, pc.in # "handler"
  PROVE  /\ Now.op = "xpaclri" => StripSignature
         /\ Now.op = "store" => Store
         /\ Now.op = "load" => Load
         /\ Now.op = "move" => Move
         /\ Now.op = "branch" => Jump
         /\ Now.op = "ret" => Return
<1>1. /\ StripSignature => Now.op = "xpaclri"
      /\ Store => Now.op = "store"
      /\ Load => Now.op = "load"
      /\ Move => Now.op = "move"
      /\ Jump => Now.op = "branch"
      /\ Return => Now.op = "ret"
      /\ ~Handler
  BY DEF StripSignature, Store, Load, Move, Jump, Return, Handler, Fetch
<1>2. StripSignature \/ Store \/ Load \/ Move \/ Jump \/ Return  BY <1>1 DEF Next
<1> QED  BY <1>1, <1>2

\* What each instruction does: xpaclri.
LEMMA Stripping ==
  ASSUME Always, Next, pc.in # "handler", Now = Xpaclri
  PROVE  /\ Always' /\ hook' = hook /\ called' = called /\ sp' = sp /\ memory' = memory
         /\ x'[30] = IF x[30] = Signed THEN Entry(30) ELSE x[30]
         /\ \A r \in Registers \ {30} : x'[r] = x[r]
         /\ pc' = [pc EXCEPT !.at = @ + 1]
<1>1. StripSignature  BY OneAction DEF Xpaclri
<1>2. /\ hook' = hook /\ called' = called /\ sp' = sp /\ memory' = memory
      /\ pc' = [pc EXCEPT !.at = @ + 1]
      /\ x' = [x EXCEPT ![30] = IF @ = Signed THEN Entry(30) ELSE @]
  BY <1>1 DEF StripSignature, Step
<1>3. /\ x'[30] = IF x[30] = Signed THEN Entry(30) ELSE x[30]
      /\ \A r \in Registers \ {30} : x'[r] = x[r]
      /\ x' = [r \in Registers |-> x'[r]]
  BY <1>2 DEF Always, Registers
<1>4. Always'  BY <1>2, <1>3, AlwaysKept DEF Always, Shape, Registers, Stack
<1> QED  BY <1>2, <1>3, <1>4

\* A pair is stored below the hooked code's stack.
LEMMA Storing ==
  ASSUME Always, Next, pc.in # "handler",
         NEW a \in Registers, NEW b \in Registers, NEW at \in Int, NEW move \in Int,
         Now = Stp(a, b, at, move), sp \in Nat,
         sp + move + at \in Nat, sp + move + at + 16 <= EntrySp
  PROVE  /\ Always' /\ hook' = hook /\ called' = called /\ x' = x /\ sp' = sp + move
         /\ memory'[sp + move + at] = x[a] /\ memory'[sp + move + at + 8] = x[b]
         /\ \A c \in 0 .. EntrySp + 32 :
              c \notin {sp + move + at, sp + move + at + 8} => memory'[c] = memory[c]
         /\ pc' = [pc EXCEPT !.at = @ + 1]
<1>1. Store  BY OneAction DEF Stp
<1>2. Now.a = a /\ Now.b = b /\ Now.at = at /\ Now.move = move  BY DEF Stp
<1> DEFINE to == sp + move + at
<1>3. /\ hook' = hook /\ called' = called /\ x' = x /\ sp' = sp + move
      /\ pc' = [pc EXCEPT !.at = @ + 1]
      /\ memory' = [memory EXCEPT ![to] = x[a], ![to + 8] = x[b]]
  BY <1>1, <1>2 DEF Store, Step
<1>4. EntrySp \in Nat  BY DispatchAssumption
<1>5. to \in Nat /\ to + 16 <= EntrySp  OBVIOUS
<1> HIDE DEF to
<1>6. memory = [c \in 0 .. EntrySp + 32 |-> memory[c]]  BY DEF Always
<1>7. /\ memory' = [c \in 0 .. EntrySp + 32 |-> memory'[c]]
      /\ memory'[to] = x[a] /\ memory'[to + 8] = x[b]
      /\ \A c \in 0 .. EntrySp + 32 : c \notin {to, to + 8} => memory'[c] = memory[c]
  <2>1. {to, to + 8} \subseteq 0 .. EntrySp + 32 /\ to # to + 8  BY <1>4, <1>5
  <2> DEFINE D == 0 .. EntrySp + 32  next == to + 8  v == x[a]  w == x[b]
  <2>2. /\ memory = [c \in D |-> memory[c]] /\ memory' = [memory EXCEPT ![to] = v, ![next] = w]
        /\ to \in D /\ next \in D /\ to # next
    BY <1>3, <1>6, <2>1
  <2> HIDE DEF D, next, v, w
  <2>3. /\ memory' = [c \in D |-> memory'[c]] /\ memory'[to] = v /\ memory'[next] = w
        /\ \A c \in D : c \notin {to, next} => memory'[c] = memory[c]
    BY <2>2
  <2> QED  BY <2>3 DEF D, next, v, w
<1>8. Stack'
  <2>1. \A c \in EntrySp .. EntrySp + 32 : c \in 0 .. EntrySp + 32 /\ c \notin {to, to + 8}
    BY <1>4, <1>5
  <2> QED  BY <1>7, <2>1 DEF Always, Stack
<1>9. Always'  BY <1>3, <1>7, <1>8, AlwaysKept DEF Always, Shape
<1> QED  BY <1>3, <1>7, <1>9 DEF to

\* A pair is loaded; x29 only with its value at the hook.
LEMMA Loading ==
  ASSUME Always, Next, pc.in # "handler",
         NEW a \in Registers \ {19}, NEW b \in Registers \ {19, 29, a}, NEW at \in Int, NEW move \in Int,
         Now = Ldp(a, b, at, move),
         a = 29 => memory[sp + at] = Entry(29)
  PROVE  /\ Always' /\ hook' = hook /\ called' = called /\ memory' = memory /\ sp' = sp + move
         /\ x'[a] = memory[sp + at] /\ x'[b] = memory[sp + at + 8]
         /\ \A r \in Registers \ {a, b} : x'[r] = x[r]
         /\ pc' = [pc EXCEPT !.at = @ + 1]
<1>1. Load  BY OneAction DEF Ldp
<1>2. Now.a = a /\ Now.b = b /\ Now.at = at /\ Now.move = move  BY DEF Ldp
<1> DEFINE v == memory[sp + at]  w == memory[sp + at + 8]
<1>3. /\ hook' = hook /\ called' = called /\ memory' = memory /\ sp' = sp + move
      /\ pc' = [pc EXCEPT !.at = @ + 1]
      /\ x' = [x EXCEPT ![a] = v, ![b] = w]
  BY <1>1, <1>2 DEF Load, Step
<1>4. a = 29 => v = Entry(29)  OBVIOUS
<1> HIDE DEF v, w
<1>5. /\ x'[a] = v /\ x'[b] = w /\ \A r \in Registers \ {a, b} : x'[r] = x[r]
      /\ x' = [r \in Registers |-> x'[r]]
  BY <1>3 DEF Always
<1>6. x'[19] = Entry(19) /\ x'[29] = Entry(29)
  BY <1>4, <1>5 DEF Always, Registers
<1>7. Always'  BY <1>3, <1>5, <1>6, AlwaysKept DEF Always, Shape, Stack
<1> QED  BY <1>3, <1>5, <1>7 DEF v, w

\* A register is moved to one of the argument registers.
LEMMA Moving ==
  ASSUME Always, Next, pc.in # "handler",
         NEW rd \in 0 .. 7, NEW rm, NEW wide, Now = Mov(rd, rm, wide)
  PROVE  /\ Always' /\ hook' = hook /\ called' = called /\ memory' = memory /\ sp' = sp
         /\ x'[rd] = IF wide THEN x[rm] ELSE Half(x[rm])
         /\ \A r \in Registers \ {rd} : x'[r] = x[r]
         /\ pc' = [pc EXCEPT !.at = @ + 1]
<1>1. Move  BY OneAction DEF Mov
<1>2. Now.rd = rd /\ Now.rm = rm /\ Now.wide = wide  BY DEF Mov
<1> DEFINE v == IF wide THEN x[rm] ELSE Half(x[rm])
<1>3. /\ hook' = hook /\ called' = called /\ memory' = memory /\ sp' = sp
      /\ pc' = [pc EXCEPT !.at = @ + 1]
      /\ x' = [x EXCEPT ![rd] = v]
  BY <1>1, <1>2 DEF Move, Step
<1> HIDE DEF v
<1>4. rd \in Registers /\ rd \notin {19, 29}  BY DEF Registers
<1>5. /\ x'[rd] = v /\ \A r \in Registers \ {rd} : x'[r] = x[r]
      /\ x' = [r \in Registers |-> x'[r]]
  BY <1>3, <1>4 DEF Always
<1>6. x'[19] = Entry(19) /\ x'[29] = Entry(29)
  BY <1>4, <1>5 DEF Always, Registers
<1>7. Always'  BY <1>3, <1>5, <1>6, AlwaysKept DEF Always, Shape, Stack
<1> QED  BY <1>3, <1>5, <1>7 DEF v

\* A branch may use x16, and x30 if it links.
LEMMA Jumping ==
  ASSUME Always, Next, pc.in # "handler", NEW link, NEW to, Now = Branch(link, to)
  PROVE  /\ Always' /\ hook' = hook /\ called' = called /\ memory' = memory /\ sp' = sp
         /\ link => x'[30] = CodeAt([pc EXCEPT !.at = @ + 1])
         /\ ~link => x'[30] = x[30]
         /\ \A r \in Registers \ {16, 30} : x'[r] = x[r]
         /\ pc' = to
<1>1. Jump  BY OneAction DEF Branch
<1>2. (Now.link <=> link) /\ Now.to = to  BY DEF Branch
<1> DEFINE back == CodeAt([pc EXCEPT !.at = @ + 1])
<1>3. PICK far \in BOOLEAN :
        x' = [r \in Registers |->
                IF r = 16 /\ far THEN Scratch ELSE IF r = 30 /\ Now.link THEN back ELSE x[r]]
  BY <1>1 DEF Jump
<1>4. hook' = hook /\ called' = called /\ memory' = memory /\ sp' = sp /\ pc' = to
  BY <1>1, <1>2 DEF Jump
<1> HIDE DEF back
<1>5. /\ x'[30] = IF Now.link THEN back ELSE x[30]
      /\ \A r \in Registers \ {16, 30} : x'[r] = x[r]
      /\ x' = [r \in Registers |-> x'[r]]
  BY <1>3 DEF Registers
<1>6. x'[19] = Entry(19) /\ x'[29] = Entry(29)
  <2>1. x[19] = Entry(19) /\ x[29] = Entry(29)  BY DEF Always
  <2>2. \A r \in Registers \ {16, 30} : x'[r] = x[r]  BY <1>5
  <2>3. {19, 29} \subseteq Registers \ {16, 30}  BY DEF Registers
  <2> QED  BY <2>1, <2>2, <2>3
<1>7. Always'  BY <1>4, <1>5, <1>6, AlwaysKept DEF Always, Shape, Stack
<1> QED  BY <1>2, <1>4, <1>5, <1>7 DEF back

\* A return changes nothing but where the program is.
LEMMA Returning ==
  ASSUME Always, Next, pc.in # "handler", Now = Ret
  PROVE  /\ Always' /\ hook' = hook /\ called' = called /\ memory' = memory /\ sp' = sp
         /\ x' = x /\ pc' = ReturnTo(x[30])
<1>1. Return  BY OneAction DEF Ret
<1>2. /\ hook' = hook /\ called' = called /\ memory' = memory /\ sp' = sp
      /\ x' = x /\ pc' = ReturnTo(x[30])
  BY <1>1 DEF Return
<1> QED  BY <1>2, AlwaysKept DEF Always, Shape, Stack

\* The next instruction.
LEMMA Advanced ==
  ASSUME NEW in, NEW n, NEW at, pc = Place(in, n, at)
  PROVE  [pc EXCEPT !.at = @ + 1] = Place(in, n, at + 1)
BY DEF Place

\* The stack is deep enough for a detour's frame and its arguments.
LEMMA EntryStack == EntrySp \in Nat /\ EntrySp >= 48
BY DispatchAssumption

\* The frame is saved below the hooked code's stack.
LEMMA SavingFrame ==
  ASSUME Always, Next, pc.in # "handler", Now = Stp(29, 30, 0, -16), sp = EntrySp
  PROVE  /\ Always' /\ called' = called /\ x' = x /\ sp' = EntrySp - 16
         /\ memory'[EntrySp - 16] = x[29] /\ memory'[EntrySp - 8] = x[30]
         /\ pc' = [pc EXCEPT !.at = @ + 1]
<1> DEFINE at == 0  move == -16
<1>1. /\ Now = Stp(29, 30, at, move) /\ at \in Int /\ move \in Int /\ sp \in Nat
      /\ sp + move + at \in Nat /\ sp + move + at + 16 <= EntrySp
  BY EntryStack
<1>2. 29 \in Registers /\ 30 \in Registers  BY DEF Registers
<1> HIDE DEF at, move
<1>3. /\ Always' /\ called' = called /\ x' = x /\ sp' = sp + move
      /\ memory'[sp + move + at] = x[29] /\ memory'[sp + move + at + 8] = x[30]
      /\ pc' = [pc EXCEPT !.at = @ + 1]
  BY <1>1, <1>2, Storing
<1>4. sp + move = EntrySp - 16 /\ sp + move + at = EntrySp - 16 /\ sp + move + at + 8 = EntrySp - 8
  BY EntryStack DEF at, move
<1> QED  BY <1>3, <1>4

\* The frame is restored, and with it the return address.
LEMMA LoadingFrame ==
  ASSUME Always, Next, pc.in # "handler", Now = Ldp(29, 30, 0, 16), sp = EntrySp - 16, FrameSaved
  PROVE  /\ Always' /\ called' = called /\ sp' = EntrySp /\ x'[30] = Link
         /\ \A r \in Registers \ {29, 30} : x'[r] = x[r]
         /\ pc' = [pc EXCEPT !.at = @ + 1]
<1> DEFINE at == 0  move == 16
<1>1. Now = Ldp(29, 30, at, move) /\ at \in Int /\ move \in Int  OBVIOUS
<1>2. 29 \in Registers \ {19} /\ 30 \in Registers \ {19, 29}  BY DEF Registers
<1>3. sp + move = EntrySp /\ sp + at = EntrySp - 16 /\ sp + at + 8 = EntrySp - 8  BY EntryStack
<1>4. memory[sp + at] = Entry(29) /\ memory[sp + at + 8] = Link  BY <1>3 DEF FrameSaved
<1> HIDE DEF at, move
<1>5. /\ Always' /\ called' = called /\ sp' = sp + move
      /\ x'[30] = memory[sp + at + 8]
      /\ \A r \in Registers \ {29, 30} : x'[r] = x[r]
      /\ pc' = [pc EXCEPT !.at = @ + 1]
  BY <1>1, <1>2, <1>4, Loading
<1> QED  BY <1>3, <1>4, <1>5

\* The first two argument registers are saved below the frame.
LEMMA SavingFirstArgs ==
  ASSUME Always, Next, pc.in # "handler", Now = Stp(0, 1, 0, -32), sp = EntrySp - 16
  PROVE  /\ Always' /\ called' = called /\ x' = x /\ sp' = EntrySp - 48
         /\ memory'[EntrySp - 48] = x[0] /\ memory'[EntrySp - 40] = x[1]
         /\ memory'[EntrySp - 16] = memory[EntrySp - 16] /\ memory'[EntrySp - 8] = memory[EntrySp - 8]
         /\ pc' = [pc EXCEPT !.at = @ + 1]
<1> DEFINE at == 0  move == -32
<1>1. /\ Now = Stp(0, 1, at, move) /\ at \in Int /\ move \in Int /\ sp \in Nat
      /\ sp + move + at \in Nat /\ sp + move + at + 16 <= EntrySp
  BY EntryStack
<1>2. 0 \in Registers /\ 1 \in Registers  BY DEF Registers
<1>3. sp + move = EntrySp - 48 /\ sp + move + at = EntrySp - 48 /\ sp + move + at + 8 = EntrySp - 40
  BY EntryStack
<1> HIDE DEF at, move
<1>4. /\ Always' /\ called' = called /\ x' = x /\ sp' = sp + move
      /\ memory'[sp + move + at] = x[0] /\ memory'[sp + move + at + 8] = x[1]
      /\ \A c \in 0 .. EntrySp + 32 :
           c \notin {sp + move + at, sp + move + at + 8} => memory'[c] = memory[c]
      /\ pc' = [pc EXCEPT !.at = @ + 1]
  BY <1>1, <1>2, Storing
<1>5. \A c \in {EntrySp - 16, EntrySp - 8} :
        c \in 0 .. EntrySp + 32 /\ c \notin {EntrySp - 48, EntrySp - 40}
  BY EntryStack
<1> QED  BY <1>3, <1>4, <1>5

\* The last two, above the first two.
LEMMA SavingLastArgs ==
  ASSUME Always, Next, pc.in # "handler", Now = Stp(2, 3, 16, 0), sp = EntrySp - 48
  PROVE  /\ Always' /\ called' = called /\ x' = x /\ sp' = EntrySp - 48
         /\ memory'[EntrySp - 32] = x[2] /\ memory'[EntrySp - 24] = x[3]
         /\ memory'[EntrySp - 48] = memory[EntrySp - 48] /\ memory'[EntrySp - 40] = memory[EntrySp - 40]
         /\ memory'[EntrySp - 16] = memory[EntrySp - 16] /\ memory'[EntrySp - 8] = memory[EntrySp - 8]
         /\ pc' = [pc EXCEPT !.at = @ + 1]
<1> DEFINE at == 16  move == 0
<1>1. /\ Now = Stp(2, 3, at, move) /\ at \in Int /\ move \in Int /\ sp \in Nat
      /\ sp + move + at \in Nat /\ sp + move + at + 16 <= EntrySp
  BY EntryStack
<1>2. 2 \in Registers /\ 3 \in Registers  BY DEF Registers
<1>3. sp + move = EntrySp - 48 /\ sp + move + at = EntrySp - 32 /\ sp + move + at + 8 = EntrySp - 24
  BY EntryStack
<1> HIDE DEF at, move
<1>4. /\ Always' /\ called' = called /\ x' = x /\ sp' = sp + move
      /\ memory'[sp + move + at] = x[2] /\ memory'[sp + move + at + 8] = x[3]
      /\ \A c \in 0 .. EntrySp + 32 :
           c \notin {sp + move + at, sp + move + at + 8} => memory'[c] = memory[c]
      /\ pc' = [pc EXCEPT !.at = @ + 1]
  BY <1>1, <1>2, Storing
<1>5. \A c \in {EntrySp - 48, EntrySp - 40, EntrySp - 16, EntrySp - 8} :
        c \in 0 .. EntrySp + 32 /\ c \notin {EntrySp - 32, EntrySp - 24}
  BY EntryStack
<1> QED  BY <1>3, <1>4, <1>5

\* The last two are restored first.
LEMMA LoadingLastArgs ==
  ASSUME Always, Next, pc.in # "handler", Now = Ldp(2, 3, 16, 0), sp = EntrySp - 48
  PROVE  /\ Always' /\ called' = called /\ memory' = memory /\ sp' = EntrySp - 48
         /\ x'[2] = memory[EntrySp - 32] /\ x'[3] = memory[EntrySp - 24]
         /\ pc' = [pc EXCEPT !.at = @ + 1]
<1> DEFINE at == 16  move == 0
<1>1. Now = Ldp(2, 3, at, move) /\ at \in Int /\ move \in Int  OBVIOUS
<1>2. 2 \in Registers \ {19} /\ 3 \in Registers \ {19, 29, 2} /\ 2 # 29  BY DEF Registers
<1>3. sp + move = EntrySp - 48 /\ sp + at = EntrySp - 32 /\ sp + at + 8 = EntrySp - 24  BY EntryStack
<1> HIDE DEF at, move
<1>4. /\ Always' /\ called' = called /\ memory' = memory /\ sp' = sp + move
      /\ x'[2] = memory[sp + at] /\ x'[3] = memory[sp + at + 8]
      /\ pc' = [pc EXCEPT !.at = @ + 1]
  BY <1>1, <1>2, Loading
<1> QED  BY <1>3, <1>4

\* The first two are restored, and the stack pointer with them.
LEMMA LoadingFirstArgs ==
  ASSUME Always, Next, pc.in # "handler", Now = Ldp(0, 1, 0, 32), sp = EntrySp - 48
  PROVE  /\ Always' /\ called' = called /\ memory' = memory /\ sp' = EntrySp - 16
         /\ x'[0] = memory[EntrySp - 48] /\ x'[1] = memory[EntrySp - 40]
         /\ \A r \in Registers \ {0, 1} : x'[r] = x[r]
         /\ pc' = [pc EXCEPT !.at = @ + 1]
<1> DEFINE at == 0  move == 32
<1>1. Now = Ldp(0, 1, at, move) /\ at \in Int /\ move \in Int  OBVIOUS
<1>2. 0 \in Registers \ {19} /\ 1 \in Registers \ {19, 29, 0} /\ 0 # 29  BY DEF Registers
<1>3. sp + move = EntrySp - 16 /\ sp + at = EntrySp - 48 /\ sp + at + 8 = EntrySp - 40  BY EntryStack
<1> HIDE DEF at, move
<1>4. /\ Always' /\ called' = called /\ memory' = memory /\ sp' = sp + move
      /\ x'[0] = memory[sp + at] /\ x'[1] = memory[sp + at + 8]
      /\ \A r \in Registers \ {0, 1} : x'[r] = x[r]
      /\ pc' = [pc EXCEPT !.at = @ + 1]
  BY <1>1, <1>2, Loading
<1> QED  BY <1>3, <1>4

\* What a function returns to is no address of the generated code.
LEMMA LinkLeaves == ReturnTo(Link) = Place("returned", 0, 1)
<1>1. Link[1] # "code"  BY DEF Link, Signed, Entry
<1> QED  BY <1>1 DEF ReturnTo, At, Place

-----------------------------------------------------------------------------
(* From each point to the next.                                             *)
\* The dispatcher's start leads to its first call.
LEMMA FromEntering == ASSUME Always, Entering, Next  PROVE Always' /\ Somewhere'
<1> DEFINE k == pc.at
<1>1. /\ k \in 1 .. Frame /\ pc = InDispatcher(k) /\ ~Function /\ sp = EntrySp
      /\ called = <<>> /\ Kept(1) /\ x[30] = IF k = Frame THEN Link ELSE Raw
  BY DEF Entering
<1>2. hook \in Hooks /\ hook' = hook  BY HookIsFixed DEF Always
<1>3. N \in Nat \ {0} /\ Frame \in 1 .. 2  BY <1>2, HookFacts
<1>4. N' = N /\ Frame' = Frame /\ Link' = Link /\ Raw' = Raw /\ Function' = Function
      /\ First(1)' = First(1) /\ Intact(1)' = Intact(1)
  BY <1>2, HookIsFixed
<1>5. pc.in # "handler" /\ Now = SaveFrame[k]
  BY <1>1, <1>2, Fetched, DispatcherCode
<1>6. [pc EXCEPT !.at = @ + 1] = InDispatcher(k + 1)  BY <1>1, Advanced DEF InDispatcher
<1> HIDE DEF k
<1>7. CASE k = Frame
  <2>1. Now = Stp(29, 30, 0, -16)  BY <1>2, <1>5, <1>7, FrameCode
  <2>4. /\ Always' /\ called' = called /\ x' = x /\ sp' = EntrySp - 16
        /\ memory'[EntrySp - 16] = x[29] /\ memory'[EntrySp - 8] = x[30]
        /\ pc' = [pc EXCEPT !.at = @ + 1]
    BY <1>1, <1>5, <2>1, SavingFrame
  <2>6. FrameSaved'
    BY <1>1, <1>4, <1>7, <2>4 DEF FrameSaved, Always
  <2>7. Len(called') = 1 - 1 /\ Kept(1)' /\ Result'
    BY <1>1, <1>4, <2>4 DEF Kept, Result
  <2>8. First(1) + 1 = k + 1  BY <1>3, <1>7 DEF First
  <2>9. pc' = InDispatcher(First(1) + 1)  BY <1>6, <2>4, <2>8
  <2>10. Between(1)'
    BY <1>1, <1>3, <1>4, <2>4, <2>6, <2>7, <2>9 DEF Between, InDispatcher
  <2>11. 1 \in 1 .. N' + 1  BY <1>3, <1>4
  <2> QED  BY <2>4, <2>10, <2>11 DEF Somewhere
<1>8. CASE k # Frame
  <2>1. k = 1 /\ Frame = 2  BY <1>1, <1>3, <1>8
  <2>2. hook.macho  BY <2>1 DEF Frame
  <2>3. Now = Xpaclri  BY <1>2, <1>5, <2>1, <2>2, FrameCode
  <2>4. /\ Always' /\ called' = called /\ sp' = sp
        /\ x'[30] = IF x[30] = Signed THEN Entry(30) ELSE x[30]
        /\ \A r \in Registers \ {30} : x'[r] = x[r]
        /\ pc' = [pc EXCEPT !.at = @ + 1]
    BY <1>5, <2>3, Stripping
  <2>5. x'[30] = Link
    BY <1>1, <1>8, <2>2, <2>4 DEF Link, Raw
  <2>6. Kept(1)'  BY <1>1, <1>4, <2>4 DEF Kept, Intact
  <2>7. pc' = InDispatcher(2) /\ pc'.at = 2  BY <1>6, <2>1, <2>4 DEF InDispatcher, Place
  <2>8. Entering'
    BY <1>1, <1>4, <2>1, <2>4, <2>5, <2>6, <2>7 DEF Entering, InDispatcher
  <2> QED  BY <2>4, <2>8 DEF Somewhere
<1> QED  BY <1>7, <1>8

\* A handler is called, through its wrapper if it has one.
LEMMA IntoHandler ==
  ASSUME Always, Next, NEW n, Nested(n), ~Function, Kept(n),
         NEW k \in Nat, pc = InDispatcher(k), ReturnPoint(n) = InDispatcher(k + 1),
         Now = Branch(TRUE, Entered(n))
  PROVE  Always' /\ Somewhere'
<1>1. hook \in Hooks /\ hook' = hook  BY HookIsFixed DEF Always
<1>2. n \in 1 .. N  BY DEF Nested
<1>3. N' = N /\ Depth' = Depth /\ Link' = Link /\ Detour' = Detour /\ Function' = Function
      /\ Intact(n)' = Intact(n) /\ ReturnPoint(n)' = ReturnPoint(n) /\ Count(n)' = Count(n)
  BY <1>1, HookIsFixed
<1>4. Count(n) \in Nat /\ (hook.handlers[n] = <<>> => Count(n) = 0)  BY <1>1, <1>2, Operands
<1>5. pc.in # "handler"  BY Fetched
<1>6. /\ Always' /\ called' = called /\ memory' = memory /\ sp' = sp
      /\ x'[30] = CodeAt([pc EXCEPT !.at = @ + 1])
      /\ \A r \in Registers \ {16, 30} : x'[r] = x[r]
      /\ pc' = Entered(n)
  BY <1>5, Jumping
<1>7. x'[30] = CodeAt(ReturnPoint(n))
  <2>1. [pc EXCEPT !.at = @ + 1] = InDispatcher(k + 1)  BY Advanced DEF InDispatcher
  <2> QED  BY <1>6, <2>1
<1>8. Nested(n)'  BY <1>3, <1>6 DEF Nested, FrameSaved, ArgSaved
<1>9. Moved(n, 1)'
  <2>1. \A i : i \notin 1 .. 1 - 1  OBVIOUS
  <2>2. \A r \in Intact(n) : x'[r] = Entry(r)  BY <1>6 DEF Kept, Intact
  <2> QED  BY <1>3, <2>1, <2>2 DEF Moved
<1>10. CASE hook.handlers[n] = <<>>
  <2>1. pc' = Place("handler", n, 1) /\ Count(n) + 1 = 1  BY <1>4, <1>6, <1>10 DEF Entered, At, Place
  <2>2. Handling(n)'  BY <1>3, <1>7, <1>8, <1>9, <2>1 DEF Handling, Place
  <2> QED  BY <1>2, <1>3, <1>6, <2>2 DEF Somewhere
<1>11. CASE hook.handlers[n] # <<>>
  <2>1. pc' = Place("wrapper", n, 1) /\ 1 \in 1 .. Count(n) + 1
    BY <1>4, <1>6, <1>11 DEF Entered, At, Place
  <2>2. Wrapping(n, 1)'  BY <1>3, <1>7, <1>8, <1>9, <2>1 DEF Wrapping, Place
  <2> QED  BY <1>2, <1>3, <1>6, <2>1, <2>2 DEF Somewhere
<1> QED  BY <1>10, <1>11

\* Before a call, or behind the last one.
LEMMA FromBetween ==
  ASSUME Always, Next, NEW n \in 1 .. N + 1, Between(n)  PROVE Always' /\ Somewhere'
<1> DEFINE k == First(n) + 1
<1>1. /\ pc = InDispatcher(k) /\ ~Function /\ Len(called) = n - 1
      /\ sp = EntrySp - 16 /\ FrameSaved /\ Kept(n) /\ Result
  BY DEF Between
<1>2. hook \in Hooks /\ hook' = hook  BY HookIsFixed DEF Always
<1>3. N \in Nat \ {0} /\ First(n) \in Nat /\ n \in Nat  BY <1>2, HookFacts
<1>4. /\ N' = N /\ Link' = Link /\ Depth' = Depth /\ Function' = Function /\ Detour' = Detour
      /\ First(n)' = First(n) /\ First(N + 1)' = First(N + 1) /\ Intact(n)' = Intact(n)
  BY <1>2, HookIsFixed
<1>5. pc.in # "handler" /\ Now = Dispatcher[k]  BY <1>1, Fetched
<1>6. [pc EXCEPT !.at = @ + 1] = InDispatcher(k + 1)  BY <1>1, Advanced DEF InDispatcher
<1>7. k \in Nat  BY <1>3
<1>8. CASE n = N + 1
  <2>1. Now = Ldp(29, 30, 0, 16)  BY <1>2, <1>5, <1>8, DispatcherCode
  <2>2. /\ Always' /\ called' = called /\ sp' = EntrySp /\ x'[30] = Link
        /\ \A r \in Registers \ {29, 30} : x'[r] = x[r]
        /\ pc' = InDispatcher(k + 1)
    BY <1>1, <1>5, <1>6, <2>1, LoadingFrame
  <2>3. pc' = InDispatcher(First(N + 1) + 2)  BY <1>3, <1>8, <2>2
  <2>4. Len(called') = N  BY <1>1, <1>3, <1>8, <2>2
  <2>5. Detour => \A r \in 0 .. 3 : x'[r] = Entry(r)
    <3>1. \A r \in 0 .. 3 : r \in Registers \ {29, 30} /\ (Detour => r \in Intact(n))
      BY DEF Intact, Registers
    <3> QED  BY <1>1, <2>2, <3>1 DEF Kept
  <2>6. Result'
    <3>1. 0 \in Registers \ {29, 30}  BY DEF Registers
    <3> QED  BY <1>1, <1>2, <2>2, <3>1 DEF Result
  <2>7. Leaving'
    BY <1>1, <1>4, <2>2, <2>3, <2>4, <2>5, <2>6 DEF Leaving, InDispatcher
  <2> QED  BY <2>2, <2>7 DEF Somewhere
<1>9. CASE n # N + 1 /\ ~Detour
  <2>1. n \in 1 .. N  BY <1>3, <1>9
  <2>2. Now = Call(n)[1]  BY <1>2, <1>5, <1>9, <2>1, DispatcherCode
  <2>3. Now = Branch(TRUE, Entered(n))  BY <1>2, <1>9, <2>2, CallCode
  <2>4. ReturnPoint(n) = InDispatcher(k + 1)
    <3>1. ReturnPoint(n) = InDispatcher(First(n) + 2)  BY <1>1, <1>9 DEF ReturnPoint
    <3>2. First(n) + 2 = k + 1  BY <1>3
    <3> QED  BY <3>1, <3>2
  <2>5. Nested(n)  BY <1>1, <1>9, <2>1 DEF Nested, Depth
  <2> HIDE DEF k
  <2> QED  BY <1>1, <1>7, <2>3, <2>4, <2>5, IntoHandler
<1>10. CASE n # N + 1 /\ Detour
  <2>1. n \in 1 .. N  BY <1>3, <1>10
  <2>2. Now = Call(n)[1]  BY <1>2, <1>5, <1>10, <2>1, DispatcherCode
  <2>3. Now = Stp(0, 1, 0, -32)  BY <1>2, <1>10, <2>2, CallCode
  <2>4. /\ Always' /\ called' = called /\ x' = x /\ sp' = EntrySp - 48
        /\ memory'[EntrySp - 48] = x[0] /\ memory'[EntrySp - 40] = x[1]
        /\ memory'[EntrySp - 16] = memory[EntrySp - 16] /\ memory'[EntrySp - 8] = memory[EntrySp - 8]
        /\ pc' = InDispatcher(k + 1)
    BY <1>1, <1>5, <1>6, <2>3, SavingFirstArgs
  <2>5. k + 1 = First(n) + 2  BY <1>3
  <2>6. 0 \in Intact(n) /\ 1 \in Intact(n)  BY <1>10 DEF Intact, Registers
  <2>7. ArgSaved(0)' /\ ArgSaved(1)'
    <3>1. EntrySp - 48 + 8 * 0 = EntrySp - 48 /\ EntrySp - 48 + 8 * 1 = EntrySp - 40  BY EntryStack
    <3>2. x[0] = Entry(0) /\ x[1] = Entry(1)  BY <1>1, <2>6 DEF Kept
    <3> QED  BY <2>4, <3>1, <3>2 DEF ArgSaved
  <2>8. FrameSaved'  BY <1>1, <1>4, <2>4 DEF FrameSaved
  <2>9. Kept(n)'  BY <1>1, <1>4, <2>4 DEF Kept
  <2>10. Len(called') = n - 1 /\ sp' = Depth  BY <1>1, <1>10, <2>4 DEF Depth
  <2>11. pc' = InDispatcher(First(n) + 2)  BY <2>4, <2>5
  <2>12. HalfSaved(n)'
    BY <1>4, <1>10, <2>1, <2>7, <2>8, <2>9, <2>10, <2>11 DEF HalfSaved, InDispatcher
  <2> QED  BY <1>4, <2>1, <2>4, <2>12 DEF Somewhere
<1> QED  BY <1>8, <1>9, <1>10

\* A detour saves x2 and x3.
LEMMA FromHalfSaved ==
  ASSUME Always, Next, NEW n \in 1 .. N, HalfSaved(n)  PROVE Always' /\ Somewhere'
<1> DEFINE k == First(n) + 2
<1>1. /\ pc = InDispatcher(k) /\ Detour /\ Len(called) = n - 1
      /\ sp = EntrySp - 48 /\ FrameSaved /\ Kept(n) /\ ArgSaved(0) /\ ArgSaved(1)
  BY DEF HalfSaved, Depth
<1>2. hook \in Hooks /\ hook' = hook  BY HookIsFixed DEF Always
<1>3. N \in Nat \ {0} /\ First(n) \in Nat  BY <1>2, HookFacts
<1>4. /\ N' = N /\ Link' = Link /\ Depth' = Depth /\ Detour' = Detour
      /\ First(n)' = First(n) /\ Intact(n)' = Intact(n)
  BY <1>2, HookIsFixed
<1>5. pc.in # "handler" /\ Now = Dispatcher[k]  BY <1>1, Fetched
<1>6. [pc EXCEPT !.at = @ + 1] = InDispatcher(k + 1)  BY <1>1, Advanced DEF InDispatcher
<1>7. Now = Call(n)[2]  BY <1>1, <1>2, <1>5, DispatcherCode
<1>8. Now = Stp(2, 3, 16, 0)  BY <1>1, <1>2, <1>7, CallCode
<1>9. /\ Always' /\ called' = called /\ x' = x /\ sp' = EntrySp - 48
      /\ memory'[EntrySp - 32] = x[2] /\ memory'[EntrySp - 24] = x[3]
      /\ memory'[EntrySp - 48] = memory[EntrySp - 48] /\ memory'[EntrySp - 40] = memory[EntrySp - 40]
      /\ memory'[EntrySp - 16] = memory[EntrySp - 16] /\ memory'[EntrySp - 8] = memory[EntrySp - 8]
      /\ pc' = InDispatcher(k + 1)
  BY <1>1, <1>5, <1>6, <1>8, SavingLastArgs
<1>10. k + 1 = First(n) + 3  BY <1>3
<1>11. 2 \in Intact(n) /\ 3 \in Intact(n)  BY <1>1 DEF Intact, Registers
<1>12. \A r \in 0 .. 3 : ArgSaved(r)'
  <2>1. /\ EntrySp - 48 + 8 * 0 = EntrySp - 48 /\ EntrySp - 48 + 8 * 1 = EntrySp - 40
        /\ EntrySp - 48 + 8 * 2 = EntrySp - 32 /\ EntrySp - 48 + 8 * 3 = EntrySp - 24
    BY EntryStack
  <2>2. x[2] = Entry(2) /\ x[3] = Entry(3)  BY <1>1, <1>11 DEF Kept
  <2>3. memory[EntrySp - 48] = Entry(0) /\ memory[EntrySp - 40] = Entry(1)
    BY <1>1, <2>1 DEF ArgSaved
  <2>4. ArgSaved(0)' /\ ArgSaved(1)' /\ ArgSaved(2)' /\ ArgSaved(3)'
    BY <1>9, <2>1, <2>2, <2>3 DEF ArgSaved
  <2>5. \A r \in 0 .. 3 : r = 0 \/ r = 1 \/ r = 2 \/ r = 3  OBVIOUS
  <2> QED  BY <2>4, <2>5
<1>13. FrameSaved'  BY <1>1, <1>4, <1>9 DEF FrameSaved
<1>14. Kept(n)'  BY <1>1, <1>4, <1>9 DEF Kept
<1>15. Len(called') = n - 1 /\ sp' = Depth  BY <1>1, <1>9 DEF Depth
<1>16. pc' = InDispatcher(First(n) + 3)  BY <1>9, <1>10
<1>17. Nested(n)'  BY <1>4, <1>12, <1>13, <1>15 DEF Nested
<1>18. Calling(n)'  BY <1>1, <1>4, <1>14, <1>16, <1>17 DEF Calling, InDispatcher
<1> QED  BY <1>4, <1>9, <1>18 DEF Somewhere

\* A detour branches to the handler or its wrapper.
LEMMA FromCalling ==
  ASSUME Always, Next, NEW n \in 1 .. N, Calling(n)  PROVE Always' /\ Somewhere'
<1> DEFINE k == First(n) + 3
<1>1. pc = InDispatcher(k) /\ Detour /\ Nested(n) /\ Kept(n)  BY DEF Calling
<1>2. hook \in Hooks  BY DEF Always
<1>3. N \in Nat \ {0} /\ First(n) \in Nat  BY <1>2, HookFacts
<1>4. Now = Dispatcher[k]  BY <1>1, Fetched
<1>5. Now = Call(n)[3]  BY <1>1, <1>2, <1>4, DispatcherCode
<1>6. Now = Branch(TRUE, Entered(n))  BY <1>1, <1>2, <1>5, CallCode
<1>7. ~Function  BY <1>1 DEF Detour, Function
<1>8. ReturnPoint(n) = InDispatcher(k + 1)
  <2>1. ReturnPoint(n) = InDispatcher(First(n) + 4)  BY <1>1, <1>7 DEF ReturnPoint
  <2>2. First(n) + 4 = k + 1  BY <1>3
  <2> QED  BY <2>1, <2>2
<1>9. k \in Nat  BY <1>3
<1> HIDE DEF k
<1> QED  BY <1>1, <1>6, <1>7, <1>8, <1>9, IntoHandler

\* A wrapper moves an operand.
LEMMA MovingOperand ==
  ASSUME Always, Next, NEW n, Nested(n), NEW j \in 1 .. Count(n), Moved(n, j), pc.in # "handler",
         Now = Mov(j - 1, hook.handlers[n][j].register, hook.handlers[n][j].wide)
  PROVE  /\ Always' /\ Nested(n)' /\ Moved(n, j + 1)' /\ x'[30] = x[30]
         /\ pc' = [pc EXCEPT !.at = @ + 1]
<1>1. hook \in Hooks /\ hook' = hook  BY HookIsFixed DEF Always
<1>2. n \in 1 .. N  BY DEF Nested
<1>3. /\ N' = N /\ Depth' = Depth /\ Link' = Link /\ Detour' = Detour /\ Intact(n)' = Intact(n)
      /\ \A i : Untouched(n, i)' = Untouched(n, i) /\ Wanted(n, i)' = Wanted(n, i)
  BY <1>1, HookIsFixed
<1>4. Count(n) \in Nat /\ Count(n) <= 8 /\ hook.handlers[n][j] \in Operand  BY <1>1, <1>2, Operands
<1> DEFINE rd == j - 1  rm == hook.handlers[n][j].register  wide == hook.handlers[n][j].wide
<1>5. rd \in 0 .. 7 /\ rm \in Registers \ {30}  BY <1>4 DEF Operand
<1>6. rd \in Registers /\ rd # 30  BY <1>5 DEF Registers
<1>7. Now = Mov(rd, rm, wide)  OBVIOUS
<1> HIDE DEF rd, rm, wide
<1>8. /\ Always' /\ called' = called /\ memory' = memory /\ sp' = sp
      /\ x'[rd] = IF wide THEN x[rm] ELSE Half(x[rm])
      /\ \A r \in Registers \ {rd} : x'[r] = x[r]
      /\ pc' = [pc EXCEPT !.at = @ + 1]
  BY <1>5, <1>7, Moving
<1>9. Nested(n)'  BY <1>3, <1>8 DEF Nested, FrameSaved, ArgSaved
<1>10. x'[30] = x[30]  BY <1>6, <1>8 DEF Registers
<1>11. \A r \in Intact(n) : r \notin 0 .. j - 1 => x'[r] = Entry(r)
  <2>1. \A r \in Intact(n) : r \notin 0 .. j - 1 => r \in Registers \ {rd} /\ r \notin 0 .. j - 2
    BY DEF Intact, rd
  <2> QED  BY <1>8, <2>1 DEF Moved
<1>12. \A i \in 1 .. j - 1 : Untouched(n, i) => x'[i - 1] = Wanted(n, i)
  <2>1. \A i \in 1 .. j - 1 : i - 1 \in 0 .. 7 /\ i - 1 # rd  BY <1>4 DEF rd
  <2>2. 0 .. 7 \subseteq Registers  BY DEF Registers
  <2>3. \A i \in 1 .. j - 1 : x'[i - 1] = x[i - 1]  BY <1>8, <2>1, <2>2
  <2> QED  BY <2>3 DEF Moved
<1>13. Untouched(n, j) => x'[rd] = Wanted(n, j)
  <2>1. ASSUME Untouched(n, j)  PROVE rm \in Intact(n) /\ rm \notin 0 .. j - 2
    BY <1>5, <2>1 DEF Untouched, Intact, Detour, rm
  <2>2. Untouched(n, j) => x[rm] = Entry(rm)  BY <2>1 DEF Moved
  <2>3. Wanted(n, j) = IF wide THEN Entry(rm) ELSE Half(Entry(rm))  BY DEF Wanted, wide, rm
  <2> QED  BY <1>8, <2>2, <2>3
<1>14. \A i \in 1 .. j : Untouched(n, i) => x'[i - 1] = Wanted(n, i)
  <2>1. \A i \in 1 .. j : i \in 1 .. j - 1 \/ i = j  OBVIOUS
  <2> QED  BY <1>12, <1>13, <2>1 DEF rd
<1>15. (j + 1) - 1 = j /\ (j + 1) - 2 = j - 1  OBVIOUS
<1>16. Moved(n, j + 1)'  BY <1>3, <1>11, <1>14, <1>15 DEF Moved
<1> QED  BY <1>8, <1>9, <1>10, <1>16

\* With every operand moved, the handler is entered.
LEMMA EnteringHandler ==
  ASSUME Always, Next, NEW n \in 1 .. N, Nested(n), Moved(n, Count(n) + 1), pc.in # "handler",
         NEW link \in BOOLEAN, Now = Branch(link, At("handler", n)),
         (IF link THEN CodeAt([pc EXCEPT !.at = @ + 1]) ELSE x[30]) = CodeAt(ReturnPoint(n))
  PROVE  Always' /\ Somewhere'
<1>1. hook \in Hooks /\ hook' = hook  BY HookIsFixed DEF Always
<1>2. /\ N' = N /\ Depth' = Depth /\ Link' = Link /\ Detour' = Detour /\ Intact(n)' = Intact(n)
      /\ Count(n)' = Count(n) /\ ReturnPoint(n)' = ReturnPoint(n)
      /\ \A i : Untouched(n, i)' = Untouched(n, i) /\ Wanted(n, i)' = Wanted(n, i)
  BY <1>1, HookIsFixed
<1>3. /\ Always' /\ called' = called /\ memory' = memory /\ sp' = sp
      /\ (link => x'[30] = CodeAt([pc EXCEPT !.at = @ + 1])) /\ (~link => x'[30] = x[30])
      /\ \A r \in Registers \ {16, 30} : x'[r] = x[r]
      /\ pc' = At("handler", n)
  BY Jumping
<1>4. x'[30] = CodeAt(ReturnPoint(n))
  <2>1. CASE link  BY <1>3, <2>1
  <2>2. CASE ~link  BY <1>3, <2>2
  <2> QED  BY <2>1, <2>2
<1>5. Nested(n)'  BY <1>2, <1>3 DEF Nested, FrameSaved, ArgSaved
<1> DEFINE c == Count(n)
<1>6. c \in Nat /\ c <= 8  BY <1>1, Operands
<1> HIDE DEF c
<1>7. \A i \in 1 .. c : x'[i - 1] = x[i - 1]
  <2>1. \A i \in 1 .. c : i - 1 \in 0 .. 7  BY <1>6
  <2>2. \A r \in 0 .. 7 : r \in Registers \ {16, 30}  BY DEF Registers
  <2> QED  BY <1>3, <2>1, <2>2
<1>8. \A r \in Intact(n) : x'[r] = x[r]  BY <1>3 DEF Intact
<1>9. (c + 1) - 1 = c  BY <1>6
<1>10. Moved(n, c + 1)'  BY <1>2, <1>7, <1>8, <1>9 DEF Moved, c
<1>11. pc' = Place("handler", n, 1)  BY <1>3 DEF At, Place
<1>12. Handling(n)'  BY <1>2, <1>4, <1>5, <1>10, <1>11 DEF Handling, Place, c
<1> QED  BY <1>2, <1>3, <1>12 DEF Somewhere

\* A wrapper moves the next operand or enters the handler.
LEMMA FromWrapping ==
  ASSUME Always, Next, NEW n \in 1 .. N, NEW j \in 1 .. Count(n) + 1, Wrapping(n, j)
  PROVE  Always' /\ Somewhere'
<1>1. /\ Nested(n) /\ ~Function /\ pc = Place("wrapper", n, j)
      /\ x[30] = CodeAt(ReturnPoint(n)) /\ Moved(n, j)
  BY DEF Wrapping
<1>2. hook \in Hooks /\ hook' = hook  BY HookIsFixed DEF Always
<1>3. Count(n) \in Nat  BY <1>2, Operands
<1>4. pc.in # "handler" /\ Now = Wrapper(n)[j]  BY <1>1, Fetched
<1>5. CASE j = Count(n) + 1
  <2>1. Now = Branch(FALSE, At("handler", n))  BY <1>2, <1>4, <1>5, WrapperCode
  <2> QED  BY <1>1, <1>4, <1>5, <2>1, EnteringHandler
<1>6. CASE j # Count(n) + 1
  <2>1. j \in 1 .. Count(n)  BY <1>3, <1>6
  <2>2. Now = Mov(j - 1, hook.handlers[n][j].register, hook.handlers[n][j].wide)
    BY <1>2, <1>4, <2>1, WrapperCode
  <2>3. /\ Always' /\ Nested(n)' /\ Moved(n, j + 1)' /\ x'[30] = x[30]
        /\ pc' = [pc EXCEPT !.at = @ + 1]
    BY <1>1, <1>4, <2>1, <2>2, MovingOperand
  <2>4. pc' = Place("wrapper", n, j + 1)  BY <1>1, <2>3, Advanced
  <2>5. /\ N' = N /\ Function' = Function /\ Count(n)' = Count(n) /\ ReturnPoint(n)' = ReturnPoint(n)
    BY <1>2, HookIsFixed
  <2>6. j + 1 \in 1 .. Count(n)' + 1  BY <1>3, <2>1, <2>5
  <2>7. Wrapping(n, j + 1)'  BY <1>1, <2>3, <2>4, <2>5, <2>6 DEF Wrapping, Place
  <2> QED  BY <2>3, <2>5, <2>6, <2>7 DEF Somewhere
<1> QED  BY <1>5, <1>6

\* A handler runs: what it may change, and how the call is recorded.
LEMMA HandlerRuns ==
  ASSUME Always, Next, NEW n \in 1 .. N, Handling(n)
  PROVE  /\ Always' /\ Len(called') = n /\ sp' = sp /\ pc' = ReturnPoint(n)
         /\ x'[0] = Left(n, 0)
         /\ FrameSaved' /\ (Detour => \A r \in 0 .. 3 : ArgSaved(r)')
<1>1. /\ Nested(n) /\ pc = Place("handler", n, 1) /\ x[30] = CodeAt(ReturnPoint(n))
      /\ Moved(n, Count(n) + 1)
  BY DEF Handling
<1>2. hook \in Hooks /\ hook' = hook /\ IsCode(called)  BY HookIsFixed DEF Always
<1>3. pc.in = "handler" /\ pc.n = n /\ Len(Code(pc)) = 0 /\ pc.at = 1
  BY <1>1 DEF Place, Code
<1>4. Handler
  BY <1>3 DEF Next, StripSignature, Store, Load, Move, Jump, Return, Fetch
<1> DEFINE e == [n |-> n, x |-> x]
<1>5. /\ called' = Append(called, e) /\ sp' = sp /\ pc' = ReturnTo(x[30])
      /\ x' = [r \in Registers |-> IF r \in CallerSaved THEN Left(n, r) ELSE x[r]]
      /\ memory' = [a \in DOMAIN memory |-> IF a < sp THEN Left(n, a) ELSE memory[a]]
  BY <1>3, <1>4 DEF Handler
<1>6. pc' = ReturnPoint(n)  BY <1>1, <1>5 DEF ReturnTo, CodeAt
<1>7. /\ IsCode(called') /\ Len(called') = Len(called) + 1
      /\ \A i \in 1 .. Len(called) : called'[i] = called[i]
      /\ called'[Len(called) + 1] = e
  <2> HIDE DEF e
  <2> QED  BY <1>2, <1>5, AppendedOne
<1>8. Len(called) = n - 1 /\ sp = Depth /\ n \in Nat  BY <1>1, <1>2, HookFacts DEF Nested
<1>9. Len(called') = n /\ called'[n] = e  BY <1>7, <1>8
<1>10. x' = [r \in Registers |-> x'[r]] /\ x'[19] = Entry(19) /\ x'[29] = Entry(29) /\ x'[0] = Left(n, 0)
  BY <1>5 DEF Always, Registers, CallerSaved
<1> DEFINE D == 0 .. EntrySp + 32
<1>11. memory' = [a \in D |-> memory'[a]] /\ \A a \in D : ~(a < sp) => memory'[a] = memory[a]
  <2>1. DOMAIN memory = D
    <3>1. memory = [a \in D |-> memory[a]]  BY DEF Always
    <3> HIDE DEF D
    <3> QED  BY <3>1
  <2> HIDE DEF D
  <2>2. memory' = [a \in D |-> IF a < sp THEN Left(n, a) ELSE memory[a]]  BY <1>5, <2>1
  <2>3. \A a \in D : memory'[a] = IF a < sp THEN Left(n, a) ELSE memory[a]  BY <2>2
  <2> QED  BY <2>2, <2>3
<1>12. Depth \in Nat /\ Depth <= EntrySp - 16 /\ (Detour => Depth = EntrySp - 48)
  BY EntryStack DEF Depth
<1>13. Stack'
  <2>1. \A a \in EntrySp .. EntrySp + 32 : a \in D /\ ~(a < sp)  BY <1>8, <1>12, EntryStack
  <2> HIDE DEF D
  <2> QED  BY <1>11, <2>1 DEF Stack, Always
<1>14. /\ Link' = Link
       /\ \A i : Untouched(n, i)' = Untouched(n, i) /\ Wanted(n, i)' = Wanted(n, i)
  BY <1>2, HookIsFixed
<1>15. FrameSaved'
  <2>1. \A a \in {EntrySp - 16, EntrySp - 8} : a \in D /\ ~(a < sp)  BY <1>8, <1>12, EntryStack
  <2> HIDE DEF D
  <2>2. FrameSaved  BY <1>1 DEF Nested
  <2> QED  BY <1>11, <1>14, <2>1, <2>2 DEF FrameSaved
<1>16. ASSUME Detour, NEW r \in 0 .. 3  PROVE ArgSaved(r)'
  <2> DEFINE a == EntrySp - 48 + 8 * r
  <2>1. a \in D /\ ~(a < sp)  BY <1>8, <1>12, <1>16, EntryStack
  <2>2. memory[a] = Entry(r)  BY <1>1, <1>16 DEF Nested, ArgSaved
  <2> HIDE DEF a, D
  <2>3. memory'[a] = Entry(r)  BY <1>11, <2>1, <2>2
  <2> QED  BY <2>3 DEF ArgSaved, a
<1>17. \A i \in 1 .. Len(called') : CallOK(i)'
  <2>1. ASSUME NEW i \in 1 .. Len(called)  PROVE CallOK(i)'
    <3>1. CallOK(i) /\ called'[i] = called[i]  BY <1>7 DEF Always
    <3>2. /\ Count(i)' = Count(i)
          /\ \A k : Untouched(i, k)' = Untouched(i, k) /\ Wanted(i, k)' = Wanted(i, k)
      BY <1>2, HookIsFixed
    <3> QED  BY <3>1, <3>2 DEF CallOK
  <2>2. CallOK(n)'
    <3>1. called'[n].n = n /\ called'[n].x = x  BY <1>9
    <3>2. Count(n)' = Count(n) /\ Count(n) \in Nat  BY <1>2, HookIsFixed, Operands
    <3>3. \A i \in 1 .. Count(n) : Untouched(n, i) => x[i - 1] = Wanted(n, i)
      <4> DEFINE c == Count(n)
      <4>1. c \in Nat /\ Moved(n, c + 1)  BY <1>1, <3>2
      <4> HIDE DEF c
      <4>2. (c + 1) - 1 = c  BY <4>1
      <4>3. \A i \in 1 .. c : Untouched(n, i) => x[i - 1] = Wanted(n, i)  BY <4>1, <4>2 DEF Moved
      <4> QED  BY <4>3 DEF c
    <3> QED  BY <1>14, <3>1, <3>2, <3>3 DEF CallOK
  <2>3. \A i \in 1 .. Len(called') : i \in 1 .. Len(called) \/ i = n  BY <1>8, <1>9
  <2> QED  BY <2>1, <2>2, <2>3
<1>18. Always'  BY <1>2, <1>7, <1>10, <1>11, <1>13, <1>17 DEF Always
<1> QED  BY <1>5, <1>6, <1>9, <1>10, <1>15, <1>16, <1>18

\* A handler returns behind its call: in a detour, a new function, a replacement.
LEMMA FromHandling ==
  ASSUME Always, Next, NEW n \in 1 .. N, Handling(n)  PROVE Always' /\ Somewhere'
<1>1. /\ Always' /\ Len(called') = n /\ sp' = sp /\ pc' = ReturnPoint(n) /\ x'[0] = Left(n, 0)
      /\ FrameSaved' /\ (Detour => \A r \in 0 .. 3 : ArgSaved(r)')
  BY HandlerRuns
<1>2. hook \in Hooks /\ hook' = hook  BY HookIsFixed DEF Always
<1>3. /\ N \in Nat \ {0} /\ Frame \in 1 .. 2 /\ (Function => N = 1) /\ n \in Nat
      /\ hook.kind \in {"detour", "replace", "function"}
  BY <1>2, HookFacts
<1>4. /\ N' = N /\ Depth' = Depth /\ Detour' = Detour /\ Function' = Function
      /\ ReturnPoint(n)' = ReturnPoint(n) /\ First(n + 1)' = First(n + 1)
      /\ Intact(n + 1)' = Intact(n + 1) /\ Count(1)' = Count(1)
  BY <1>2, HookIsFixed
<1>5. sp = Depth  BY DEF Handling, Nested
<1>6. CASE Detour
  <2>1. Handled(n)'  BY <1>1, <1>4, <1>5, <1>6 DEF Handled
  <2> QED  BY <1>1, <1>4, <2>1 DEF Somewhere
<1>7. CASE Function
  <2>1. ~Detour /\ n = 1 /\ N = 1  BY <1>3, <1>7 DEF Detour, Function
  <2>2. pc' = InFunction(Count(1) + 3) /\ sp' = EntrySp - 16
    BY <1>1, <1>5, <1>7, <2>1 DEF ReturnPoint, Depth
  <2>3. FunctionCalled'  BY <1>1, <1>4, <1>7, <2>1, <2>2 DEF FunctionCalled, InFunction
  <2> QED  BY <1>1, <2>3 DEF Somewhere
<1>8. CASE ~Detour /\ ~Function
  <2>1. n + 1 \in 1 .. N + 1 /\ (n + 1) - 1 = n  BY <1>3
  <2>2. First(n) + 2 = First(n + 1) + 1  BY <1>3, <1>8 DEF First
  <2>3. pc' = InDispatcher(First(n + 1) + 1)  BY <1>1, <1>8, <2>2 DEF ReturnPoint
  <2>4. sp' = EntrySp - 16  BY <1>1, <1>5, <1>8 DEF Depth
  <2>5. Kept(n + 1)'
    <3>1. \A r \in Intact(n + 1) : r = 19 \/ r = 29
      BY <1>3, <1>8 DEF Intact, Registers, CallerSaved
    <3>2. x'[19] = Entry(19) /\ x'[29] = Entry(29)  BY <1>1 DEF Always
    <3> QED  BY <1>4, <3>1, <3>2 DEF Kept
  <2>6. Result'  BY <1>1 DEF Result
  <2>7. Between(n + 1)'
    BY <1>1, <1>4, <1>8, <2>1, <2>3, <2>4, <2>5, <2>6 DEF Between, InDispatcher
  <2> QED  BY <1>1, <1>4, <2>1, <2>7 DEF Somewhere
<1> QED  BY <1>6, <1>7, <1>8

\* A detour restores x2 and x3.
LEMMA FromHandled ==
  ASSUME Always, Next, NEW n \in 1 .. N, Handled(n)  PROVE Always' /\ Somewhere'
<1> DEFINE k == First(n) + 4
<1>1. /\ Detour /\ pc = ReturnPoint(n) /\ Len(called) = n /\ sp = EntrySp - 48 /\ FrameSaved
      /\ \A r \in 0 .. 3 : ArgSaved(r)
  BY DEF Handled, Depth
<1>2. hook \in Hooks /\ hook' = hook  BY HookIsFixed DEF Always
<1>3. N \in Nat \ {0} /\ First(n) \in Nat  BY <1>2, HookFacts
<1>4. /\ N' = N /\ Link' = Link /\ Depth' = Depth /\ Detour' = Detour /\ First(n)' = First(n)
  BY <1>2, HookIsFixed
<1>5. pc = InDispatcher(k)  BY <1>1 DEF ReturnPoint, Detour, Function
<1>6. pc.in # "handler" /\ Now = Dispatcher[k]  BY <1>5, Fetched
<1>7. [pc EXCEPT !.at = @ + 1] = InDispatcher(k + 1)  BY <1>5, Advanced DEF InDispatcher
<1>8. Now = Call(n)[4]  BY <1>1, <1>2, <1>6, DispatcherCode
<1>9. Now = Ldp(2, 3, 16, 0)  BY <1>1, <1>2, <1>8, CallCode
<1>10. /\ Always' /\ called' = called /\ memory' = memory /\ sp' = EntrySp - 48
       /\ x'[2] = memory[EntrySp - 32] /\ x'[3] = memory[EntrySp - 24]
       /\ pc' = InDispatcher(k + 1)
  BY <1>1, <1>6, <1>7, <1>9, LoadingLastArgs
<1>11. x'[2] = Entry(2) /\ x'[3] = Entry(3)
  <2>1. EntrySp - 48 + 8 * 2 = EntrySp - 32 /\ EntrySp - 48 + 8 * 3 = EntrySp - 24  BY EntryStack
  <2>2. ArgSaved(2) /\ ArgSaved(3)  BY <1>1
  <2> QED  BY <1>10, <2>1, <2>2 DEF ArgSaved
<1>12. ArgSaved(0)' /\ ArgSaved(1)' /\ FrameSaved'  BY <1>1, <1>4, <1>10 DEF ArgSaved, FrameSaved
<1>13. k + 1 = First(n) + 5  BY <1>3
<1>14. pc' = InDispatcher(First(n) + 5) /\ sp' = Depth  BY <1>1, <1>10, <1>13 DEF Depth
<1>15. HalfRestored(n)'
  BY <1>1, <1>4, <1>10, <1>11, <1>12, <1>14 DEF HalfRestored, InDispatcher
<1> QED  BY <1>4, <1>10, <1>15 DEF Somewhere

\* A detour restores x0 and x1, and is before the next call.
LEMMA FromHalfRestored ==
  ASSUME Always, Next, NEW n \in 1 .. N, HalfRestored(n)  PROVE Always' /\ Somewhere'
<1> DEFINE k == First(n) + 5
<1>1. /\ Detour /\ pc = InDispatcher(k) /\ Len(called) = n /\ sp = EntrySp - 48 /\ FrameSaved
      /\ ArgSaved(0) /\ ArgSaved(1) /\ x[2] = Entry(2) /\ x[3] = Entry(3)
  BY DEF HalfRestored, Depth
<1>2. hook \in Hooks /\ hook' = hook  BY HookIsFixed DEF Always
<1>3. N \in Nat \ {0} /\ First(n) \in Nat /\ Frame \in 1 .. 2 /\ n \in Nat  BY <1>2, HookFacts
<1>4. /\ N' = N /\ Link' = Link /\ Detour' = Detour /\ Function' = Function
      /\ First(n + 1)' = First(n + 1) /\ Intact(n + 1)' = Intact(n + 1)
  BY <1>2, HookIsFixed
<1>5. pc.in # "handler" /\ Now = Dispatcher[k]  BY <1>1, Fetched
<1>6. [pc EXCEPT !.at = @ + 1] = InDispatcher(k + 1)  BY <1>1, Advanced DEF InDispatcher
<1>7. Now = Call(n)[5]  BY <1>1, <1>2, <1>5, DispatcherCode
<1>8. Now = Ldp(0, 1, 0, 32)  BY <1>1, <1>2, <1>7, CallCode
<1>9. /\ Always' /\ called' = called /\ memory' = memory /\ sp' = EntrySp - 16
      /\ x'[0] = memory[EntrySp - 48] /\ x'[1] = memory[EntrySp - 40]
      /\ \A r \in Registers \ {0, 1} : x'[r] = x[r]
      /\ pc' = InDispatcher(k + 1)
  BY <1>1, <1>5, <1>6, <1>8, LoadingFirstArgs
<1>10. x'[0] = Entry(0) /\ x'[1] = Entry(1)
  <2>1. EntrySp - 48 + 8 * 0 = EntrySp - 48 /\ EntrySp - 48 + 8 * 1 = EntrySp - 40  BY EntryStack
  <2> QED  BY <1>1, <1>9, <2>1 DEF ArgSaved
<1>11. x'[2] = Entry(2) /\ x'[3] = Entry(3)  BY <1>1, <1>9 DEF Registers
<1>12. Kept(n + 1)'
  <2>1. \A r \in Intact(n + 1) : r \in {0, 1, 2, 3, 19, 29}
    BY <1>3 DEF Intact, Registers, CallerSaved
  <2>2. x'[19] = Entry(19) /\ x'[29] = Entry(29)  BY <1>9 DEF Always
  <2> QED  BY <1>4, <1>10, <1>11, <2>1, <2>2 DEF Kept
<1>13. Result'  BY <1>1, <1>2 DEF Result, Detour
<1>14. FrameSaved'  BY <1>1, <1>4, <1>9 DEF FrameSaved
<1>15. n + 1 \in 1 .. N + 1 /\ (n + 1) - 1 = n  BY <1>3
<1>16. k + 1 = First(n + 1) + 1  BY <1>1, <1>3 DEF First
<1>17. pc' = InDispatcher(First(n + 1) + 1) /\ ~Function
  BY <1>1, <1>9, <1>16 DEF Detour, Function
<1>18. Between(n + 1)'
  BY <1>1, <1>4, <1>9, <1>12, <1>13, <1>14, <1>15, <1>17 DEF Between, InDispatcher
<1> QED  BY <1>4, <1>9, <1>15, <1>18 DEF Somewhere

\* A detour goes on behind the hook, a replacement returns to its caller.
LEMMA FromLeaving == ASSUME Always, Next, Leaving  PROVE Always' /\ Somewhere'
<1>1. /\ pc = InDispatcher(First(N + 1) + 2) /\ ~Function
      /\ Len(called) = N /\ sp = EntrySp /\ x[30] = Link
      /\ Detour => \A r \in 0 .. 3 : x[r] = Entry(r)
      /\ Result
  BY DEF Leaving
<1>2. hook \in Hooks /\ hook' = hook  BY HookIsFixed DEF Always
<1>3. N \in Nat \ {0} /\ hook.kind \in {"detour", "replace", "function"}  BY <1>2, HookFacts
<1>4. N' = N /\ Link' = Link /\ Detour' = Detour /\ Function' = Function
  BY <1>2, HookIsFixed
<1>5. pc.in # "handler" /\ Now = Last  BY <1>1, <1>2, Fetched, DispatcherCode
<1>6. CASE Detour
  <2>1. Now = Branch(FALSE, At("resumed", 0))  BY <1>5, <1>6 DEF Last, Detour
  <2>2. /\ Always' /\ called' = called /\ sp' = sp /\ x'[30] = x[30]
        /\ \A r \in Registers \ {16, 30} : x'[r] = x[r]
        /\ pc' = At("resumed", 0)
    BY <1>5, <2>1, Jumping
  <2>3. \A r \in 0 .. 3 : r \in Registers \ {16, 30}  BY DEF Registers
  <2>4. Resumed'  BY <1>1, <1>4, <1>6, <2>2, <2>3 DEF Resumed, At, Place
  <2> QED  BY <2>2, <2>4 DEF Somewhere
<1>7. CASE ~Detour
  <2>1. hook.kind = "replace"  BY <1>1, <1>3, <1>7 DEF Detour, Function
  <2>2. Now = Ret  BY <1>5, <2>1 DEF Last
  <2>3. /\ Always' /\ called' = called /\ sp' = sp /\ x' = x /\ pc' = ReturnTo(x[30])
    BY <1>5, <2>2, Returning
  <2>4. pc' = Place("returned", 0, 1)  BY <1>1, <2>3, LinkLeaves
  <2>5. x[0] = Left(N, 0)
    <3>1. called # <<>>  BY <1>1, <1>3
    <3> QED  BY <1>1, <2>1, <3>1 DEF Result
  <2>6. Returned'  BY <1>1, <1>4, <1>7, <2>3, <2>4, <2>5 DEF Returned, Place
  <2> QED  BY <2>3, <2>6 DEF Somewhere
<1> QED  BY <1>6, <1>7

\* The wrapper of a new function.
LEMMA FromFunctionEntering == ASSUME Always, Next, FunctionEntering  PROVE Always' /\ Somewhere'
<1>1. /\ Function /\ pc = InFunction(1) /\ sp = EntrySp /\ called = <<>> /\ Kept(1) /\ x[30] = Link
  BY DEF FunctionEntering
<1>2. hook \in Hooks /\ hook' = hook  BY HookIsFixed DEF Always
<1>3. N = 1 /\ 1 \in 1 .. N  BY <1>1, <1>2, HookFacts
<1>4. /\ N' = N /\ Link' = Link /\ Depth' = Depth /\ Detour' = Detour /\ Function' = Function
      /\ Intact(1)' = Intact(1) /\ Count(1)' = Count(1)
  BY <1>2, HookIsFixed
<1>5. pc.in # "handler" /\ Now = Stp(29, 30, 0, -16)  BY <1>1, <1>2, Fetched, FunctionCode
<1>6. [pc EXCEPT !.at = @ + 1] = InFunction(1 + 1)  BY <1>1, Advanced DEF InFunction
<1>7. /\ Always' /\ called' = called /\ x' = x /\ sp' = EntrySp - 16
      /\ memory'[EntrySp - 16] = x[29] /\ memory'[EntrySp - 8] = x[30]
      /\ pc' = InFunction(1 + 1)
  BY <1>1, <1>5, <1>6, SavingFrame
<1>8. FrameSaved'  BY <1>1, <1>4, <1>7 DEF FrameSaved, Always
<1>9. ~Detour /\ Depth = EntrySp - 16  BY <1>1 DEF Detour, Function, Depth
<1>10. Len(called') = 1 - 1  BY <1>1, <1>7
<1>11. Nested(1)'  BY <1>3, <1>4, <1>7, <1>8, <1>9, <1>10 DEF Nested
<1>12. Moved(1, 1)'  BY <1>1, <1>4, <1>7 DEF Moved, Kept
<1>13. Count(1) \in Nat  BY <1>2, <1>3, Operands
<1>14. 1 \in 1 .. Count(1)' + 1  BY <1>4, <1>13
<1>15. FunctionMoving(1)'  BY <1>1, <1>4, <1>7, <1>11, <1>12, <1>14 DEF FunctionMoving, InFunction
<1> QED  BY <1>7, <1>14, <1>15 DEF Somewhere

\* The wrapper of a new function moves the next operand or calls the handler.
LEMMA FromFunctionMoving ==
  ASSUME Always, Next, NEW j \in 1 .. Count(1) + 1, FunctionMoving(j)  PROVE Always' /\ Somewhere'
<1>1. Nested(1) /\ Function /\ pc = InFunction(j + 1) /\ Moved(1, j)  BY DEF FunctionMoving
<1>2. hook \in Hooks /\ hook' = hook  BY HookIsFixed DEF Always
<1>3. 1 \in 1 .. N  BY DEF FunctionMoving, Nested
<1>4. Function' = Function /\ Count(1)' = Count(1)  BY <1>2, HookIsFixed
<1>5. Count(1) \in Nat  BY <1>2, <1>3, Operands
<1>6. pc.in # "handler" /\ Now = FunctionWrapper[j + 1]  BY <1>1, Fetched
<1>7. [pc EXCEPT !.at = @ + 1] = InFunction((j + 1) + 1)  BY <1>1, Advanced DEF InFunction
<1>8. CASE j = Count(1) + 1
  <2>1. j + 1 = Count(1) + 2 /\ (j + 1) + 1 = Count(1) + 3  BY <1>5, <1>8
  <2>2. Now = Branch(TRUE, At("handler", 1))  BY <1>1, <1>2, <1>6, <2>1, FunctionCode
  <2>3. [pc EXCEPT !.at = @ + 1] = ReturnPoint(1)  BY <1>1, <1>7, <2>1 DEF ReturnPoint
  <2>4. CodeAt([pc EXCEPT !.at = @ + 1]) = CodeAt(ReturnPoint(1))  BY <2>3
  <2>5. Moved(1, Count(1) + 1)  BY <1>1, <1>8
  <2> QED  BY <1>1, <1>3, <1>6, <2>2, <2>4, <2>5, EnteringHandler
<1>9. CASE j # Count(1) + 1
  <2>1. j \in 1 .. Count(1)  BY <1>5, <1>9
  <2>2. Now = Mov(j - 1, hook.handlers[1][j].register, hook.handlers[1][j].wide)
    BY <1>1, <1>2, <1>6, <2>1, FunctionCode
  <2>3. Always' /\ Nested(1)' /\ Moved(1, j + 1)' /\ pc' = InFunction((j + 1) + 1)
    BY <1>1, <1>6, <1>7, <2>1, <2>2, MovingOperand
  <2>4. j + 1 \in 1 .. Count(1)' + 1  BY <1>4, <1>5, <2>1
  <2>5. FunctionMoving(j + 1)'  BY <1>1, <1>4, <2>3, <2>4 DEF FunctionMoving, InFunction
  <2> QED  BY <2>3, <2>4, <2>5 DEF Somewhere
<1> QED  BY <1>8, <1>9

\* It copies the result to x1.
LEMMA FromFunctionCalled == ASSUME Always, Next, FunctionCalled  PROVE Always' /\ Somewhere'
<1>1. /\ Function /\ pc = InFunction(Count(1) + 3) /\ sp = EntrySp - 16 /\ FrameSaved
      /\ Len(called) = N /\ x[0] = Left(1, 0)
  BY DEF FunctionCalled
<1>2. hook \in Hooks /\ hook' = hook  BY HookIsFixed DEF Always
<1>3. Count(1) \in Nat  BY <1>1, <1>2, HookFacts, Operands
<1>4. /\ N' = N /\ Link' = Link /\ Function' = Function /\ Count(1)' = Count(1)
  BY <1>2, HookIsFixed
<1>5. pc.in # "handler" /\ Now = Mov(1, 0, TRUE)  BY <1>1, <1>2, Fetched, FunctionCode
<1>6. [pc EXCEPT !.at = @ + 1] = InFunction((Count(1) + 3) + 1)  BY <1>1, Advanced DEF InFunction
<1>7. /\ Always' /\ called' = called /\ memory' = memory /\ sp' = sp /\ x'[1] = x[0]
      /\ \A r \in Registers \ {1} : x'[r] = x[r]
      /\ pc' = [pc EXCEPT !.at = @ + 1]
  <2> DEFINE wide == TRUE  rd == 1  rm == 0
  <2>1. Now = Mov(rd, rm, wide) /\ rd \in 0 .. 7 /\ pc.in # "handler"  BY <1>5
  <2> HIDE DEF wide, rd, rm
  <2>2. /\ Always' /\ called' = called /\ memory' = memory /\ sp' = sp
        /\ x'[rd] = IF wide THEN x[rm] ELSE Half(x[rm])
        /\ \A r \in Registers \ {rd} : x'[r] = x[r]
        /\ pc' = [pc EXCEPT !.at = @ + 1]
    BY <2>1, Moving
  <2> QED  BY <2>2 DEF wide, rd, rm
<1>8. x'[0] = x[0]  BY <1>7 DEF Registers
<1>9. pc' = InFunction(Count(1) + 4)
  <2>1. (Count(1) + 3) + 1 = Count(1) + 4  BY <1>3
  <2> QED  BY <1>6, <1>7, <2>1
<1>10. FrameSaved'  BY <1>1, <1>4, <1>7 DEF FrameSaved
<1>11. FunctionMoved'
  BY <1>1, <1>4, <1>7, <1>8, <1>9, <1>10 DEF FunctionMoved, InFunction
<1> QED  BY <1>7, <1>11 DEF Somewhere

\* It restores the frame.
LEMMA FromFunctionMoved == ASSUME Always, Next, FunctionMoved  PROVE Always' /\ Somewhere'
<1>1. /\ Function /\ pc = InFunction(Count(1) + 4) /\ sp = EntrySp - 16 /\ FrameSaved
      /\ Len(called) = N /\ x[0] = Left(1, 0) /\ x[1] = x[0]
  BY DEF FunctionMoved
<1>2. hook \in Hooks /\ hook' = hook  BY HookIsFixed DEF Always
<1>3. Count(1) \in Nat  BY <1>1, <1>2, HookFacts, Operands
<1>4. /\ N' = N /\ Link' = Link /\ Function' = Function /\ Count(1)' = Count(1)
  BY <1>2, HookIsFixed
<1>5. pc.in # "handler" /\ Now = Ldp(29, 30, 0, 16)  BY <1>1, <1>2, Fetched, FunctionCode
<1>6. [pc EXCEPT !.at = @ + 1] = InFunction((Count(1) + 4) + 1)  BY <1>1, Advanced DEF InFunction
<1>7. /\ Always' /\ called' = called /\ sp' = EntrySp /\ x'[30] = Link
      /\ \A r \in Registers \ {29, 30} : x'[r] = x[r]
      /\ pc' = [pc EXCEPT !.at = @ + 1]
  BY <1>1, <1>5, LoadingFrame
<1>8. x'[0] = x[0] /\ x'[1] = x[1]  BY <1>7 DEF Registers
<1>9. pc' = InFunction(Count(1) + 5)
  <2>1. (Count(1) + 4) + 1 = Count(1) + 5  BY <1>3
  <2> QED  BY <1>6, <1>7, <2>1
<1>10. FunctionLeaving'
  BY <1>1, <1>4, <1>7, <1>8, <1>9 DEF FunctionLeaving, InFunction
<1> QED  BY <1>7, <1>10 DEF Somewhere

\* It returns.
LEMMA FromFunctionLeaving == ASSUME Always, Next, FunctionLeaving  PROVE Always' /\ Somewhere'
<1>1. /\ Function /\ pc = InFunction(Count(1) + 5) /\ sp = EntrySp
      /\ Len(called) = N /\ x[30] = Link /\ x[0] = Left(1, 0) /\ x[1] = x[0]
  BY DEF FunctionLeaving
<1>2. hook \in Hooks /\ hook' = hook  BY HookIsFixed DEF Always
<1>3. N = 1  BY <1>1, <1>2, HookFacts
<1>4. /\ N' = N /\ Link' = Link /\ Function' = Function /\ Detour' = Detour
  BY <1>2, HookIsFixed
<1>5. pc.in # "handler" /\ Now = Ret  BY <1>1, <1>2, Fetched, FunctionCode
<1>6. /\ Always' /\ called' = called /\ sp' = sp /\ x' = x /\ pc' = ReturnTo(x[30])
  BY <1>5, Returning
<1>7. pc' = Place("returned", 0, 1)  BY <1>1, <1>6, LinkLeaves
<1>8. ~Detour  BY <1>1 DEF Function, Detour
<1>9. Returned'  BY <1>1, <1>3, <1>4, <1>6, <1>7, <1>8 DEF Returned, Place
<1> QED  BY <1>6, <1>9 DEF Somewhere

\* The end of the code.
LEMMA NothingAfter == ASSUME Resumed \/ Returned  PROVE ~Next
<1>1. pc.in # "handler" /\ Len(Code(pc)) = 0 /\ pc.at = 1  BY DEF Resumed, Returned, Place, Code
<1>2. \A op : ~Fetch(op)  BY <1>1 DEF Fetch
<1> QED  BY <1>1, <1>2 DEF Next, StripSignature, Store, Load, Move, Jump, Return, Handler

-----------------------------------------------------------------------------
(* The invariant.                                                           *)
\* The hooked address and a new function's entry are points of the code.
LEMMA InitIsSomewhere == Init => IInv
<1> SUFFICES ASSUME Init  PROVE IInv  OBVIOUS
<1>1. /\ hook \in Hooks /\ sp = EntrySp /\ called = <<>>
      /\ pc = At(IF hook.kind = "function" THEN "function" ELSE "dispatcher", 1)
      /\ x = [r \in Registers |-> IF r = 30 /\ hook.signed THEN Signed ELSE Entry(r)]
      /\ memory = [a \in 0 .. EntrySp + 32 |-> Entry("memory")]
  BY DEF Init
<1>2. Frame \in 1 .. 2  BY <1>1, HookFacts
<1>3. /\ x = [r \in Registers |-> x[r]] /\ x[30] = Raw
      /\ \A r \in Registers \ {30} : x[r] = Entry(r)
  BY <1>1 DEF Registers, Raw
<1>4. memory = [a \in 0 .. EntrySp + 32 |-> memory[a]] /\ Stack
  BY <1>1, EntryStack DEF Stack
<1>5. Always
  <2>1. 19 \in Registers \ {30} /\ 29 \in Registers \ {30}  BY DEF Registers
  <2>2. IsCode(<<>>) /\ Len(<<>>) = 0  BY DEF IsCode
  <2>3. IsCode(called) /\ \A n \in 1 .. Len(called) : CallOK(n)  BY <1>1, <2>2
  <2> QED  BY <1>1, <1>3, <1>4, <2>1, <2>3 DEF Always
<1>6. Kept(1)  BY <1>3 DEF Kept, Intact
<1>7. CASE Function
  <2>1. pc = InFunction(1)  BY <1>1, <1>7 DEF Function, At, InFunction, Place
  <2>2. x[30] = Link  BY <1>3, <1>7 DEF Link, Raw
  <2>3. FunctionEntering  BY <1>1, <1>6, <1>7, <2>1, <2>2 DEF FunctionEntering
  <2> QED  BY <1>5, <2>3 DEF IInv, Somewhere
<1>8. CASE ~Function
  <2>1. pc = InDispatcher(1) /\ pc.at = 1  BY <1>1, <1>8 DEF Function, At, InDispatcher, Place
  <2>2. x[30] = IF 1 = Frame THEN Link ELSE Raw
    <3>1. 1 = Frame => ~hook.macho  BY DEF Frame
    <3> QED  BY <1>3, <3>1 DEF Link, Raw
  <2>3. Entering  BY <1>1, <1>2, <1>6, <1>8, <2>1, <2>2 DEF Entering
  <2> QED  BY <1>5, <2>3 DEF IInv, Somewhere
<1> QED  BY <1>7, <1>8

\* Every step leads to a point of the code.
LEMMA StepIsSomewhere == IInv /\ Next => IInv'
<1> SUFFICES ASSUME Always, Somewhere, Next  PROVE Always' /\ Somewhere'  BY DEF IInv
<1>1. CASE Entering  BY <1>1, FromEntering
<1>2. CASE Leaving  BY <1>2, FromLeaving
<1>3. CASE Resumed \/ Returned  BY <1>3, NothingAfter
<1>4. ASSUME NEW n \in 1 .. N + 1, Between(n)  PROVE Always' /\ Somewhere'  BY <1>4, FromBetween
<1>5. ASSUME NEW n \in 1 .. N, HalfSaved(n)  PROVE Always' /\ Somewhere'  BY <1>5, FromHalfSaved
<1>6. ASSUME NEW n \in 1 .. N, Calling(n)  PROVE Always' /\ Somewhere'  BY <1>6, FromCalling
<1>7. ASSUME NEW n \in 1 .. N, Handling(n)  PROVE Always' /\ Somewhere'  BY <1>7, FromHandling
<1>8. ASSUME NEW n \in 1 .. N, Handled(n)  PROVE Always' /\ Somewhere'  BY <1>8, FromHandled
<1>9. ASSUME NEW n \in 1 .. N, HalfRestored(n)  PROVE Always' /\ Somewhere'
  BY <1>9, FromHalfRestored
<1>10. ASSUME NEW n \in 1 .. N, NEW j \in 1 .. Count(n) + 1, Wrapping(n, j)
       PROVE Always' /\ Somewhere'
  BY <1>10, FromWrapping
<1>11. CASE FunctionEntering  BY <1>11, FromFunctionEntering
<1>12. ASSUME NEW j \in 1 .. Count(1) + 1, FunctionMoving(j)  PROVE Always' /\ Somewhere'
  BY <1>12, FromFunctionMoving
<1>13. CASE FunctionCalled  BY <1>13, FromFunctionCalled
<1>14. CASE FunctionMoved  BY <1>14, FromFunctionMoved
<1>15. CASE FunctionLeaving  BY <1>15, FromFunctionLeaving
<1> QED
  BY <1>1, <1>2, <1>3, <1>4, <1>5, <1>6, <1>7, <1>8, <1>9, <1>10, <1>11, <1>12, <1>13, <1>14, <1>15
  DEF Somewhere

\* A step that changes nothing stays where it is.
LEMMA StutterIsSomewhere == IInv /\ UNCHANGED vars => IInv'
<1> SUFFICES ASSUME IInv, UNCHANGED vars  PROVE IInv'  OBVIOUS
<1>1. hook' = hook /\ pc' = pc /\ x' = x /\ sp' = sp /\ memory' = memory /\ called' = called
  BY DEF vars
<1>2. /\ N' = N /\ Detour' = Detour /\ Function' = Function /\ Frame' = Frame
      /\ Link' = Link /\ Raw' = Raw /\ Depth' = Depth
      /\ \A n : /\ Count(n)' = Count(n) /\ First(n)' = First(n)
                /\ ReturnPoint(n)' = ReturnPoint(n) /\ Intact(n)' = Intact(n)
      /\ \A n, i : Untouched(n, i)' = Untouched(n, i) /\ Wanted(n, i)' = Wanted(n, i)
  BY <1>1, HookIsFixed
<1>3. Always'  BY <1>1, AlwaysKept DEF IInv, Always, Shape, Stack
<1>4. FrameSaved' = FrameSaved /\ Result' = Result /\ \A r : ArgSaved(r)' = ArgSaved(r)
  BY <1>1, <1>2 DEF FrameSaved, Result, ArgSaved
<1>5. ASSUME NEW n
      PROVE /\ Kept(n)' = Kept(n) /\ Nested(n)' = Nested(n)
            /\ \A j : Moved(n, j)' = Moved(n, j)
  BY <1>1, <1>2, <1>4 DEF Kept, Nested, Moved
<1>6. /\ Entering' = Entering /\ Leaving' = Leaving /\ Resumed' = Resumed /\ Returned' = Returned
      /\ FunctionEntering' = FunctionEntering /\ FunctionCalled' = FunctionCalled
      /\ FunctionMoved' = FunctionMoved /\ FunctionLeaving' = FunctionLeaving
  BY <1>1, <1>2, <1>4, <1>5
  DEF Entering, Leaving, Resumed, Returned, FunctionEntering, FunctionCalled, FunctionMoved,
      FunctionLeaving, InDispatcher, InFunction, Place
<1>7. ASSUME NEW n
      PROVE /\ Between(n)' = Between(n) /\ HalfSaved(n)' = HalfSaved(n) /\ Calling(n)' = Calling(n)
            /\ Handling(n)' = Handling(n) /\ Handled(n)' = Handled(n)
            /\ HalfRestored(n)' = HalfRestored(n) /\ FunctionMoving(n)' = FunctionMoving(n)
            /\ \A j : Wrapping(n, j)' = Wrapping(n, j)
  BY <1>1, <1>2, <1>4, <1>5
  DEF Between, HalfSaved, Calling, Handling, Handled, HalfRestored, FunctionMoving, Wrapping,
      InDispatcher, InFunction, Place
<1>8. Somewhere' = Somewhere  BY <1>2, <1>6, <1>7 DEF Somewhere
<1> QED  BY <1>3, <1>8 DEF IInv

\* The program is at one of the points of the code, and its assertion holds.
LEMMA AlwaysSomewhere == Spec => []IInv
BY InitIsSomewhere, StepIsSomewhere, StutterIsSomewhere, PTL DEF Spec

-----------------------------------------------------------------------------
(* The theorems.                                                            *)

\* What the assertions say of every point.
LEMMA AnyPoint ==
  ASSUME IInv
  PROVE  /\ N \in Nat \ {0} /\ Len(called) \in 0 .. N
         /\ sp \in {EntrySp, EntrySp - 16, EntrySp - 48}
         /\ pc.in \in {"dispatcher", "wrapper", "function", "handler", "resumed", "returned"}
         /\ Over => Resumed \/ Returned
<1>1. hook \in Hooks  BY DEF IInv, Always
<1>2. N \in Nat \ {0} /\ (Function => N = 1)  BY <1>1, HookFacts
<1> DEFINE Good == /\ Len(called) \in 0 .. N
                   /\ sp \in {EntrySp, EntrySp - 16, EntrySp - 48}
                   /\ pc.in \in {"dispatcher", "wrapper", "function", "handler", "resumed", "returned"}
                   /\ Over => Resumed \/ Returned
<1>3. Depth \in {EntrySp - 16, EntrySp - 48}  BY DEF Depth
<1>4. Entering => Good  BY <1>2 DEF Entering, InDispatcher, Place, Over
<1>5. Leaving => Good  BY <1>2 DEF Leaving, InDispatcher, Place, Over
<1>6. Resumed => Good  BY <1>2 DEF Resumed, Place
<1>7. Returned => Good  BY <1>2 DEF Returned, Place
<1>8. ASSUME NEW n \in 1 .. N + 1  PROVE Between(n) => Good
  BY <1>2 DEF Between, InDispatcher, Place, Over
<1>9. ASSUME NEW n \in 1 .. N
      PROVE /\ HalfSaved(n) => Good
            /\ HalfRestored(n) => Good
            /\ Calling(n) => Good
            /\ Handling(n) => Good
            /\ \A j : Wrapping(n, j) => Good
  <2>1. n \in 0 .. N /\ n - 1 \in 0 .. N  BY <1>2
  <2>2. Nested(n) => Len(called) \in 0 .. N /\ sp \in {EntrySp - 16, EntrySp - 48}
    BY <1>3, <2>1 DEF Nested
  <2>3. HalfSaved(n) => Good  BY <1>3, <2>1 DEF HalfSaved, InDispatcher, Place, Over
  <2>4. HalfRestored(n) => Good  BY <1>3, <2>1 DEF HalfRestored, InDispatcher, Place, Over
  <2>5. Calling(n) => Good  BY <2>2 DEF Calling, InDispatcher, Place, Over
  <2>6. Handling(n) => Good  BY <2>2 DEF Handling, Place, Over
  <2>7. \A j : Wrapping(n, j) => Good  BY <2>2 DEF Wrapping, Place, Over
  <2> QED  BY <2>3, <2>4, <2>5, <2>6, <2>7
<1>10. ASSUME NEW n \in 1 .. N  PROVE Handled(n) => Good
  <2>1. n \in 0 .. N  BY <1>2
  <2> QED  BY <1>3, <2>1 DEF Handled, ReturnPoint, InDispatcher, InFunction, Place, Over
<1>11. FunctionEntering => Good  BY <1>2 DEF FunctionEntering, InFunction, Place, Over
<1>12. FunctionCalled => Good  BY <1>2 DEF FunctionCalled, InFunction, Place, Over
<1>13. FunctionMoved => Good  BY <1>2 DEF FunctionMoved, InFunction, Place, Over
<1>14. FunctionLeaving => Good  BY <1>2 DEF FunctionLeaving, InFunction, Place, Over
<1>15. ASSUME NEW j  PROVE FunctionMoving(j) => Good
  BY <1>2, <1>3 DEF FunctionMoving, Nested, InFunction, Place, Over
<1> HIDE DEF Good
<1>16. Good
  BY <1>4, <1>5, <1>6, <1>7, <1>8, <1>9, <1>10, <1>11, <1>12, <1>13, <1>14, <1>15 DEF IInv, Somewhere
<1> QED  BY <1>2, <1>16 DEF Good

\* The machine's state keeps its shape, the stack pointer its alignment, and
\* no handler runs twice.
THEOREM TypeCorrect == Spec => []TypeOK
<1>1. IInv => TypeOK
  <2> SUFFICES ASSUME IInv  PROVE TypeOK  OBVIOUS
  <2>1. /\ N \in Nat \ {0} /\ Len(called) \in 0 .. N
        /\ sp \in {EntrySp, EntrySp - 16, EntrySp - 48}
        /\ pc.in \in {"dispatcher", "wrapper", "function", "handler", "resumed", "returned"}
    BY AnyPoint
  <2>2. sp \in 0 .. EntrySp /\ sp % 16 = 0  BY <2>1, DispatchAssumption
  <2>3. hook \in Hooks /\ DOMAIN x = Registers /\ DOMAIN memory = 0 .. EntrySp + 32
    <3>1. /\ x = [r \in Registers |-> x[r]]
          /\ memory = [a \in 0 .. EntrySp + 32 |-> memory[a]]
      BY DEF IInv, Always
    <3>2. hook \in Hooks  BY DEF IInv, Always
    <3> DEFINE D == 0 .. EntrySp + 32
    <3>3. memory = [a \in D |-> memory[a]]  BY <3>1
    <3> HIDE DEF D
    <3>4. DOMAIN memory = D  BY <3>3
    <3>5. DOMAIN x = Registers  BY <3>1
    <3> QED  BY <3>2, <3>4, <3>5 DEF D
  <2>4. Len(called) <= Len(hook.handlers)  BY <2>1 DEF N
  <2> QED  BY <2>1, <2>2, <2>3, <2>4 DEF TypeOK
<1> QED  BY <1>1, AlwaysSomewhere, PTL

\* The handlers are called once each, in the order they were declared, and the
\* dispatcher ends as its kind says.
THEOREM CallsInOrder == Spec => []HandlersInOrder
<1>1. IInv => HandlersInOrder
  <2> SUFFICES ASSUME IInv, Over  PROVE /\ [n \in DOMAIN called |-> called[n].n] = [n \in DOMAIN hook.handlers |-> n]
                                        /\ pc.in = IF hook.kind = "detour" THEN "resumed" ELSE "returned"
    BY DEF HandlersInOrder
  <2>1. Resumed \/ Returned  BY AnyPoint
  <2>2. Len(called) = N  BY <2>1 DEF Resumed, Returned
  <2>3. pc.in = IF hook.kind = "detour" THEN "resumed" ELSE "returned"
    BY <2>1 DEF Resumed, Returned, Detour, Place
  <2>4. DOMAIN called = 1 .. N /\ \A n \in 1 .. N : called[n].n = n
    BY <2>2 DEF IInv, Always, IsCode, CallOK
  <2>5. DOMAIN hook.handlers = 1 .. N
    <3>1. hook \in Hook  BY DispatchAssumption DEF IInv, Always
    <3>2. hook.handlers \in Seq(Seq(Operand))  BY <3>1 DEF Hook
    <3> QED  BY <3>2 DEF N
  <2> QED  BY <2>3, <2>4, <2>5
<1> QED  BY <1>1, AlwaysSomewhere, PTL

\* Every handler gets the operands it asks for as they were at the hook, unless
\* its own moves or an earlier handler took them.
THEOREM ArgumentsArrive == Spec => []ArgumentsDelivered
<1>1. IInv => ArgumentsDelivered
  <2> SUFFICES ASSUME IInv, NEW n \in DOMAIN called,
                      NEW i \in DOMAIN hook.handlers[called[n].n],
                      i <= 8, Untouched(called[n].n, i)
               PROVE  Delivered(n, i)
    BY DEF ArgumentsDelivered
  <2>1. Len(called) \in 0 .. N /\ N \in Nat  BY AnyPoint
  <2>2. n \in 1 .. Len(called)  BY DEF IInv, Always, IsCode
  <2>3. n \in 1 .. N /\ CallOK(n)  BY <2>1, <2>2 DEF IInv, Always
  <2>4. called[n].n = n  BY <2>3 DEF CallOK
  <2>5. hook.handlers[n] \in Seq(Operand)
    <3>1. hook \in Hook  BY DispatchAssumption DEF IInv, Always
    <3>2. hook.handlers \in Seq(Seq(Operand))  BY <3>1 DEF Hook
    <3> QED  BY <2>3, <3>2 DEF N
  <2>6. i \in 1 .. Len(hook.handlers[n])  BY <2>4, <2>5
  <2>7. i \in 1 .. Count(n)  BY <2>5, <2>6 DEF Count
  <2>8. called[n].x[i - 1] = Wanted(n, i)  BY <2>3, <2>4, <2>7 DEF CallOK
  <2> QED  BY <2>4, <2>8 DEF Delivered, Wanted
<1> QED  BY <1>1, AlwaysSomewhere, PTL

\* After any number of handlers the program goes on with the x0 to x3, the
\* callee-saved registers, frame, return address and stack it had at the hook,
\* or its caller gets the last handler's result.  Of x4 to x7, which
\* append_detour_arg_save does not save, nothing is said: ResumesWithArguments,
\* which includes them, does not hold.
THEOREM SavedStays == Spec => []SavedIsRestored
<1>1. IInv => SavedIsRestored
  <2> SUFFICES ASSUME IInv  PROVE ResumesAsSaved /\ ReturnsToCaller  BY DEF SavedIsRestored
  <2>1. hook.kind \in {"detour", "replace", "function"} /\ (Function => N = 1)
    BY HookFacts DEF IInv, Always
  <2>2. x[19] = Entry(19) /\ x[29] = Entry(29)  BY DEF IInv, Always
  <2>3. ASSUME pc.in = "resumed"
        PROVE /\ \A r \in {0, 1, 2, 3, 19, 29} : x[r] = Entry(r)
              /\ x[30] = IF hook.signed /\ ~hook.macho THEN Signed ELSE Entry(30)
              /\ StackUntouched
    <3>1. Resumed  BY <2>3, AnyPoint DEF Over, Returned, Place
    <3>2. \A r \in {0, 1, 2, 3, 19, 29} : x[r] = Entry(r)  BY <2>2, <3>1 DEF Resumed
    <3>3. x[30] = IF hook.signed /\ ~hook.macho THEN Signed ELSE Entry(30)
      BY <3>1 DEF Resumed, Link, Detour, Function
    <3>4. StackUntouched  BY <3>1 DEF Resumed, StackUntouched, IInv, Always, Stack
    <3> QED  BY <3>2, <3>3, <3>4
  <2>4. ASSUME pc.in = "returned"
        PROVE /\ \A r \in {19, 29} : x[r] = Entry(r)
              /\ x[30] \in {Entry(30), Signed} /\ StackUntouched
              /\ x[0] = Left(Len(hook.handlers), 0)
              /\ hook.kind = "function" => x[1] = x[0]
    <3>1. Returned  BY <2>4, AnyPoint DEF Over, Resumed, Place
    <3>2. StackUntouched  BY <3>1 DEF Returned, StackUntouched, IInv, Always, Stack
    <3>3. x[30] \in {Entry(30), Signed}  BY <3>1 DEF Returned, Link
    <3>4. x[0] = Left(Len(hook.handlers), 0) /\ (hook.kind = "function" => x[1] = x[0])
      BY <3>1 DEF Returned, N, Function
    <3> QED  BY <2>2, <3>2, <3>3, <3>4
  <2> QED  BY <2>3, <2>4 DEF ResumesAsSaved, ReturnsToCaller
<1> QED  BY <1>1, AlwaysSomewhere, PTL
=============================================================================
